---------------------------- MODULE MCValidation ----------------------------
(* What devices of each role may print, for TLC.                           *)
EXTENDS Validation

Line(flags, name, kind) == <<[flags |-> flags, name |-> name, kind |-> kind]>>

\* No, one or two adjacencies with one router.
Adjacencies ==
    {<<>>} \cup {<<[key |-> "r1", state |-> s]>> : s \in {"full", "2way", "init"}}
        \cup {[i \in 1 .. 2 |-> [key |-> "r1", state |-> s[i]]] :
                s \in {<<"full", "2way">>, <<"2way", "full">>}}

OSPFFacts ==
    [neighbors : Adjacencies, prefixes : {{"p1"}}]
        \cup [neighbors : {<<>>}, prefixes : {{}, {"p1", "p2"}, {"p1", "p2", "p3"}}]

Off(key, disabled) == <<[key |-> key, disabled |-> disabled]>>

PPPoEFacts ==
    [servers : {Off("isp", TRUE), Off("isp", FALSE), Off("isp", TRUE) \o Off("isp", FALSE)},
     useRadius : {"yes"}, accounting : {"yes"}, radius : {<<>>},
     sessions : {<<>>, Line({}, "ann", "pppoe")}]
        \cup [servers : {<<>>}, useRadius : {"", "no"}, accounting : {"yes"},
              radius : {Off("r", TRUE), Off("r", FALSE)}, sessions : {Line({"R"}, "BOB", "pppoe")}]
        \cup [servers : {<<>>}, useRadius : {"no"}, accounting : {""},
              radius : {Off("r", TRUE)}, sessions : {Line({}, "BOB", "pppoe")}]

RadioFacts ==
    [interfaces : [1 .. 1 -> [key : {"wlan1"}, disabled : BOOLEAN, running : BOOLEAN,
                              ssid : {"a"}, frequency : {""}, channel : {""}]
                        \cup [key : {"wlan1"}, disabled : {FALSE}, running : {TRUE},
                              ssid : {"b"}, frequency : {"", "5180", "5200"}, channel : {"20mhz"}]],
     peers : {{"m1"}}]
        \cup [interfaces : {<<>>}, peers : {{}, {"m1"}}]

Bridges == [1 .. 1 -> [key : {"br1"}, disabled : BOOLEAN, running : BOOLEAN]]
VLANs == [1 .. 1 -> [key : {"br1/10"}, tagged : {{"p1"}}, untagged : {{}, {"p2"}}]]

SwitchFacts ==
    [bridges : Bridges, vlans : {<<>>}, ports : {<<>>}]
        \cup [bridges : {<<>>}, vlans : VLANs, ports : {Line({}, "p1", "ether")}]
        \cup [bridges : {<<>>}, vlans : {<<>>},
              ports : {Line(f, "p1", "ether") : f \in {{}, {"X"}}}
                        \cup {Line({"R"}, "AUX", "ether"), Line({}, "AUX", "ether")}]

AccessFacts ==
    [bridges : {<<>>}, vlans : {<<>>}, ports : {<<>>}, prefixes : SUBSET {"p1", "p2"},
     addresses : {Line(f, "10.0.0.1/24", "net") : f \in {{}, {"X"}}}]

MCFacts(r) ==
    CASE r = "ospf" -> OSPFFacts
      [] r = "pppoe" -> PPPoEFacts
      [] r = "radio" -> RadioFacts
      [] r = "switch" -> SwitchFacts
      [] r = "access" -> AccessFacts
      [] OTHER -> {[none |-> TRUE]}
=============================================================================
