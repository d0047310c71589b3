-------------------------- MODULE ValidationProofs --------------------------
(***************************************************************************)
(* Validation for every set of roles, facts and labels.  Two arguments:    *)
(* the printer's caller and its spinner, of which at most one is running,  *)
(* agree on who draws what and when; and a check that passes keeps every   *)
(* service of the baseline, so that a chain of passing checks does.        *)
(***************************************************************************)
EXTENDS Validation, FiniteSetTheorems, WellFoundedInduction, TLAPS

USE PrinterAssumption, ValidationAssumption, ProfileAssumption
    DEF PrinterAssumption, ValidationAssumption, ProfileAssumption

(***************************************************************************)
(* The printer.                                                            *)
(***************************************************************************)

Gone == \A ch \in Channel : spinner[ch] = "gone"

\* A call that has stopped the spinner has no current one.
PastStop == call.op \in {"start", "finish", "skip"} /\ call.at \in {"wait", "relock", "body"}

Spinners ==
    /\ mu = "caller" => call.op # "none" /\ call.at \in {"stop", "body"}
    /\ \A ch \in Channel : mu = ch => spinner[ch] = "draw"
    /\ stop # Nil => spinner[stop] # "gone" /\ stop \notin closed
    /\ \A ch \in Channel : spinner[ch] # "gone" => ch = stop \/ ch \in closed
    /\ call.op # "none" => call.at # "return"
    /\ call.op = "update" => call.at \in {"lock", "body"}
    /\ PastStop => stop = Nil
    /\ stop = Nil /\ ~(call.op # "none" /\ call.at = "wait") => Gone

\* What is shown at each point of a check.
Shows ==
    /\ call.op \in {"start", "update", "skip"} => call.arg \in Label
    /\ pc = "idle" => stop = Nil /\ call.op \in {"none", "skip"}
    /\ pc = "waiting" => call.op \in {"none", "start", "update"}
    /\ call.op = "finish" => call.arg \in {"*", "x"}
    /\ pc \in {"tracking", "done"} => call.op \in {"none", "finish"}
    /\ pc \in {"tracking", "done"} /\ call.op = "none" => stop = Nil
    /\ pc = "check" => call.op \in {"none", "start"}
    /\ pc = "check" /\ call.op = "start" => call.arg = "checking"
    /\ pc = "check" /\ call.op = "none" => planned = "checking"
    /\ pc \in {"restore", "report"} => call.op \in {"none", "update"}
    /\ pc \in {"restore", "report", "done"} => planned = "checking"
    /\ pc = "done" /\ call.op = "finish" =>
          call.arg = IF verdict = "green" THEN "*" ELSE "x"
    /\ ShowsVerdict

PrinterInv == PrinterTypeOK /\ Spinners /\ Shows

LEMMA PrinterInitially == Init => PrinterInv
  BY DEF Init, PrinterInit, PrinterInv, PrinterTypeOK, Spinners, Shows, ShowsVerdict,
     Gone, PastStop, NoCall, Channel, Silent

LEMMA SpinKept ==
    ASSUME PrinterInv, NEW ch \in Channel, Spin(ch), UNCHANGED checkVars
    PROVE  PrinterInv'
  <1> USE DEF PrinterInv, Channel
  <1>1. CASE Tick(ch)
    BY <1>1 DEF Tick, checkVars, PrinterTypeOK, Spinners, Shows, ShowsVerdict, Gone, PastStop, Silent
  <1>2. CASE SpinLock(ch)
    BY <1>2 DEF SpinLock, checkVars, PrinterTypeOK, Spinners, Shows, ShowsVerdict, Gone, PastStop, Silent
  <1>3. CASE Draw(ch)
    BY <1>3 DEF Draw, checkVars, PrinterTypeOK, Spinners, Shows, ShowsVerdict, Gone, PastStop, Silent
  <1>4. CASE End(ch)
    BY <1>4 DEF End, Told, checkVars, PrinterTypeOK, Spinners, Shows, ShowsVerdict, Gone, PastStop, Silent
  <1> QED
    BY <1>1, <1>2, <1>3, <1>4 DEF Spin

LEMMA CallKept ==
    ASSUME PrinterInv, CallStep, UNCHANGED checkVars
    PROVE  PrinterInv'
  <1> USE DEF PrinterInv, Channel, At, Goto
  <1>1. CASE LockMu
    BY <1>1 DEF LockMu, checkVars, PrinterTypeOK, Spinners, Shows, ShowsVerdict, Gone, PastStop, Silent
  <1>2. CASE StopLocked
    BY <1>2 DEF StopLocked, checkVars, PrinterTypeOK, Spinners, Shows, ShowsVerdict, Gone, PastStop, Silent
  <1>3. CASE AwaitSpinner
    BY <1>3 DEF AwaitSpinner, Ended, checkVars, PrinterTypeOK, Spinners, Shows, ShowsVerdict, Gone, PastStop, Silent
  <1>4. CASE StartBody
    <2>1. call.op = "start" /\ call.at = "body" /\ stop = Nil /\ Gone /\ call.arg \in Label
      BY <1>4 DEF StartBody, PrinterTypeOK, Spinners, Shows, PastStop, Gone
    <2>2. /\ label' = call.arg /\ planned' = call.arg /\ call' = NoCall /\ mu' = Nil
          /\ UNCHANGED <<tty, checkVars>>
      BY <1>4 DEF StartBody, Return
    <2>3. CASE tty
      <3>1. PICK ch \in Channel :
              /\ stop' = ch /\ closed' = closed \ {ch} /\ line' = call.arg
              /\ spinner' = [spinner EXCEPT ![ch] = "select"] /\ UNCHANGED printed
        BY <1>4, <2>3 DEF StartBody
      <3>2. PrinterTypeOK'
        BY <2>1, <2>2, <3>1 DEF PrinterTypeOK, NoCall
      <3>3. Spinners'
        BY <2>1, <2>2, <3>1 DEF PrinterTypeOK, NoCall, Spinners, Gone, PastStop
      <3>4. Shows'
        BY <2>1, <2>2, <3>1 DEF NoCall, Shows, ShowsVerdict, Silent, checkVars
      <3> QED
        BY <3>2, <3>3, <3>4
    <2>4. CASE ~tty
      <3>1. printed' = <<">", call.arg>> /\ UNCHANGED <<stop, closed, spinner, line>>
        BY <1>4, <2>4 DEF StartBody
      <3>2. PrinterTypeOK'
        BY <2>1, <2>2, <3>1 DEF PrinterTypeOK, NoCall
      <3>3. Spinners'
        BY <2>1, <2>2, <3>1 DEF PrinterTypeOK, NoCall, Spinners, Gone, PastStop
      <3>4. Shows'
        BY <2>1, <2>2, <3>1 DEF NoCall, Shows, ShowsVerdict, Silent, checkVars
      <3> QED
        BY <3>2, <3>3, <3>4
    <2> QED
      BY <2>3, <2>4
  <1>5. CASE UpdateBody
    BY <1>5 DEF UpdateBody, Return, NoCall, checkVars, PrinterTypeOK, Spinners, Shows, ShowsVerdict, Gone, PastStop, Silent
  <1>6. CASE FinishBody
    <2>1. call.op = "finish" /\ call.at = "body" /\ stop = Nil /\ Gone
      BY <1>6 DEF FinishBody, PrinterTypeOK, Spinners, PastStop, Gone
    <2>2. /\ label' = planned /\ printed' = <<call.arg, planned>> /\ line' = Nil
          /\ call' = NoCall /\ mu' = Nil
          /\ UNCHANGED <<tty, stop, closed, spinner, planned, checkVars>>
      BY <1>6 DEF FinishBody, Planned, Return
    <2>3. PrinterTypeOK'
      <3>1. call.arg \in {"*", "x", ">", "-", Nil}
        BY <2>1 DEF Shows
      <3> QED
        BY <2>1, <2>2, <3>1 DEF PrinterTypeOK, NoCall
    <2>4. Spinners'
      BY <2>1, <2>2 DEF PrinterTypeOK, NoCall, Spinners, Gone, PastStop
    <2>5. Shows'
      BY <2>1, <2>2 DEF NoCall, Shows, ShowsVerdict, Silent, checkVars
    <2> QED
      BY <2>3, <2>4, <2>5
  <1>7. CASE SkipBody
    BY <1>7 DEF SkipBody, Return, NoCall, checkVars, PrinterTypeOK, Spinners, Shows, ShowsVerdict, Gone, PastStop, Silent
  <1> QED
    BY <1>1, <1>2, <1>3, <1>4, <1>5, <1>6, <1>7 DEF CallStep

(***************************************************************************)
(* What a passing check keeps.                                             *)
(***************************************************************************)

LEMMA SessionsKept ==
    ASSUME NEW b, NEW f, KindsApart(b.sessions, f.sessions), SessionsOK(b, f)
    PROVE  Names(b.sessions) \subseteq Names(f.sessions)
  <1> SUFFICES ASSUME NEW i \in DOMAIN b.sessions, b.sessions[i].name \notin FlagLike
               PROVE  b.sessions[i].name \in Names(f.sessions)
    BY DEF Names
  <1>1. Named(b.sessions)[i].key = b.sessions[i].name /\ i \in DOMAIN Named(b.sessions)
    BY DEF Named
  <1>2. b.sessions[i].name \in Keys(Named(f.sessions))
    BY <1>1 DEF SessionsOK, Keys
  <1>3. PICK j \in DOMAIN f.sessions : b.sessions[i].name = Named(f.sessions)[j].key
    BY <1>2 DEF Keys, Named
  <1>4. b.sessions[i].name = f.sessions[j].name
    BY <1>3 DEF Named, KindsApart
  <1> QED
    BY <1>4 DEF Names

LEMMA EnabledKept ==
    ASSUME NEW b, NEW f, Found(b, f, StaysEnabled)
    PROVE  KeysOf(b, Enabled) \subseteq KeysOf(f, Enabled)
  BY DEF Found, HasRow, StaysEnabled, KeysOf, Enabled

LEMMA BridgesKept ==
    ASSUME NEW b, NEW f, Found(b, f, StaysUp)
    PROVE  KeysOf(b, Enabled) \subseteq KeysOf(f, Enabled)
           /\ KeysOf(b, Runs) \subseteq KeysOf(f, Runs)
  BY DEF Found, HasRow, StaysUp, KeysOf, Enabled, Runs

LEMMA NeighborsKept ==
    ASSUME NEW b, NEW f, Allow \subseteq {"full", "2way"}, Found(b, f, NeighborKept)
    PROVE  KeysOf(b, IsFull) \subseteq KeysOf(f, IsFull)
           /\ KeysOf(b, IsUp) \subseteq KeysOf(f, IsUp)
  BY DEF Found, HasRow, NeighborKept, KeysOf, IsFull, IsUp

LEMMA PortNamesKept ==
    ASSUME NEW b, NEW f, KindsApart(b, f), PortsKept(Named(b), Named(f))
    PROVE  EnabledNames(b) \subseteq EnabledNames(f)
  <1> SUFFICES ASSUME NEW i \in DOMAIN b, "X" \notin b[i].flags, b[i].name \notin FlagLike
               PROVE  b[i].name \in EnabledNames(f)
    BY DEF EnabledNames
  <1>1. Named(b)[i].key = b[i].name /\ ~Named(b)[i].disabled /\ i \in DOMAIN Named(b)
    BY DEF Named
  <1>2. PICK j \in DOMAIN f : Named(f)[j].key = b[i].name /\ ~Named(f)[j].disabled
    <2>1. HasRow(Named(f), Named(b)[i], StaysEnabled)
      BY <1>1 DEF PortsKept
    <2> QED
      BY <1>1, <2>1 DEF HasRow, StaysEnabled, Named
  <1>3. f[j].name = b[i].name /\ "X" \notin f[j].flags
    BY <1>2 DEF Named, KindsApart
  <1> QED
    BY <1>3 DEF EnabledNames

LEMMA AddressesKept ==
    ASSUME NEW b, NEW f, Addresses(b) \subseteq Addresses(f)
    PROVE  EnabledNames(b) \subseteq EnabledNames(f)
  BY DEF Addresses, EnabledNames

\* No release loses what Service says of the device.
NoLoss(b, f) ==
    \A what \in DOMAIN Service(b) : Service(b)[what] \subseteq Service(f)[what]

Passed(b, f) ==
    Kept(role, b, f) \/ (role = "pppoe" /\ waited /\ SessionsOK(b, f))

LEMMA OSPFNoLoss ==
    ASSUME NEW b, NEW f, Allow \subseteq {"full", "2way"}, role = "ospf", Kept(role, b, f)
    PROVE  NoLoss(b, f)
  <1>1. Found(b.neighbors, f.neighbors, NeighborKept) /\ b.prefixes \subseteq f.prefixes
    BY DEF Kept, OSPFKept
  <1>2. /\ KeysOf(b.neighbors, IsFull) \subseteq KeysOf(f.neighbors, IsFull)
        /\ KeysOf(b.neighbors, IsUp) \subseteq KeysOf(f.neighbors, IsUp)
    BY <1>1, NeighborsKept
  <1> QED
    BY <1>1, <1>2 DEF NoLoss, Service

LEMMA PPPoENoLoss ==
    ASSUME NEW b \in Facts(role), NEW f \in Facts(role), role \in Role, role = "pppoe",
           Passed(b, f)
    PROVE  NoLoss(b, f)
  <1>1. SessionsOK(b, f)
    BY DEF Passed, Kept
  <1>2. Names(b.sessions) \subseteq Names(f.sessions)
    BY <1>1, SessionsKept
  <1>3. CASE waited
    BY <1>2, <1>3 DEF NoLoss, Service
  <1>4. CASE ~waited
    <2>1. ServersKept(b, f)
      BY <1>4 DEF Passed, Kept
    <2>2. /\ KeysOf(b.servers, Enabled) \subseteq KeysOf(f.servers, Enabled)
          /\ KeysOf(b.radius, Enabled) \subseteq KeysOf(f.radius, Enabled)
      BY <2>1, EnabledKept DEF ServersKept
    <2>3. Set({<<"aaa", "use-radius", b.useRadius>>, <<"aaa", "accounting", b.accounting>>})
          \subseteq Set({<<"aaa", "use-radius", f.useRadius>>, <<"aaa", "accounting", f.accounting>>})
      <3>1. SettingKept(b.useRadius, f.useRadius) /\ SettingKept(b.accounting, f.accounting)
        BY <2>1 DEF ServersKept
      <3>2. ASSUME NEW t, t = <<"aaa", "use-radius", b.useRadius>>, t[3] # ""
            PROVE  t = <<"aaa", "use-radius", f.useRadius>>
        BY <3>1, <3>2 DEF SettingKept
      <3>3. ASSUME NEW t, t = <<"aaa", "accounting", b.accounting>>, t[3] # ""
            PROVE  t = <<"aaa", "accounting", f.accounting>>
        BY <3>1, <3>3 DEF SettingKept
      <3> QED
        BY <3>2, <3>3 DEF Set
    <2> DEFINE A(x) == Set({<<"aaa", "use-radius", x.useRadius>>,
                            <<"aaa", "accounting", x.accounting>>})
    <2>4. ASSUME NEW x PROVE
             Service(x) = [sessions |-> Names(x.sessions),
                           servers |-> KeysOf(x.servers, Enabled),
                           radius |-> KeysOf(x.radius, Enabled), aaa |-> A(x)]
      BY <1>4 DEF Service
    <2>5. A(b) \subseteq A(f)
      BY <2>3
    <2> HIDE DEF A
    <2> QED
      BY <1>2, <2>2, <2>4, <2>5 DEF NoLoss
  <1> QED
    BY <1>3, <1>4

LEMMA RadioNoLoss ==
    ASSUME NEW b, NEW f, role = "radio", Kept(role, b, f)
    PROVE  NoLoss(b, f)
  <1>1. Found(b.interfaces, f.interfaces, WirelessKept) /\ b.peers \subseteq f.peers
    BY DEF Kept, RadioKept
  <1>2. /\ KeysOf(b.interfaces, Enabled) \subseteq KeysOf(f.interfaces, Enabled)
        /\ KeysOf(b.interfaces, OnAir) \subseteq KeysOf(f.interfaces, OnAir)
    BY <1>1 DEF Found, HasRow, WirelessKept, StaysEnabled, KeysOf, Enabled, OnAir
  <1> DEFINE Tuned(x) == Set(UNION {Settings(x.interfaces[i]) : i \in DOMAIN x.interfaces})
  <1>3. Tuned(b) \subseteq Tuned(f)
    <2> SUFFICES ASSUME NEW i \in DOMAIN b.interfaces,
                        NEW t \in Settings(b.interfaces[i]), t[3] # ""
                 PROVE  \E j \in DOMAIN f.interfaces : t \in Settings(f.interfaces[j])
      BY DEF Set
    <2>1. PICK j \in DOMAIN f.interfaces :
            /\ f.interfaces[j].key = b.interfaces[i].key
            /\ WirelessKept(b.interfaces[i], f.interfaces[j])
      BY <1>1 DEF Found, HasRow
    <2> DEFINE w == b.interfaces[i]
               h == f.interfaces[j]
    <2>2. /\ h.key = w.key /\ SettingKept(w.ssid, h.ssid)
          /\ SettingKept(w.frequency, h.frequency) /\ SettingKept(w.channel, h.channel)
      BY <2>1 DEF WirelessKept
    <2> HIDE DEF w, h
    <2>3. t \in {<<w.key, "ssid", w.ssid>>, <<w.key, "frequency", w.frequency>>,
                 <<w.key, "channel", w.channel>>}
      BY DEF Settings, w
    <2>4. ASSUME t = <<w.key, "ssid", w.ssid>> PROVE t \in Settings(h)
      <3>1. w.ssid # ""
        BY <2>4
      <3>2. t = <<h.key, "ssid", h.ssid>>
        BY <2>2, <2>4, <3>1 DEF SettingKept
      <3> QED
        BY <3>2 DEF Settings
    <2>5. ASSUME t = <<w.key, "frequency", w.frequency>> PROVE t \in Settings(h)
      <3>1. w.frequency # ""
        BY <2>5
      <3>2. t = <<h.key, "frequency", h.frequency>>
        BY <2>2, <2>5, <3>1 DEF SettingKept
      <3> QED
        BY <3>2 DEF Settings
    <2>6. ASSUME t = <<w.key, "channel", w.channel>> PROVE t \in Settings(h)
      <3>1. w.channel # ""
        BY <2>6
      <3>2. t = <<h.key, "channel", h.channel>>
        BY <2>2, <2>6, <3>1 DEF SettingKept
      <3> QED
        BY <3>2 DEF Settings
    <2>7. t \in Settings(h)
      BY <2>3, <2>4, <2>5, <2>6
    <2> QED
      BY <2>7 DEF h
  <1> HIDE DEF Tuned
  <1>4. /\ Service(b) = [enabled |-> KeysOf(b.interfaces, Enabled),
                         running |-> KeysOf(b.interfaces, OnAir),
                         tuned |-> Tuned(b), peers |-> b.peers]
        /\ Service(f) = [enabled |-> KeysOf(f.interfaces, Enabled),
                         running |-> KeysOf(f.interfaces, OnAir),
                         tuned |-> Tuned(f), peers |-> f.peers]
    BY DEF Service, Tuned
  <1> QED
    BY <1>1, <1>2, <1>3, <1>4 DEF NoLoss

LEMMA SwitchNoLoss ==
    ASSUME NEW b, NEW f, KindsApart(b.ports, f.ports), SwitchKept(b, f)
    PROVE  /\ KeysOf(b.bridges, Enabled) \subseteq KeysOf(f.bridges, Enabled)
           /\ KeysOf(b.bridges, Runs) \subseteq KeysOf(f.bridges, Runs)
           /\ {VLAN(b.vlans[i]) : i \in DOMAIN b.vlans}
              \subseteq {VLAN(f.vlans[i]) : i \in DOMAIN f.vlans}
           /\ EnabledNames(b.ports) \subseteq EnabledNames(f.ports)
  <1>1. /\ Found(b.bridges, f.bridges, StaysUp) /\ Found(b.vlans, f.vlans, VLANKept)
        /\ PortsKept(Named(b.ports), Named(f.ports))
    BY DEF SwitchKept
  <1>2. /\ KeysOf(b.bridges, Enabled) \subseteq KeysOf(f.bridges, Enabled)
        /\ KeysOf(b.bridges, Runs) \subseteq KeysOf(f.bridges, Runs)
    BY <1>1, BridgesKept
  <1>3. EnabledNames(b.ports) \subseteq EnabledNames(f.ports)
    BY <1>1, PortNamesKept
  <1>4. {VLAN(b.vlans[i]) : i \in DOMAIN b.vlans}
        \subseteq {VLAN(f.vlans[i]) : i \in DOMAIN f.vlans}
    BY <1>1 DEF Found, HasRow, VLANKept, VLAN
  <1> QED
    BY <1>2, <1>3, <1>4

LEMMA L2NoLoss ==
    ASSUME NEW b \in Facts(role), NEW f \in Facts(role), role \in Role,
           role \in {"switch", "access"}, Kept(role, b, f)
    PROVE  NoLoss(b, f)
  <1>1. KindsApart(b.ports, f.ports) /\ SwitchKept(b, f)
    BY DEF Kept, AccessKept
  <1> DEFINE V(x) == {VLAN(x.vlans[i]) : i \in DOMAIN x.vlans}
  <1>2. /\ KeysOf(b.bridges, Enabled) \subseteq KeysOf(f.bridges, Enabled)
        /\ KeysOf(b.bridges, Runs) \subseteq KeysOf(f.bridges, Runs)
        /\ V(b) \subseteq V(f)
        /\ EnabledNames(b.ports) \subseteq EnabledNames(f.ports)
    BY <1>1, SwitchNoLoss
  <1>3. ASSUME NEW x PROVE
           /\ role = "switch" => Service(x) = L2Service(x, {}, {})
           /\ role = "access" => Service(x) = L2Service(x, x.prefixes, EnabledNames(x.addresses))
    BY DEF Service
  <1>4. ASSUME NEW x, NEW r, NEW a PROVE
           L2Service(x, r, a) =
             [bridges |-> KeysOf(x.bridges, Enabled), running |-> KeysOf(x.bridges, Runs),
              vlans |-> V(x), ports |-> EnabledNames(x.ports), routes |-> r, addresses |-> a]
    BY DEF L2Service
  <1> HIDE DEF V
  <1>5. CASE role = "switch"
    BY <1>2, <1>3, <1>4, <1>5 DEF NoLoss
  <1>6. CASE role = "access"
    <2>1. b.prefixes \subseteq f.prefixes /\ Addresses(b.addresses) \subseteq Addresses(f.addresses)
      BY <1>6 DEF Kept, AccessKept
    <2>2. EnabledNames(b.addresses) \subseteq EnabledNames(f.addresses)
      BY <2>1, AddressesKept
    <2> QED
      BY <1>2, <1>3, <1>4, <1>6, <2>1, <2>2 DEF NoLoss
  <1> QED
    BY <1>5, <1>6

LEMMA PassedNoLoss ==
    ASSUME NEW b \in Facts(role), NEW f \in Facts(role), role \in Role,
           Allow \subseteq {"full", "2way"}, Passed(b, f)
    PROVE  NoLoss(b, f)
  <1>1. CASE role = "ospf"
    BY <1>1, OSPFNoLoss DEF Passed
  <1>2. CASE role = "pppoe"
    BY <1>2, PPPoENoLoss
  <1>3. CASE role = "radio"
    BY <1>3, RadioNoLoss DEF Passed
  <1>4. CASE role \in {"switch", "access"}
    BY <1>4, L2NoLoss DEF Passed
  <1>5. CASE role \notin {"ospf", "pppoe", "radio", "switch", "access"}
    BY <1>5 DEF NoLoss, Service
  <1> QED
    BY <1>1, <1>2, <1>3, <1>4, <1>5

(***************************************************************************)
(* The check.                                                              *)
(***************************************************************************)

CheckTypeOK ==
    /\ role \in Role
    /\ first \in Facts(role) /\ base \in Facts(role)
    /\ now \in Facts(role) \cup {Nil}
    /\ verdict \in {"none", "green", "red"}
    /\ waited \in BOOLEAN
    /\ pc \in {"idle", "waiting", "tracking", "check", "restore", "report", "done"}

Judged ==
    /\ pc = "restore" => role = "pppoe"
    /\ pc = "report" /\ verdict = "green" => now \in Facts(role) /\ Passed(base, now)

Inv == PrinterInv /\ CheckTypeOK /\ Judged

LEMMA Initially == Init => Inv /\ NoDrift
  <1> SUFFICES ASSUME Init PROVE Inv /\ NoDrift
    OBVIOUS
  <1>1. PrinterInv
    BY PrinterInitially
  <1>2. CheckTypeOK /\ Judged
    BY DEF Init, CheckTypeOK, Judged
  <1>3. NoDrift
    BY DEF Init, NoDrift
  <1> QED
    BY <1>1, <1>2, <1>3 DEF Inv

\* A method is called at a point where it may be.
LEMMA SaysKept ==
    ASSUME PrinterInv, Check
    PROVE  PrinterInv'
  <1> USE DEF PrinterInv, Ready, Silent, Says, Continue, Invoke, PrinterIdle, printerVars
  <1>1. CASE BadProfile
    BY <1>1 DEF BadProfile, PrinterTypeOK, Spinners, Shows, ShowsVerdict, Gone, PastStop
  <1>2. CASE SkipStage
    BY <1>2 DEF SkipStage, PrinterTypeOK, Spinners, Shows, ShowsVerdict, Gone, PastStop
  <1>3. CASE BeginWait
    BY <1>3 DEF BeginWait, PrinterTypeOK, Spinners, Shows, ShowsVerdict, Gone, PastStop
  <1>4. CASE TickWait
    BY <1>4 DEF TickWait, PrinterTypeOK, Spinners, Shows, ShowsVerdict, Gone, PastStop
  <1>5. CASE EndWait
    BY <1>5 DEF EndWait, PrinterTypeOK, Spinners, Shows, ShowsVerdict, Gone, PastStop
  <1>6. CASE Track
    BY <1>6 DEF Track, PrinterTypeOK, Spinners, Shows, ShowsVerdict, Gone, PastStop
  <1>7. CASE SharedFails
    BY <1>7 DEF SharedFails, PrinterTypeOK, Spinners, Shows, ShowsVerdict, Gone, PastStop
  <1>8. CASE RoleCheck
    <2>1. \/ Says("update", "sessions", "restore")
          \/ Continue("report")
      BY <1>8 DEF RoleCheck
    <2>2. Ready("check")
      BY <1>8 DEF RoleCheck
    <2> QED
      BY <2>1, <2>2 DEF PrinterTypeOK, Spinners, Shows, ShowsVerdict, Gone, PastStop
  <1>9. CASE RestoreOver
    BY <1>9 DEF RestoreOver, PrinterTypeOK, Spinners, Shows, ShowsVerdict, Gone, PastStop
  <1>10. CASE Report
    BY <1>10 DEF Report, PrinterTypeOK, Spinners, Shows, ShowsVerdict, Gone, PastStop
  <1>11. CASE Done
    BY <1>11 DEF Done, PrinterTypeOK, Spinners, Shows, ShowsVerdict, Gone, PastStop
  <1> QED
    BY <1>1, <1>2, <1>3, <1>4, <1>5, <1>6, <1>7, <1>8, <1>9, <1>10, <1>11 DEF Check

LEMMA JudgedKept ==
    ASSUME Inv, Check
    PROVE  CheckTypeOK' /\ Judged'
  <1> USE DEF Inv, CheckTypeOK, Judged, Ready, Silent, Says, Continue
  <1>1. CASE BadProfile
    BY <1>1 DEF BadProfile
  <1>2. CASE SkipStage
    BY <1>2 DEF SkipStage
  <1>3. CASE BeginWait
    BY <1>3 DEF BeginWait
  <1>4. CASE TickWait
    BY <1>4 DEF TickWait
  <1>5. CASE EndWait
    BY <1>5 DEF EndWait
  <1>6. CASE Track
    BY <1>6 DEF Track
  <1>7. CASE SharedFails
    BY <1>7 DEF SharedFails
  <1>8. CASE RoleCheck
    <2>1. PICK f \in Facts(role) :
            /\ now' = f
            /\ IF MayRestore(f)
               THEN pc' = "restore" /\ UNCHANGED verdict
               ELSE /\ verdict' = IF Kept(role, base, f) THEN "green" ELSE "red"
                    /\ pc' = "report"
      BY <1>8 DEF RoleCheck
    <2>2. UNCHANGED <<role, first, base, waited>>
      BY <1>8 DEF RoleCheck
    <2> QED
      BY <2>1, <2>2 DEF MayRestore, Passed
  <1>9. CASE RestoreOver
    <2>1. PICK f \in Facts(role) :
            /\ now' = f
            /\ verdict' = IF SessionsOK(base, f) THEN "green" ELSE "red"
            /\ waited' = (waited \/ SessionsOK(base, f))
      BY <1>9 DEF RestoreOver
    <2>2. UNCHANGED <<role, first, base>> /\ pc = "restore" /\ pc' = "report"
      BY <1>9 DEF RestoreOver
    <2>3. waited' \in BOOLEAN
      BY <2>1
    <2>4. verdict' = "green" => SessionsOK(base, now') /\ waited'
      BY <2>1
    <2>5. verdict' \in {"green", "red"}
      BY <2>1
    <2>6. Judged'
      BY <2>1, <2>2, <2>4 DEF Passed
    <2> QED
      BY <2>1, <2>2, <2>3, <2>5, <2>6
  <1>10. CASE Report
    BY <1>10 DEF Report, NextBase
  <1>11. CASE Done
    BY <1>11 DEF Done
  <1> QED
    BY <1>1, <1>2, <1>3, <1>4, <1>5, <1>6, <1>7, <1>8, <1>9, <1>10, <1>11 DEF Check

LEMMA NextKept == Inv /\ [Next]_vars => Inv'
  <1> SUFFICES ASSUME Inv, [Next]_vars PROVE Inv'
    OBVIOUS
  <1>1. CASE Check
    BY <1>1, SaysKept, JudgedKept DEF Inv
  <1>2. CASE UNCHANGED checkVars /\ PrinterInv'
    BY <1>2 DEF Inv, checkVars, CheckTypeOK, Judged, Passed
  <1>3. CASE CallStep /\ UNCHANGED checkVars
    BY <1>2, <1>3, CallKept DEF Inv
  <1>4. ASSUME NEW ch \in Channel, Spin(ch), UNCHANGED checkVars PROVE Inv'
    BY <1>2, <1>4, SpinKept DEF Inv
  <1>5. CASE UNCHANGED vars
    <2>1. UNCHANGED checkVars /\ UNCHANGED printerVars
      BY <1>5 DEF vars, checkVars, printerVars
    <2>2. PrinterInv'
      BY <2>1 DEF Inv, PrinterInv, PrinterTypeOK, Spinners, Shows, ShowsVerdict, Gone,
         PastStop, Silent, checkVars, printerVars
    <2> QED
      BY <1>2, <2>1, <2>2
  <1> QED
    BY <1>1, <1>3, <1>4, <1>5 DEF Next

\* The baseline moves on only to what has passed against it.
LEMMA DriftKept ==
    ASSUME Inv, NoDrift, [Next]_vars, Allow \subseteq {"full", "2way"}
    PROVE  NoDrift'
  <1>1. CASE UNCHANGED <<role, first, base, waited>>
    <2>1. Service(first)' = Service(first) /\ Service(base)' = Service(base)
      BY <1>1 DEF Service
    <2> QED
      BY <2>1 DEF NoDrift
  <1>2. CASE Report
    <2>1. UNCHANGED <<role, first, waited>> /\ base' \in NextBase /\ pc = "report"
      BY <1>2 DEF Report, Ready
    <2>2. CASE base' = base
      BY <1>1, <2>1, <2>2
    <2>3. CASE verdict = "green" /\ base' = now
      <3>1. base \in Facts(role) /\ now \in Facts(role) /\ role \in Role /\ Passed(base, now)
        BY <2>1, <2>3 DEF Inv, CheckTypeOK, Judged
      <3>2. NoLoss(base, now)
        BY <3>1, PassedNoLoss
      <3>3. DOMAIN Service(first) = DOMAIN Service(base)
        BY DEF Service, L2Service
      <3>4. \A what \in DOMAIN Service(first) : Service(first)[what] \subseteq Service(now)[what]
        BY <3>2, <3>3 DEF NoLoss, NoDrift
      <3>5. /\ Service(first)' = Service(first)
            /\ Service(base)' = Service(now)
        BY <2>1, <2>3 DEF Service
      <3> QED
        BY <3>4, <3>5 DEF NoDrift
    <2> QED
      BY <2>1, <2>2, <2>3 DEF NextBase
  <1>3. CASE RestoreOver
    <2>1. UNCHANGED <<role, first, base>> /\ role = "pppoe"
      BY <1>3 DEF RestoreOver, Ready, Inv, Judged
    <2>2. waited' \in BOOLEAN /\ waited \in BOOLEAN /\ (waited => waited')
      <3>1. PICK f \in Facts(role) : waited' = (waited \/ SessionsOK(base, f))
        BY <1>3 DEF RestoreOver
      <3> QED
        BY <3>1 DEF Inv, CheckTypeOK
    <2>3. CASE waited' = waited
      BY <1>1, <2>1, <2>3
    <2>4. CASE waited' # waited
      <3>1. waited' /\ ~waited
        BY <2>2, <2>4
      <3>2. Names(first.sessions) \subseteq Names(base.sessions)
        <4>1. /\ Service(first).sessions = Names(first.sessions)
              /\ Service(base).sessions = Names(base.sessions)
              /\ "sessions" \in DOMAIN Service(first)
          BY <2>1, <3>1 DEF Service
        <4> QED
          BY <4>1 DEF NoDrift
      <3>3. /\ Service(first)' = [sessions |-> Names(first.sessions)]
            /\ Service(base)' = [sessions |-> Names(base.sessions)]
        BY <2>1, <3>1 DEF Service
      <3> QED
        BY <3>2, <3>3 DEF NoDrift
    <2> QED
      BY <2>3, <2>4
  <1>4. CASE Check /\ ~Report /\ ~RestoreOver
    <2>1. UNCHANGED <<role, first, base, waited>>
      BY <1>4 DEF Check, BadProfile, SkipStage, BeginWait, TickWait, EndWait, Track,
         SharedFails, RoleCheck, Done
    <2> QED
      BY <1>1, <2>1
  <1> QED
    BY <1>1, <1>2, <1>3, <1>4 DEF Next, vars, checkVars

(***************************************************************************)
(* A device that has not changed.                                          *)
(***************************************************************************)

\* The row of a key that comes last is the only one the map keeps; unless rows
\* of one key differ, it is the row that was asked for.
LEMMA LastRow ==
    ASSUME NEW rows, NEW n \in Nat, DOMAIN rows = 1 .. n, ~Ambiguous(rows),
           NEW i \in DOMAIN rows
    PROVE  \E j \in DOMAIN rows : rows[j] = rows[i] /\ LastOfKey(rows, j)
  <1> DEFINE J == {j \in 1 .. n : rows[j].key = rows[i].key}
             T == {n - j : j \in J}
             R == OpToRel(<, Nat)
  <1>1. i \in J /\ \A j \in J : j \in 1 .. n /\ rows[j] = rows[i]
    BY DEF Ambiguous
  <1>2. T \subseteq Nat /\ T # {}
    BY <1>1
  <1>3. \E x \in T : \A y \in T : ~ (<<y, x>> \in R)
    <2>1. IsWellFoundedOn(R, Nat)
      BY NatLessThanWellFounded
    <2> HIDE DEF R, T
    <2> QED
      BY <1>2, <2>1, WFMin
  <1>4. PICK x \in T : \A y \in T : ~(y < x)
    BY <1>2, <1>3 DEF OpToRel
  <1>5. PICK j \in J : x = n - j
    OBVIOUS
  <1>6. ASSUME NEW k \in J PROVE k <= j
    <2>1. n - k \in T
      OBVIOUS
    <2>2. ~(n - k < n - j)
      BY <1>4, <1>5, <2>1
    <2> QED
      BY <1>1, <2>2
  <1>7. LastOfKey(rows, j)
    BY <1>5, <1>6 DEF LastOfKey
  <1> QED
    BY <1>1, <1>7

LEMMA ListedLength ==
    ASSUME NEW rows, Listed(rows)
    PROVE  Len(rows) \in Nat /\ DOMAIN rows = 1 .. Len(rows)
  BY DEF Listed

\* What a device printed is found again in it, whatever is compared.
LEMMA FoundAgain ==
    ASSUME NEW rows, Listed(rows), ~Ambiguous(rows)
    PROVE  /\ Found(rows, rows, StaysEnabled)
           /\ Found(rows, rows, StaysUp)
           /\ Found(rows, rows, VLANKept)
           /\ Found(rows, rows, WirelessKept)
           /\ (\A i \in DOMAIN rows : rows[i].state \in Allow) =>
                Found(rows, rows, NeighborKept)
  <1>1. ASSUME NEW i \in DOMAIN rows
        PROVE  \E j \in DOMAIN rows : rows[j] = rows[i] /\ LastOfKey(rows, j)
    BY ListedLength, LastRow
  <1>2. Found(rows, rows, StaysEnabled)
    BY <1>1 DEF Found, HasRow, StaysEnabled
  <1>3. Found(rows, rows, StaysUp)
    BY <1>1 DEF Found, HasRow, StaysUp
  <1>4. Found(rows, rows, VLANKept)
    BY <1>1 DEF Found, HasRow, VLANKept
  <1>5. Found(rows, rows, WirelessKept)
    BY <1>1 DEF Found, HasRow, WirelessKept, StaysEnabled, SettingKept
  <1>6. (\A i \in DOMAIN rows : rows[i].state \in Allow) => Found(rows, rows, NeighborKept)
    BY <1>1 DEF Found, HasRow, NeighborKept
  <1> QED
    BY <1>2, <1>3, <1>4, <1>5, <1>6

LEMMA PortsFoundAgain ==
    ASSUME NEW rows, Listed(rows), ~Ambiguous(Named(rows))
    PROVE  PortsKept(Named(rows), Named(rows))
  <1>1. Len(rows) \in Nat /\ DOMAIN Named(rows) = 1 .. Len(rows)
    BY ListedLength DEF Named
  <1>2. ASSUME NEW i \in DOMAIN Named(rows)
        PROVE  \E j \in DOMAIN Named(rows) :
                  Named(rows)[j] = Named(rows)[i] /\ LastOfKey(Named(rows), j)
    BY <1>1, LastRow
  <1> QED
    BY <1>2 DEF PortsKept, HasRow, StaysEnabled

\* What a baseline that can be satisfied asks for, the device it was read from has.
LEMMA KeptByItself ==
    ASSUME NEW b \in Facts(role), role \in Role, ~Uncheckable(b)
    PROVE  Kept(role, b, b)
  <1>1. CASE role = "ospf"
    <2>1. Found(b.neighbors, b.neighbors, NeighborKept)
      BY <1>1, RowsAssumption, FoundAgain DEF Uncheckable
    <2>2. FewExtra(b.prefixes, b.prefixes)
      <3>1. b.prefixes \ b.prefixes = {}
        OBVIOUS
      <3> QED
        BY <3>1, FS_EmptySet DEF FewExtra
    <2> QED
      BY <1>1, <2>1, <2>2 DEF Kept, OSPFKept
  <1>2. CASE role = "pppoe"
    <2>1. /\ Found(b.servers, b.servers, StaysEnabled)
          /\ Found(b.radius, b.radius, StaysEnabled)
      BY <1>2, RowsAssumption, FoundAgain DEF Uncheckable
    <2> QED
      BY <1>2, <2>1 DEF Kept, ServersKept, SessionsOK, SettingKept
  <1>3. CASE role = "radio"
    <2>1. Found(b.interfaces, b.interfaces, WirelessKept)
      BY <1>3, RowsAssumption, FoundAgain DEF Uncheckable
    <2> QED
      BY <1>3, <2>1 DEF Kept, RadioKept
  <1>4. CASE role \in {"switch", "access"}
    <2>1. Found(b.bridges, b.bridges, StaysUp) /\ Found(b.vlans, b.vlans, VLANKept)
      BY <1>4, RowsAssumption, FoundAgain DEF Uncheckable
    <2>2. PortsKept(Named(b.ports), Named(b.ports))
      BY <1>4, RowsAssumption, PortsFoundAgain DEF Uncheckable
    <2> QED
      BY <1>4, <2>1, <2>2 DEF Kept, SwitchKept, AccessKept
  <1>5. CASE role \notin {"ospf", "pppoe", "radio", "switch", "access"}
    BY <1>5 DEF Kept
  <1> QED
    BY <1>1, <1>2, <1>3, <1>4, <1>5

LEMMA UnchangedKept ==
    ASSUME Inv, UnchangedPasses, [Next]_vars
    PROVE  UnchangedPasses'
  <1> SUFFICES ASSUME pc' = "report", verdict' = "red", now' = base'
               PROVE  Uncheckable(base)'
    BY DEF UnchangedPasses
  <1>1. CASE UNCHANGED checkVars
    BY <1>1 DEF checkVars, UnchangedPasses, Uncheckable
  <1>2. CASE SharedFails
    BY <1>2 DEF SharedFails, Inv, CheckTypeOK
  <1>3. CASE RoleCheck
    <2>1. base' = base /\ role' = role
      BY <1>3 DEF RoleCheck
    <2>2. PICK f \in Facts(role) :
            /\ now' = f
            /\ IF MayRestore(f)
               THEN pc' = "restore"
               ELSE verdict' = IF Kept(role, base, f) THEN "green" ELSE "red"
      BY <1>3 DEF RoleCheck, Says
    <2>3. ~Kept(role, base, base)
      BY <2>1, <2>2
    <2>4. Uncheckable(base)
      BY <2>3, KeptByItself DEF Inv, CheckTypeOK
    <2> QED
      BY <2>1, <2>4 DEF Uncheckable
  <1>4. CASE RestoreOver
    <2>1. \E f \in Facts(role) :
            now' = f /\ verdict' = IF SessionsOK(base, f) THEN "green" ELSE "red"
      BY <1>4 DEF RestoreOver
    <2>2. base' = base
      BY <1>4 DEF RestoreOver
    <2> QED
      BY <2>1, <2>2 DEF SessionsOK
  <1>5. CASE Check /\ ~SharedFails /\ ~RoleCheck /\ ~RestoreOver
    BY <1>5 DEF Check, BadProfile, SkipStage, BeginWait, TickWait, EndWait, Track, Report,
       Done, Says, Continue
  <1> QED
    BY <1>1, <1>2, <1>3, <1>4, <1>5 DEF Next, vars, checkVars

LEMMA Invariance == Spec => []Inv
  <1>1. Init => Inv
    BY Initially
  <1> QED
    BY <1>1, NextKept, PTL DEF Spec

(***************************************************************************)
(* Theorems.                                                               *)
(***************************************************************************)

\* Caller, printer and check keep their types (TypeOK).
THEOREM TypeCorrect == Spec => []TypeOK
  <1>1. Inv => TypeOK
    BY DEF Inv, PrinterInv, CheckTypeOK, TypeOK
  <1> QED
    BY <1>1, Invariance, PTL

\* A device that passes release after release, each time against the one
\* before, still does at the end all it did at first, for a profile that allows
\* no adjacency that is not up (NoDrift).
THEOREM PassingNeverDrifts ==
    ASSUME Allow \subseteq {"full", "2way"}
    PROVE  Spec => []NoDrift
  <1>1. Init => Inv /\ NoDrift
    BY Initially
  <1>2. Inv /\ NoDrift /\ [Next]_vars => (Inv /\ NoDrift)'
    BY NextKept, DriftKept
  <1> QED
    BY <1>1, <1>2, PTL DEF Spec

\* A device that shows exactly what its baseline says is never failed for it,
\* unless rows of the baseline share a key and differ, or an adjacency in it has
\* a state the profile does not allow: the comparison of every role is reflexive
\* but for that (UnchangedPasses).
THEOREM UnchangedNeverFails == Spec => []UnchangedPasses
  <1>1. Init => UnchangedPasses
    BY DEF Init, UnchangedPasses
  <1>2. Inv /\ UnchangedPasses /\ [Next]_vars => UnchangedPasses'
    BY UnchangedKept
  <1> QED
    BY <1>1, <1>2, Invariance, PTL DEF Spec

\* The line a check leaves behind says what the check returned, whatever the
\* spinner and the updates have drawn (ShowsVerdict).
THEOREM LastLineTrue == Spec => []ShowsVerdict
  <1>1. Inv => ShowsVerdict
    BY DEF Inv, PrinterInv, Shows
  <1> QED
    BY <1>1, Invariance, PTL

\* Between checks no spinner runs and the mutex is free (Quiet).
THEOREM NothingLeftRunning == Spec => []Quiet
  <1>1. Inv => Quiet
    <2> SUFFICES ASSUME Inv, Silent, pc = "idle"
                 PROVE  mu = Nil /\ \A ch \in Channel : spinner[ch] = "gone"
      BY DEF Quiet
    <2>1. stop = Nil /\ Gone
      BY DEF Inv, PrinterInv, Shows, Spinners, Silent
    <2>2. mu \notin Channel /\ mu # "caller"
      BY <2>1 DEF Inv, PrinterInv, Spinners, Gone, Silent
    <2> QED
      BY <2>1, <2>2 DEF Inv, PrinterInv, PrinterTypeOK, Gone
  <1> QED
    BY <1>1, Invariance, PTL
=============================================================================
