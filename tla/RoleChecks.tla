----------------------------- MODULE RoleChecks -----------------------------
(***************************************************************************)
(* What the role checks of internal/validate compare: the role facts of a  *)
(* baseline (want) with those read from the device (have).  Facts are rows *)
(* in the order the device prints them, and sets of prefixes and peers.    *)
(*                                                                         *)
(* Every check first makes a map of the rows of the device, so that of two *)
(* rows with one key the last one counts; then it looks up each row of the *)
(* baseline.  Ports and sessions are printed without "name=" and parsed by *)
(* the position of the name, which the flags before it shift.              *)
(***************************************************************************)
EXTENDS Integers, Sequences, FiniteSets

CONSTANTS
    Allow,          \* the profile's neighbor_state_allow
    Tolerance,      \* the profile's route_count_tolerance
    FlagLike,       \* the names of up to four capital letters and no other
    WithX           \* those with an X among them

ASSUME ProfileAssumption == Tolerance \in Nat /\ WithX \subseteq FlagLike

Keys(rows) == {rows[i].key : i \in DOMAIN rows}

\* A row that the map keeps.
LastOfKey(rows, j) == \A i \in DOMAIN rows : rows[i].key = rows[j].key => i <= j

\* parseNamedRows: a row without flags whose name looks like flags is read as
\* flags, and what is printed after the name as its name.
Named(rows) ==
    [i \in DOMAIN rows |->
        LET r == rows[i] IN
        IF r.flags = {} /\ r.name \in FlagLike
        THEN [key |-> r.kind, disabled |-> r.name \in WithX]
        ELSE [key |-> r.name, disabled |-> "X" \in r.flags]]

\* An address is found wherever it stands in its row.
Addresses(rows) ==
    {rows[i].name : i \in {j \in DOMAIN rows : "X" \notin rows[j].flags}}

\* The row with the key of w is there, and Same holds of the two.
HasRow(have, w, Same(_, _)) ==
    \E j \in DOMAIN have :
        have[j].key = w.key /\ LastOfKey(have, j) /\ Same(w, have[j])

Found(want, have, Same(_, _)) == \A i \in DOMAIN want : HasRow(have, want[i], Same)

StaysEnabled(w, h) == w.disabled \/ ~h.disabled

\* Mutant: a bridge must run although it did not before.
MustRun(w, h) == w.disabled \/ (~h.disabled /\ h.running)

\* A bridge that was disabled may be anything.
StaysUp(w, h) == w.disabled \/ (~h.disabled /\ (w.running => h.running))

\* A setting the baseline does not have is not compared.
SettingKept(w, h) == w = "" \/ h = w

(***************************************************************************)
(* The roles.                                                              *)
(***************************************************************************)

\* Mutant: an adjacency may drop as long as its state is allowed.
AnyAllowed(w, h) == h.state \in Allow

NeighborKept(w, h) == h.state \in Allow /\ ~(w.state = "full" /\ h.state = "2way")

FewExtra(want, have) == Cardinality(have \ want) <= Tolerance

OSPFKept(want, have) ==
    /\ Found(want.neighbors, have.neighbors, NeighborKept)
    /\ want.prefixes \subseteq have.prefixes
    /\ FewExtra(want.prefixes, have.prefixes)

\* checkPPPoEServer and checkPPPoEAAA.
ServersKept(want, have) ==
    /\ Found(want.servers, have.servers, StaysEnabled)
    /\ SettingKept(want.useRadius, have.useRadius)
    /\ SettingKept(want.accounting, have.accounting)
    /\ Found(want.radius, have.radius, StaysEnabled)

SessionsOK(want, have) == Keys(Named(want.sessions)) \subseteq Keys(Named(have.sessions))

WirelessKept(w, h) ==
    /\ StaysEnabled(w, h)
    /\ w.running => h.running
    /\ SettingKept(w.ssid, h.ssid)
    /\ SettingKept(w.frequency, h.frequency)
    /\ SettingKept(w.channel, h.channel)

RadioKept(want, have) ==
    /\ Found(want.interfaces, have.interfaces, WirelessKept)
    /\ want.peers \subseteq have.peers

VLANKept(w, h) == h.tagged = w.tagged /\ h.untagged = w.untagged

\* compareL2.  A port that was disabled is not looked up at all.
PortsKept(want, have) ==
    \A i \in DOMAIN want : want[i].disabled \/ HasRow(have, want[i], StaysEnabled)

SwitchKept(want, have) ==
    /\ Found(want.bridges, have.bridges, StaysUp)
    /\ Found(want.vlans, have.vlans, VLANKept)
    /\ PortsKept(Named(want.ports), Named(have.ports))

AccessKept(want, have) ==
    /\ SwitchKept(want, have)
    /\ want.prefixes \subseteq have.prefixes
    /\ Addresses(want.addresses) \subseteq Addresses(have.addresses)

\* RoleChecks.  A profile of another name has no check of its own.
Kept(role, want, have) ==
    CASE role = "ospf" -> OSPFKept(want, have)
      [] role = "pppoe" -> ServersKept(want, have) /\ SessionsOK(want, have)
      [] role = "radio" -> RadioKept(want, have)
      [] role = "switch" -> SwitchKept(want, have)
      [] role = "access" -> AccessKept(want, have)
      [] OTHER -> TRUE
=============================================================================
