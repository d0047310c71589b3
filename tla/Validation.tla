----------------------------- MODULE Validation -----------------------------
(***************************************************************************)
(* The validation of a device (validate.Check), release after release: the *)
(* wait for the role, the shared checks, the role check, with the progress *)
(* lines it shows on the way.  The role facts of a green device are the    *)
(* baseline of its next upgrade; a red one is checked again against the    *)
(* old baseline.                                                           *)
(*                                                                         *)
(* The environment: whatever the device prints is a member of Facts(role); *)
(* between a green check and the baseline of the next upgrade it does not  *)
(* change.  The shared checks are those of UpgradeJob: here they only      *)
(* pass or fail.                                                           *)
(***************************************************************************)
EXTENDS RoleChecks, Printer

CONSTANTS
    Role,
    Facts(_),       \* what a device of a role may print
    RestoreWait     \* the profile has a session_restore_timeout

\* The column printed after a name is no name of that kind of row.
KindsApart(rows, others) ==
    \A i \in DOMAIN rows, j \in DOMAIN others : rows[i].name # others[j].kind

ASSUME ValidationAssumption ==
    /\ {"waiting", "left", "checking", "sessions", "skipped"} \subseteq Label
    /\ \A r \in Role : \A f, g \in Facts(r) :
          /\ f # Nil
          /\ r = "pppoe" => KindsApart(f.sessions, g.sessions)
          /\ r \in {"switch", "access"} => KindsApart(f.ports, g.ports)

\* The rows of a print are a list.
Listed(rows) == rows \in Seq({rows[i] : i \in DOMAIN rows})

ASSUME RowsAssumption ==
    \A r \in Role : \A f \in Facts(r) :
        /\ r = "ospf" => Listed(f.neighbors)
        /\ r = "pppoe" => Listed(f.servers) /\ Listed(f.radius)
        /\ r = "radio" => Listed(f.interfaces)
        /\ r \in {"switch", "access"} => Listed(f.bridges) /\ Listed(f.vlans) /\ Listed(f.ports)

VARIABLES
    role,
    first,      \* the baseline of the first upgrade
    base,       \* the baseline of this one
    now,        \* what the last read of the role facts returned, or Nil
    verdict,    \* of this check: "none", "green" or "red"
    waited,     \* some device was green only after the wait for sessions
    pc

checkVars == <<role, first, base, now, verdict, waited, pc>>
vars == <<role, first, base, now, verdict, waited, pc, printerVars>>

TypeOK ==
    /\ PrinterTypeOK
    /\ role \in Role
    /\ first \in Facts(role) /\ base \in Facts(role)
    /\ now \in Facts(role) \cup {Nil}
    /\ verdict \in {"none", "green", "red"}
    /\ waited \in BOOLEAN
    /\ pc \in {"idle", "waiting", "tracking", "check", "restore", "report", "done"}

\* The caller is at a step and no call of the printer is in progress.
Ready(step) == Silent /\ pc = step

PrinterIdle ==
    UNCHANGED <<tty, mu, stop, closed, spinner, label, planned, line, printed>>

\* A method of the printer is called, and the caller goes on after it.
Says(op, arg, next) == Invoke(op, arg) /\ pc' = next /\ PrinterIdle

Continue(next) == pc' = next /\ UNCHANGED printerVars

\* LoadProfile fails before anything is shown.
BadProfile ==
    /\ Ready("idle")
    /\ verdict' = "red"
    /\ Continue("idle")
    /\ UNCHANGED <<role, first, base, now, waited>>

\* Between two checks a stage of an upgrade is skipped.
SkipStage ==
    /\ Ready("idle")
    /\ Says("skip", "skipped", "idle")
    /\ UNCHANGED <<role, first, base, now, verdict, waited>>

BeginWait ==
    /\ Ready("idle")
    /\ verdict' = "none"
    /\ Says("start", "waiting", "waiting")
    /\ UNCHANGED <<role, first, base, now, waited>>

\* Each second of the wait, on a terminal only.
TickWait ==
    /\ Ready("waiting") /\ tty
    /\ Says("update", "left", "waiting")
    /\ UNCHANGED <<role, first, base, now, verdict, waited>>

EndWait ==
    /\ Ready("waiting")
    /\ Says("finish", "*", "tracking")
    /\ UNCHANGED <<role, first, base, now, verdict, waited>>

Track ==
    /\ Ready("tracking")
    /\ Says("start", "checking", "check")
    /\ UNCHANGED <<role, first, base, now, verdict, waited>>

\* Unreachable, or a shared check or a read of the role facts fails.
SharedFails ==
    /\ Ready("check") \/ Ready("restore")
    /\ verdict' = "red"
    /\ now' = Nil
    /\ Continue("report")
    /\ UNCHANGED <<role, first, base, waited>>

\* Only the sessions keep a PPPoE server from passing.
MayRestore(f) ==
    role = "pppoe" /\ RestoreWait /\ ServersKept(base, f) /\ ~SessionsOK(base, f)

RoleCheck ==
    /\ Ready("check")
    /\ \E f \in Facts(role) :
        /\ now' = f
        /\ IF MayRestore(f)
           THEN Says("update", "sessions", "restore") /\ UNCHANGED verdict
           ELSE /\ verdict' = IF Kept(role, base, f) THEN "green" ELSE "red"
                /\ Continue("report")
    /\ UNCHANGED <<role, first, base, waited>>

\* After the wait everything is read again, and only the sessions compared.
RestoreOver ==
    /\ Ready("restore")
    /\ \E f \in Facts(role) :
        /\ now' = f
        /\ verdict' = IF SessionsOK(base, f) THEN "green" ELSE "red"
        /\ waited' = (waited \/ SessionsOK(base, f))
    /\ Continue("report")
    /\ UNCHANGED <<role, first, base>>

\* Mutant: what a device showed becomes its baseline although it failed.
AlsoOfRed == {base, now}

\* The next upgrade saves what a green device shows as its baseline, or the
\* same release is validated once more.
NextBase == IF verdict = "green" THEN {base, now} ELSE {base}

Report ==
    /\ Ready("report")
    /\ Says("finish", IF verdict = "green" THEN "*" ELSE "x", "done")
    /\ base' \in NextBase
    /\ now' = Nil
    /\ UNCHANGED <<role, first, verdict, waited>>

Done ==
    /\ Ready("done")
    /\ Continue("idle")
    /\ UNCHANGED <<role, first, base, now, verdict, waited>>

Check ==
    \/ BadProfile \/ SkipStage \/ BeginWait \/ TickWait \/ EndWait \/ Track
    \/ SharedFails \/ RoleCheck \/ RestoreOver \/ Report \/ Done

Init ==
    /\ PrinterInit
    /\ role \in Role
    /\ first \in Facts(role) /\ base = first
    /\ now = Nil /\ verdict = "none" /\ waited = FALSE /\ pc = "idle"

Next ==
    \/ Check
    \/ CallStep /\ UNCHANGED checkVars
    \/ \E ch \in Channel : Spin(ch) /\ UNCHANGED checkVars

Spec == Init /\ [][Next]_vars

(***************************************************************************)
(* Fairness.  Every goroutine that can run does; Go's mutex is not starved *)
(* for ever, and a select whose two cases are ready picks one at random.   *)
(***************************************************************************)
FairSpec ==
    /\ Spec
    /\ SF_vars(CallStep /\ UNCHANGED checkVars)
    /\ \A ch \in Channel :
        /\ SF_vars(SpinLock(ch) /\ UNCHANGED checkVars)
        /\ WF_vars(Draw(ch) /\ UNCHANGED checkVars)
        /\ SF_vars(End(ch) /\ UNCHANGED checkVars)

(***************************************************************************)
(* What a role is there for, of what a device shows.                       *)
(***************************************************************************)

KeysOf(rows, Holds(_)) == {rows[i].key : i \in {j \in DOMAIN rows : Holds(rows[j])}}

Enabled(r) == ~r.disabled
IsFull(r) == r.state = "full"
IsUp(r) == r.state \in {"full", "2way"}
Runs(r) == ~r.disabled /\ r.running
OnAir(r) == r.running

\* Ports, addresses and sessions, but for those whose name looks like flags.
Names(rows) == {rows[i].name : i \in DOMAIN rows} \ FlagLike
EnabledNames(rows) ==
    {rows[i].name : i \in {j \in DOMAIN rows : "X" \notin rows[j].flags}} \ FlagLike

VLAN(r) == <<r.key, r.tagged, r.untagged>>

L2Service(f, routes, addresses) ==
    [bridges |-> KeysOf(f.bridges, Enabled), running |-> KeysOf(f.bridges, Runs),
     vlans |-> {VLAN(f.vlans[i]) : i \in DOMAIN f.vlans},
     ports |-> EnabledNames(f.ports),
     routes |-> routes, addresses |-> addresses]

Settings(r) ==
    {<<r.key, "ssid", r.ssid>>, <<r.key, "frequency", r.frequency>>,
     <<r.key, "channel", r.channel>>}

Set(settings) == {t \in settings : t[3] # ""}

\* By name, the sets that must not get smaller.
Service(f) ==
    CASE role = "ospf" ->
            [full |-> KeysOf(f.neighbors, IsFull), up |-> KeysOf(f.neighbors, IsUp),
             routes |-> f.prefixes]
      [] role = "pppoe" /\ waited -> [sessions |-> Names(f.sessions)]
      [] role = "pppoe" /\ ~waited ->
            [sessions |-> Names(f.sessions),
             servers |-> KeysOf(f.servers, Enabled), radius |-> KeysOf(f.radius, Enabled),
             aaa |-> Set({<<"aaa", "use-radius", f.useRadius>>, <<"aaa", "accounting", f.accounting>>})]
      [] role = "radio" ->
            [enabled |-> KeysOf(f.interfaces, Enabled), running |-> KeysOf(f.interfaces, OnAir),
             tuned |-> Set(UNION {Settings(f.interfaces[i]) : i \in DOMAIN f.interfaces}),
             peers |-> f.peers]
      [] role = "switch" -> L2Service(f, {}, {})
      [] role = "access" -> L2Service(f, f.prefixes, EnabledNames(f.addresses))
      [] OTHER -> [nothing |-> {}]

(***************************************************************************)
(* Properties.                                                             *)
(***************************************************************************)

\* NoDrift: however many releases a device goes through, each compared only
\* with the one before it, at the end everything is up that was up at first.
\* For a PPPoE server that once passed after the wait for its sessions only the
\* sessions are promised: the wait reads the servers again and ignores them.
NoDrift ==
    \A what \in DOMAIN Service(first) : Service(first)[what] \subseteq Service(base)[what]

\* Two rows with one key that differ, or an adjacency that is not up.
Ambiguous(rows) ==
    \E i, j \in DOMAIN rows : rows[i].key = rows[j].key /\ rows[i] # rows[j]

Uncheckable(f) ==
    CASE role = "ospf" ->
            Ambiguous(f.neighbors) \/ \E i \in DOMAIN f.neighbors : f.neighbors[i].state \notin Allow
      [] role = "pppoe" -> Ambiguous(f.servers) \/ Ambiguous(f.radius)
      [] role = "radio" -> Ambiguous(f.interfaces)
      [] role \in {"switch", "access"} ->
            Ambiguous(f.bridges) \/ Ambiguous(f.vlans) \/ Ambiguous(Named(f.ports))
      [] OTHER -> FALSE

\* UnchangedPasses: a device that shows exactly what its baseline says is not
\* rolled back for it, unless the baseline is one no device can satisfy: rows
\* that share a key and differ, or an adjacency the profile does not allow.
UnchangedPasses ==
    (pc = "report" /\ verdict = "red" /\ now = base) => Uncheckable(base)

\* ShowsVerdict: the last line of a check says what the check returns, under
\* the label it was started with, whatever the line said in between, and no
\* half-drawn line is left behind it.
ShowsVerdict ==
    (Silent /\ pc = "done") =>
        /\ printed = <<IF verdict = "green" THEN "*" ELSE "x", "checking">>
        /\ line = Nil

\* Quiet: between two checks no spinner is left that could draw over the
\* output of somebody else, and nobody holds the mutex.
Quiet ==
    (Silent /\ pc = "idle") => mu = Nil /\ \A ch \in Channel : spinner[ch] = "gone"

\* CallsReturn: the caller and the spinner never wait for each other: every
\* call of the printer returns.
CallsReturn == ~Silent ~> Silent
=============================================================================
