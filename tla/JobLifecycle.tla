---------------------------- MODULE JobLifecycle ----------------------------
(***************************************************************************)
(* What the job file of one device promises to whoever reads it (status,   *)
(* rollup, depends_on, the next command), whatever happens to the process  *)
(* that writes it: the life of a job, and when the ops repository has its  *)
(* record.  No router, no stages, no process, no failures.                 *)
(***************************************************************************)
CONSTANTS Release, None

VARIABLES
    status,     \* "" (no file), "pending", "in_progress", "failed", "complete"
    release,    \* the release the job is for
    abandoned,  \* the release a guarded restore left behind
    recorded    \* the release whose record was pushed for this job

vars == <<status, release, abandoned, recorded>>

Incomplete == status \in {"in_progress", "failed"}

Init ==
    /\ status = ""
    /\ release = None
    /\ abandoned = None
    /\ recorded = None

\* Facts were discovered for a device that has no job.
Discover ==
    /\ status = ""
    /\ status' = "pending"
    /\ UNCHANGED <<release, abandoned, recorded>>

\* An upgrade takes up release v, or is blocked on its dependencies: an
\* incomplete job only for its own release, a complete one only for another.
TakeUp(v, outcome) ==
    /\ Incomplete => release \in {None, v}
    /\ status = "complete" => release # v
    /\ status' = outcome
    /\ release' = v
    /\ abandoned' = None

Begin(v) == TakeUp(v, "in_progress") /\ recorded' = None

Block(v) == TakeUp(v, "failed") /\ UNCHANGED recorded

\* A rollback replaces any job that is not in progress.
Rollback(v) ==
    /\ status # "in_progress"
    /\ ~(status = "complete" /\ release = v)
    /\ status' = "in_progress"
    /\ release' = v
    /\ abandoned' = None
    /\ recorded' = None

Fail ==
    /\ status = "in_progress"
    /\ status' = "failed"
    /\ UNCHANGED <<release, abandoned, recorded>>

\* The record of the job in progress is pushed.
Record ==
    /\ status = "in_progress"
    /\ recorded' = release
    /\ UNCHANGED <<status, release, abandoned>>

\* Only a recorded job becomes complete on its own release...
Finish ==
    /\ status = "in_progress"
    /\ recorded = release
    /\ status' = "complete"
    /\ UNCHANGED <<release, abandoned, recorded>>

\* ...or an unrecorded one on another release, naming what it gave up.
Restore(v) ==
    /\ status = "in_progress"
    /\ v # release
    /\ status' = "complete"
    /\ release' = v
    /\ abandoned' = release
    /\ UNCHANGED recorded

Next ==
    \/ Discover
    \/ Fail \/ Record \/ Finish
    \/ \E v \in Release : Begin(v) \/ Block(v) \/ Rollback(v) \/ Restore(v)

Spec == Init /\ [][Next]_vars
=============================================================================
