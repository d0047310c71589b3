--------------------------- MODULE OpsRepository ---------------------------
(***************************************************************************)
(* The ops repository: the checkout on the controller, its remote, the     *)
(* commits of audit records and backups (internal/opsgit/commit.go, called *)
(* by internal/auditgit and internal/backupgit) and rosup pull             *)
(* (internal/opsgit/opsgit.go).  git itself is external.                   *)
(*                                                                         *)
(* A history is the sequence of the trees of its commits; a tree says      *)
(* which version of each path it has, 0 for none.  A record is what one    *)
(* call of Commit is given: the audit record of a job, or the exports of a *)
(* backup run.  It has two paths here, added one after the other.  The     *)
(* worktree is left out: what is committed is the index, and every path    *)
(* added to it has been written just before.                               *)
(***************************************************************************)
EXTENDS Naturals, SequencesExt

CONSTANTS
    Record,         \* the records that commands want to push
    Audit,          \* those of jobs; the others are of backup runs
    MaxVersion,     \* bound: versions of a record
    MaxEdits,       \* bound: edits of the inventory by others
    MaxFaults       \* bound: lost answers, failed calls and crashes

ASSUME OpsAssumption ==
    /\ Audit \subseteq Record
    /\ MaxVersion \in Nat \ {0} /\ MaxEdits \in Nat /\ MaxFaults \in Nat

Part == {"first", "second"}
Inventory == <<"inventory">>
Path == (Record \X Part) \cup {Inventory}

VARIABLES
    remote,     \* the history of the branch on the remote
    local,      \* the history of the branch in the checkout
    index,      \* the tree staged in the checkout
    version,    \* the newest content of each record
    edits,      \* the edits of the inventory so far
    faults,     \* the faults so far
    pending,    \* the jobs that are not complete: no push has succeeded
    exports,    \* the jobs whose export is in the backup directory
    pushed,     \* history: the newest version Commit returned success for
    pc,         \* where Commit is
    items,      \* the records it commits: one, or none when idle
    todo        \* the paths of it that are not added yet

git == <<remote, local, index>>
callers == <<version, pending, exports, pushed>>
command == <<pc, items, todo>>
vars == <<git, edits, faults, callers, command>>

Tree == [Path -> 0 .. (MaxVersion + MaxEdits)]

TypeOK ==
    /\ remote \in Seq(Tree) /\ local \in Seq(Tree) /\ index \in Tree
    /\ version \in [Record -> 0 .. MaxVersion]
    /\ edits \in 0 .. MaxEdits /\ faults \in 0 .. MaxFaults
    /\ pending \subseteq Audit /\ exports \subseteq Audit
    /\ pushed \in [Record -> 0 .. MaxVersion]
    /\ pc \in {"idle", "pull", "reset", "add", "commit", "push"}
    /\ items \in {{}} \cup {{r} : r \in Record}
    /\ todo \subseteq items \X Part
    /\ pc \in {"commit", "push"} => todo = {}

PathsOf(R) == R \X Part

Idle == pc' = "idle" /\ items' = {} /\ todo' = {}

(***************************************************************************)
(* opsgit.Commit.                                                          *)
(***************************************************************************)

Begin(r) ==
    /\ pc = "idle"
    /\ pc' = "pull"
    /\ items' = {r}
    /\ todo' = PathsOf({r})
    /\ \E v \in {version[r], version[r] + 1} \cap (1 .. MaxVersion) :
          version' = [version EXCEPT ![r] = v]
    /\ UNCHANGED <<git, edits, faults, pushed>>

\* An upgrade, which has just exported the device, has the record of a job to
\* push.
NewRecord(r) ==
    /\ r \in Audit \ pending
    /\ Begin(r)
    /\ pending' = pending \cup {r}
    /\ exports' = exports \cup {r}

\* As long as the push does not succeed the job is not complete: resumed, it
\* pushes the record as it was or a newer one.  The export in it is read back
\* from the backup directory, and without it the job fails again.
RetryRecord(r) ==
    /\ r \in pending \cap exports
    /\ Begin(r)
    /\ UNCHANGED <<pending, exports>>

\* A backup run pushes what it has exported once, after it has pruned older
\* exports of the same devices, those of jobs included.
BackupRun(r) ==
    /\ r \notin Audit /\ version[r] = 0
    /\ Begin(r)
    /\ exports' \in SUBSET exports
    /\ UNCHANGED pending

StartCommit(r) == NewRecord(r) \/ RetryRecord(r) \/ BackupRun(r)

\* The fast-forward pull: a checkout that is up to date, or ahead,
\* stays as it is.
Pull ==
    /\ pc = "pull"
    /\ \/ IsStrictPrefix(local, remote) /\ local' = remote /\ index' = Last(remote)
       \/ IsPrefix(remote, local) /\ UNCHANGED <<local, index>>
    /\ pc' = "reset"
    /\ UNCHANGED <<remote, edits, faults, callers, items, todo>>

\* Mutant: what is staged stays staged.
ResetNothing == UNCHANGED index

ResetIndex == index' = Last(local)

\* Nothing that was staged before may get into the commit.
Reset ==
    /\ pc = "reset"
    /\ ResetIndex
    /\ pc' = "add"
    /\ UNCHANGED <<remote, local, edits, faults, callers, items, todo>>

\* Mutant: one path of each record is enough.
AllAddedButOne(p) == \A q \in todo \ {p} : q[1] = p[1]

AllAdded(p) == todo = {p}

\* Items are written and added in the order they are given.
Add(p) ==
    /\ pc = "add"
    /\ p \in todo
    /\ p[2] = "second" => <<p[1], "first">> \notin todo
    /\ index' = [index EXCEPT ![p] = version[p[1]]]
    /\ todo' = todo \ {p}
    /\ pc' = IF AllAdded(p) THEN "commit" ELSE "add"
    /\ UNCHANGED <<remote, local, edits, faults, callers, items>>

\* An empty commit is not made, and is no error.
Commit ==
    /\ pc = "commit"
    /\ local' = IF index = Last(local) THEN local ELSE Append(local, index)
    /\ pc' = "push"
    /\ UNCHANGED <<remote, index, edits, faults, callers, items, todo>>

Succeed ==
    /\ Idle
    /\ pending' = pending \ items
    /\ pushed' = [r \in Record |-> IF r \in items THEN version[r] ELSE pushed[r]]
    /\ UNCHANGED <<version, exports>>

\* Mutant: a rejected push is taken for "already up to date".
PushedOrRejected == IF IsPrefix(remote, local) THEN remote' = local ELSE UNCHANGED remote

\* The remote takes fast-forwards only.
Pushed == IsPrefix(remote, local) /\ remote' = local

Push ==
    /\ pc = "push"
    /\ Pushed
    /\ Succeed
    /\ UNCHANGED <<local, index, edits, faults>>

\* The checkout and the remote have diverged: the pull, or the push, fails, and
\* what was committed stays in the checkout.
Diverged ==
    /\ \/ pc = "pull" /\ ~IsPrefix(local, remote) /\ ~IsPrefix(remote, local)
       \/ pc = "push" /\ ~IsPrefix(remote, local)
    /\ Idle
    /\ UNCHANGED <<git, edits, faults, callers>>

NextFault == faults < MaxFaults /\ faults' = faults + 1

\* The push went through and the answer was lost.
PushUnconfirmed ==
    /\ pc = "push"
    /\ IsPrefix(remote, local) /\ remote' = local
    /\ NextFault
    /\ Idle
    /\ UNCHANGED <<local, index, edits, callers>>

\* Any other call fails, or the process dies between two of them.
Abort ==
    /\ pc # "idle"
    /\ NextFault
    /\ Idle
    /\ UNCHANGED <<git, edits, callers>>

(***************************************************************************)
(* rosup pull, and the others.                                             *)
(***************************************************************************)

\* Mutant: a checkout that has commits of its own is left alone.
ForcedFastForward == local' = IF IsPrefix(local, remote) THEN remote ELSE local

\* The remote always wins.
Forced == local' = remote

ForcePull ==
    /\ pc = "idle"
    /\ Forced
    /\ index' = Last(local')
    /\ UNCHANGED <<remote, edits, faults, callers, command>>

NextEdit == edits < MaxEdits /\ edits' = edits + 1

\* Somebody pushes an inventory from another clone.
OthersPush ==
    /\ NextEdit
    /\ remote' = Append(remote, [Last(remote) EXCEPT ![Inventory] = edits'])
    /\ UNCHANGED <<local, index, faults, callers, command>>

\* The operator stages an inventory in the checkout, or commits it there: the
\* inventory, and not what a command that was cut off left staged.
OperatorStages ==
    /\ pc = "idle"
    /\ NextEdit
    /\ index' = [index EXCEPT ![Inventory] = edits']
    /\ UNCHANGED <<remote, local, faults, callers, command>>

OperatorCommits ==
    /\ pc = "idle"
    /\ index # Last(local)
    /\ \A p \in PathsOf(Record) : index[p] = Last(local)[p]
    /\ local' = Append(local, index)
    /\ UNCHANGED <<remote, index, edits, faults, callers, command>>

\* What Commit does on its own.
CommitStep ==
    \/ Pull \/ Reset \/ Commit \/ Push \/ Diverged
    \/ \E p \in todo : Add(p)

Next ==
    \/ \E r \in Record : StartCommit(r)
    \/ CommitStep \/ PushUnconfirmed \/ Abort
    \/ ForcePull
    \/ OthersPush \/ OperatorStages \/ OperatorCommits

Init ==
    LET empty == [p \in Path |-> 0] IN
    /\ remote = <<empty>> /\ local = <<empty>> /\ index = empty
    /\ version = [r \in Record |-> 0]
    /\ edits = 0 /\ faults = 0
    /\ pending = {} /\ exports = {}
    /\ pushed = [r \in Record |-> 0]
    /\ pc = "idle" /\ items = {} /\ todo = {}

Spec == Init /\ [][Next]_vars

\* Commit goes on by itself.  A job that is not complete is resumed now and
\* then (upgrade --resume), and the operator pulls now and then.
RetrySpec ==
    /\ Spec
    /\ WF_vars(CommitStep)
    /\ \A r \in Audit : SF_vars(RetryRecord(r))
    /\ SF_vars(ForcePull)

(***************************************************************************)
(* Properties.                                                             *)
(***************************************************************************)

\* When Commit has returned success for a version of a record, the remote has
\* it or a newer one, whole, and nothing anyone does to the checkout takes it
\* away: crashes, lost answers, forced pulls, other writers.
PushedStays ==
    \A r \in Record : \A p \in Part :
        /\ Last(remote)[<<r, p>>] >= pushed[r]
        /\ pushed[r] # 0 => Last(remote)[<<r, p>>] # 0

\* No commit anybody can fetch has one file of a record without the other, or
\* files of two attempts, wherever earlier attempts were cut off.
WholeRecords ==
    \A i \in DOMAIN remote : \A r \in Record :
        remote[i][<<r, "first">>] = remote[i][<<r, "second">>]

\* A commit of rosup changes the paths of its items and nothing else, whatever
\* was staged in the checkout (the comment on the index reset in commit.go).
OwnPathsOnly ==
    [][Commit => \A p \in Path \ PathsOf(items) :
                    Last(local')[p] = Last(local)[p]]_vars

\* A push that failed, whatever the remote did meanwhile, does not keep a job
\* from completing for good: pulling and resuming gets its record pushed, as
\* long as no backup has pruned the export it needs.
Recovers == \A r \in Audit : r \in pending ~> (r \notin pending \/ r \notin exports)
=============================================================================
