------------------------------- MODULE Fleet -------------------------------
(***************************************************************************)
(* A controller host and its fleet: rosup upgrade over a selection of      *)
(* devices (Run in internal/upgrade/machine.go, rollup.go), rosup rollback *)
(* and rosup plan (internal/plan), over the job files of all devices.      *)
(*                                                                         *)
(* One device is what JobLifecycle allows, which module Rosup implements:  *)
(* its job starts, is recorded, and ends complete, failed, restored or     *)
(* unfinished.  Position is the sort key (group, order, name) of the       *)
(* inventory; Batches are the selections a run without a device name can   *)
(* make: the groups and the whole fleet.                                   *)
(***************************************************************************)
EXTENDS Naturals, FiniteSets

CONSTANTS
    Device, Release, None,
    Position,       \* the place of a device in the inventory
    DependsOn,      \* the depends_on list of a device
    Batches,        \* the groups, and the whole fleet
    Commands,       \* the commands the operator uses
    Targets,        \* the releases the operator asks for
    FoundOn         \* the releases devices may run before rosup manages them

\* What inventory.validate accepts, sorted by sortDevices: names are unique and
\* known, no device depends on itself, and there are no cycles.
ValidInventory ==
    /\ Position \in [Device -> Nat]
    /\ \A d, e \in Device : Position[d] = Position[e] => d = e
    /\ DependsOn \in [Device -> SUBSET Device]
    /\ \A S \in SUBSET Device : S # {} => \E d \in S : DependsOn[d] \cap S = {}

ASSUME FleetAssumption ==
    /\ ValidInventory
    /\ None \notin Release
    /\ Batches \subseteq (SUBSET Device) \ {{}}
    /\ Commands \subseteq {"upgrade", "rollback", "discover", "plan"}
    /\ Targets \subseteq Release
    /\ FoundOn \subseteq Release

VARIABLES
    jobs,       \* the job file of each device; a status of "" is no file
    recorded,   \* history: the release whose record was pushed for the job
    live,       \* the release a device runs; None: some packages of two
    pc,         \* "idle", "turn" (loop over devices), "device", "rollup"
    run,        \* the command that runs
    promise     \* the last command, if it was a plan that found no obstacle

files == <<jobs, recorded>>
vars == <<files, live, pc, run, promise>>

\* Only a job that was started or blocked names its release; only a complete one
\* names a release it gave up.
Job == {j \in [status : {"", "pending", "in_progress", "failed", "complete"},
               release : Release \cup {None},
               abandoned : Release \cup {None}] :
          /\ j.status \in {"in_progress", "failed", "complete"} <=> j.release # None
          /\ j.abandoned # None => j.status = "complete"}

NoJob == [status |-> "", release |-> None, abandoned |-> None]

Run == [command : {"none", "upgrade", "rollback"},
        version : Release \cup {None},
        selected : SUBSET Device,
        named : BOOLEAN,
        resume : BOOLEAN,
        todo : SUBSET Device,       \* those whose turn has not come
        restored : SUBSET Device,   \* history: left on the previous release
        failed : BOOLEAN]

NoRun == [command |-> "none", version |-> None, selected |-> {}, named |-> FALSE,
          resume |-> FALSE, todo |-> {}, restored |-> {}, failed |-> FALSE]

Promise == [version : Release, selected : SUBSET Device]

TypeOK ==
    /\ jobs \in [Device -> Job]
    /\ recorded \in [Device -> Release \cup {None}]
    /\ live \in [Device -> Release \cup {None}]
    /\ pc \in {"idle", "turn", "device", "rollup"}
    /\ run \in Run
    /\ promise \in Promise \cup {None}

CompleteOn(d, v) == jobs[d].status = "complete" /\ jobs[d].release = v

Incomplete(d) == jobs[d].status \in {"in_progress", "failed"}

\* The device whose turn it is: the loop follows the inventory order.
Turn(d) == d \in run.todo /\ \A e \in run.todo : Position[d] <= Position[e]

Stop == pc' = "idle" /\ run' = NoRun

\* The loop goes on to the next device; with none left, to the rollup.
AfterVisit(d) == IF run.todo = {d} THEN "rollup" ELSE "turn"

Visited(d) == run' = [run EXCEPT !.todo = @ \ {d}] /\ pc' = AfterVisit(d)

\* runDevice returned an error: the loop is left.
Break == pc' = "rollup" /\ run' = [run EXCEPT !.failed = TRUE]

SetJob(d, j) == jobs' = [jobs EXCEPT ![d] = j]

\* Save returned an error, possibly after it had replaced the file.
SetJobOrNot(d, j) == SetJob(d, j) \/ UNCHANGED jobs

(***************************************************************************)
(* rosup upgrade: one device after the other.                              *)
(***************************************************************************)
StartUpgrade(v, selected, named, resume) ==
    /\ pc = "idle"
    /\ pc' = "turn"
    /\ run' = [NoRun EXCEPT !.command = "upgrade", !.version = v,
                  !.selected = selected, !.todo = selected,
                  !.named = named, !.resume = resume]
    /\ promise' = IF promise = [version |-> v, selected |-> selected]
                  THEN promise ELSE None
    /\ UNCHANGED <<files, live>>

\* Mutant: a restored host is skipped by name, too.
SkippedAlways(d) ==
    \/ CompleteOn(d, run.version)
    \/ jobs[d].status = "complete" /\ jobs[d].abandoned = run.version

\* The job is complete on the release, or a batch meets a restored host.
Skipped(d) ==
    \/ CompleteOn(d, run.version)
    \/ /\ jobs[d].status = "complete"
       /\ jobs[d].abandoned = run.version
       /\ ~run.named

Skip(d) ==
    /\ pc = "turn" /\ Turn(d)
    /\ Skipped(d)
    /\ Visited(d)
    /\ UNCHANGED <<files, live, promise>>

\* Mutant: an incomplete job may be resumed for any release.
AnotherJobIgnored(d) == Incomplete(d) /\ ~run.resume

\* An incomplete job is for another release, or is not to be resumed.
AnotherJob(d) ==
    Incomplete(d) /\ (jobs[d].release \notin {None, run.version} \/ ~run.resume)

Refuse(d) ==
    /\ pc = "turn" /\ Turn(d)
    /\ AnotherJob(d)
    /\ Break
    /\ UNCHANGED <<files, live, promise>>

\* Mutant: any complete job of a dependency will do.
DependsMetOnAnyRelease(d, v) ==
    \A e \in DependsOn[d] : jobs[e].status = "complete"

\* checkDepends.
DependsMet(d, v) == \A e \in DependsOn[d] : CompleteOn(e, v)

MayStart(d) == ~Skipped(d) /\ ~AnotherJob(d)

\* Mutant: the blocked job does not get the release of the run.
BlockedUnderOldRelease(d) ==
    [status |-> "failed", abandoned |-> None,
     release |-> IF Incomplete(d) THEN jobs[d].release ELSE None]

\* What markFailed saves for a device that was blocked.
Blocked(d) == [status |-> "failed", release |-> run.version, abandoned |-> None]

Block(d) ==
    /\ pc = "turn" /\ Turn(d)
    /\ MayStart(d)
    /\ ~DependsMet(d, run.version)
    /\ SetJobOrNot(d, Blocked(d))
    /\ Break
    /\ UNCHANGED <<recorded, live, promise>>

InProgress == [status |-> "in_progress", release |-> run.version, abandoned |-> None]

Begin(d) ==
    /\ pc = "turn" /\ Turn(d)
    /\ MayStart(d)
    /\ DependsMet(d, run.version)
    /\ SetJob(d, InProgress)
    /\ recorded' = [recorded EXCEPT ![d] = None]
    /\ pc' = "device"
    /\ UNCHANGED <<live, run, promise>>

\* MarkStarted could not save the job.
BeginFails(d) ==
    /\ pc = "turn" /\ Turn(d)
    /\ MayStart(d)
    /\ DependsMet(d, run.version)
    /\ \/ UNCHANGED <<jobs, recorded>>
       \/ SetJob(d, InProgress) /\ recorded' = [recorded EXCEPT ![d] = None]
    /\ Break
    /\ UNCHANGED <<live, promise>>

(***************************************************************************)
(* The job of device d runs (module Rosup).                                *)
(***************************************************************************)
Working(d) == pc = "device" /\ Turn(d)

\* The command is through with d: an upgrade goes on or stops, a rollback ends.
GoOn(d) == IF run.command = "upgrade" THEN Visited(d) ELSE Stop
GiveUp == IF run.command = "upgrade" THEN Break ELSE Stop

\* The device installs what it was sent, or a part of it.
Install(d) ==
    /\ Working(d)
    /\ jobs[d].status = "in_progress"
    /\ recorded[d] = None
    /\ \E r \in {run.version, None} : live' = [live EXCEPT ![d] = r]
    /\ UNCHANGED <<files, pc, run, promise>>

\* The check passed and the record of the job was pushed.
Record(d) ==
    /\ Working(d)
    /\ live[d] = run.version
    /\ recorded' = [recorded EXCEPT ![d] = run.version]
    /\ UNCHANGED <<jobs, live, pc, run, promise>>

Completed == [status |-> "complete", release |-> run.version, abandoned |-> None]

Finish(d) ==
    /\ Working(d)
    /\ recorded[d] = run.version
    /\ \/ SetJob(d, Completed) /\ GoOn(d)
       \/ SetJobOrNot(d, Completed) /\ GiveUp
    /\ UNCHANGED <<recorded, live, promise>>

\* A guarded restore puts the device back on release r...
Downgrade(d, r) ==
    /\ Working(d)
    /\ run.command = "upgrade"
    /\ recorded[d] = None
    /\ live' = [live EXCEPT ![d] = r]
    /\ UNCHANGED <<files, pc, run, promise>>

\* ...and the job says so.  The loop goes on, unless the save failed after it
\* had replaced the file and the job could not be marked as failed.
Restored(d) ==
    /\ Working(d)
    /\ run.command = "upgrade"
    /\ recorded[d] = None
    /\ live[d] \in Release \ {run.version}
    /\ SetJob(d, [status |-> "complete", release |-> live[d],
                  abandoned |-> run.version])
    /\ \/ /\ run' = [run EXCEPT !.todo = @ \ {d}, !.restored = @ \cup {d}]
          /\ pc' = AfterVisit(d)
       \/ Break
    /\ UNCHANGED <<recorded, live, promise>>

\* Any other error.  It may be COMPLETE's, which leaves the job in progress.
Fail(d) ==
    /\ Working(d)
    /\ SetJobOrNot(d, [jobs[d] EXCEPT !.status = "failed"])
    /\ GiveUp
    /\ UNCHANGED <<recorded, live, promise>>

\* The process dies.
Crash ==
    /\ pc # "idle"
    /\ Stop
    /\ promise' = None
    /\ UNCHANGED <<files, live>>

(***************************************************************************)
(* The end of an upgrade: CountRollup and Incomplete.                      *)
(***************************************************************************)
RollupFailed == {d \in run.selected : jobs[d].status = "failed"
                                      /\ jobs[d].release \in {None, run.version}}
RollupPending == {d \in run.selected : ~CompleteOn(d, run.version)} \ RollupFailed

\* Mutant: pending devices are not counted.
ExitOKUnlessFailed == ~run.failed /\ RollupFailed = {}

ExitOK == ~run.failed /\ RollupFailed = {} /\ RollupPending = {}

Rollup ==
    /\ pc = "rollup"
    /\ Stop
    /\ promise' = None
    /\ UNCHANGED <<files, live>>

(***************************************************************************)
(* The other commands.                                                     *)
(***************************************************************************)
StartRollback(d, v) ==
    /\ pc = "idle"
    /\ jobs[d].status # "in_progress"
    /\ ~CompleteOn(d, v)
    /\ SetJob(d, [status |-> "in_progress", release |-> v, abandoned |-> None])
    /\ recorded' = [recorded EXCEPT ![d] = None]
    /\ pc' = "device"
    /\ run' = [NoRun EXCEPT !.command = "rollback", !.version = v,
                  !.selected = {d}, !.todo = {d}, !.named = TRUE]
    /\ promise' = None
    /\ UNCHANGED live

\* discover.Run follows the inventory order and stops at the first error.
Reached(T, S) ==
    T \subseteq S /\ \A d \in T, e \in S \ T : Position[d] < Position[e]

\* writeFacts: devices without a job file get a pending one.
Discovered(S) ==
    jobs' = [d \in Device |-> IF d \in S /\ jobs[d].status = ""
                              THEN [NoJob EXCEPT !.status = "pending"]
                              ELSE jobs[d]]

Discover(S) ==
    /\ pc = "idle"
    /\ \E T \in SUBSET S : Reached(T, S) /\ Discovered(T)
    /\ promise' = None
    /\ UNCHANGED <<recorded, live, pc, run>>

\* plan: the device is on the release already.
PlanSkips(d, v) == live[d] = v

\* Mutant: a dependency outside the plan only has to be complete.
PlanDependMetOnAnyRelease(d, e, S, v) ==
    IF e \in S THEN PlanSkips(e, v) \/ Position[e] < Position[d]
               ELSE jobs[e].status = "complete"

\* checkPlanDepend, when nothing else blocks a device of the plan.
PlanDependMet(d, e, S, v) ==
    IF e \in S THEN PlanSkips(e, v) \/ Position[e] < Position[d]
               ELSE CompleteOn(e, v)

\* plan exits with status 0.
PlanOK(S, v) ==
    \A d \in S : PlanSkips(d, v) \/ \A e \in DependsOn[d] : PlanDependMet(d, e, S, v)

\* plan discovers all of S first; if it cannot, it ends as discover does.
Plan(S, v) ==
    /\ pc = "idle"
    /\ Discovered(S)
    /\ promise' = IF PlanOK(S, v) THEN [version |-> v, selected |-> S] ELSE None
    /\ UNCHANGED <<recorded, live, pc, run>>

(***************************************************************************)
(* The specification.                                                      *)
(***************************************************************************)
Named == {{d} : d \in Device}

UpgradeBatch(resume) ==
    \E v \in Targets, S \in Batches : StartUpgrade(v, S, FALSE, resume)

UpgradeNamed(d, resume) ==
    \E v \in Targets : StartUpgrade(v, {d}, TRUE, resume)

Command ==
    \/ /\ "upgrade" \in Commands
       /\ \E resume \in BOOLEAN :
             UpgradeBatch(resume) \/ \E d \in Device : UpgradeNamed(d, resume)
    \/ "rollback" \in Commands /\ \E d \in Device, v \in Targets : StartRollback(d, v)
    \/ "discover" \in Commands /\ \E S \in Batches \cup Named : Discover(S)
    \/ "plan" \in Commands /\ \E S \in Batches \cup Named, v \in Targets : Plan(S, v)

Visit(d) == Skip(d) \/ Refuse(d) \/ Block(d) \/ Begin(d) \/ BeginFails(d)

\* The job of d ends.
End(d) == Finish(d) \/ Restored(d) \/ Fail(d)

Work(d) ==
    \/ Install(d) \/ Record(d) \/ End(d)
    \/ \E r \in Release : Downgrade(d, r)

Next ==
    \/ Command
    \/ \E d \in Device : Visit(d) \/ Work(d)
    \/ Rollup
    \/ Crash

Init ==
    /\ jobs = [d \in Device |-> NoJob]
    /\ recorded = [d \in Device |-> None]
    /\ live \in [Device -> FoundOn]
    /\ pc = "idle"
    /\ run = NoRun
    /\ promise = None

Spec == Init /\ [][Next]_vars

(***************************************************************************)
(* Properties.                                                             *)
(***************************************************************************)

\* A job on disk that says complete names the release the device runs, whatever
\* was skipped, restored, failed or killed before.
JobsTellTruth ==
    \A d \in Device : jobs[d].status = "complete" => live[d] = jobs[d].release

\* An upgrade exits 0 only if every device it selected runs its release
\* (rollup.go; README: "if any selected device is not complete on the release,
\* the command exits non-zero").
ExitTellsTruth ==
    pc = "rollup" /\ ExitOK => \A d \in run.selected : live[d] = run.version

\* An upgrade begins on a device only while every device it depends on runs
\* that release: checkDepends only reads job files, and believes them.
DependenciesRun ==
    [][\A d \in Device :
         Begin(d) => \A e \in DependsOn[d] : live[e] = run.version]_vars

\* In a campaign for one release without rollbacks, what a device depends on,
\* directly or not, is complete before the device is begun and stays so.
DependenciesFirst ==
    \A d \in Device, v \in Targets :
        jobs[d].release = v /\ jobs[d].status \in {"in_progress", "complete"}
            => \A e \in DependsOn[d] : CompleteOn(e, v)

\* A run that plan, directly before it, found no obstacle for is not blocked on
\* a dependency, unless the run itself had to restore a device (README: "Unmet
\* deps show as BLOCKED in plan").
PlanPromise ==
    [][(\E d \in Device : Block(d)) /\ run.restored = {} => promise = None]_vars

\* What is true of that: when such a run is blocked, then a device that runs the
\* release already, or on a dependency that is in the run and was restored off
\* the release or comes later in the inventory.
PlanHolds ==
    [][\A d \in Device : Block(d) /\ promise # None =>
         \/ PlanSkips(d, run.version)
         \/ \E e \in DependsOn[d] \cap run.selected :
              \/ jobs[e].abandoned = run.version
              \/ Position[d] < Position[e]]_vars

\* To its readers, the job file of every device is that of JobLifecycle: what
\* one command leaves behind never misleads the next one on that device.
Life(d) == INSTANCE JobLifecycle WITH
    status <- jobs[d].status, release <- jobs[d].release,
    abandoned <- jobs[d].abandoned, recorded <- recorded[d]

\* Every device lives a life of JobLifecycle, under all commands of the fleet.
EveryJobLives ==
    /\ \A d \in Device : Life(d)!Init
    /\ [][\A d \in Device : [Life(d)!Next]_(Life(d)!vars)]_vars

(***************************************************************************)
(* Campaigns, for one release, with upgrades only.  Of the single device   *)
(* they take for granted what module Rosup shows in the run retry, and     *)
(* under the conditions of that run: a command ends or is interrupted, and *)
(* a device that is begun again and again is complete in the end.          *)
(***************************************************************************)
Ready(d) == pc = "turn" /\ Turn(d) /\ MayStart(d) /\ DependsMet(d, run.version)

\* CommandEnds and RetryConverges of Rosup.
Progress(d) ==
    /\ WF_vars(Visit(d)) /\ WF_vars(End(d))
    /\ []<>Ready(d) => <>[](\E v \in Targets : CompleteOn(d, v) /\ live[d] = v)

\* Like there, only so many commands are killed or interrupted.  (One that dies
\* in the rollup has done its work.)
CrashesEnd == <>[][Crash => pc = "rollup"]_vars

\* The operator runs what status prints as next:, and nothing else.
NextLine ==
    \E v \in Targets, S \in Batches :
        (\E d \in S : ~CompleteOn(d, v)) /\ StartUpgrade(v, S, FALSE, TRUE)

FollowNextSpec ==
    /\ Init
    /\ [][Next /\ (pc = "idle" => NextLine)]_vars
    /\ WF_vars(NextLine) /\ WF_vars(Rollup) /\ CrashesEnd
    /\ \A d \in Device : Progress(d)

\* Now and then the operator resumes every device by its name, too.
CampaignSpec ==
    /\ Spec
    /\ WF_vars(Rollup) /\ CrashesEnd
    /\ \A d \in Device : Progress(d) /\ SF_vars(UpgradeNamed(d, TRUE))

\* A fleet adds no dead end to those of its devices: if each device on its own
\* gets to the release when it is begun again and again (Progress), the campaign
\* ends with all of them complete on it.  None waits for ever for a dependency,
\* behind a failure, or for one that is skipped.
Converges == <>[](\A d \in Device, v \in Targets : CompleteOn(d, v))
=============================================================================
