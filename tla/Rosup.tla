------------------------------- MODULE Rosup -------------------------------
(***************************************************************************)
(* One controller host, one device: the commands an operator gives, one at *)
(* a time under the controller lock, each of which may be killed, run into *)
(* its deadline or lose the device at any step.                            *)
(***************************************************************************)
EXTENDS RollbackJob

CONSTANTS
    Commands,   \* the commands the operator uses
    Targets     \* the releases the operator asks for

ASSUME RosupAssumption ==
    /\ Commands \subseteq {"upgrade", "rollback", "discover", "verify"}
    /\ Targets \subseteq Release

PC == {"idle", "verifyFill", "hung"} \cup UpgradePC \cup RollbackPC

(***************************************************************************)
(* The commands that are not jobs.                                         *)
(***************************************************************************)

\* rosup discover (and plan): live facts replace those of the job.
DiscoverCommand ==
    /\ pc = "idle"
    /\ "discover" \in Commands
    /\ Connected
    /\ disk.facts # installed
    /\ Saved([disk EXCEPT !.facts = installed,
                          !.status = IF @ = "" THEN "pending" ELSE @])
    /\ UNCHANGED <<router, baseline, audit, before, process>>

\* rosup verify on a device without any baseline takes one now.
VerifySnapshot ==
    /\ pc = "idle"
    /\ "verify" \in Commands
    /\ Connected
    /\ \A r \in Release : baseline[r] = "missing"
    /\ Truncate(installed[System])
    /\ run' = [NoRun EXCEPT !.version = installed[System], !.captured = RoleFacts]
    /\ Goto("verifyFill")
    /\ UNCHANGED <<environment, disk, audit, before, job>>

VerifyFill ==
    /\ pc = "verifyFill"
    /\ Fill(run.version, run.captured)
    /\ Stop
    /\ before' = (before /\ run.captured = "healthy")
    /\ UNCHANGED <<environment, disk, audit>>

(***************************************************************************)
(* What befalls a running command.                                         *)
(***************************************************************************)

\* The process dies: the lock is released, what is on disk stays.
Crash ==
    /\ pc # "idle"
    /\ Spend
    /\ Stop
    /\ UNCHANGED <<router, durable>>

\* upgrade_timeout.
Deadline ==
    /\ pc \in UpgradePC \cup RollbackPC
    /\ ~expired
    /\ Spend
    /\ expired' = TRUE
    /\ UNCHANGED <<router, durable, pc, job, run>>

\* The process waits for an answer of the device.
AwaitsDevice ==
    \/ pc \in {"refresh", "upload", "command", "check", "restoreUpload",
               "restoreReboot", "restoreWait", "restoreCheck", "rollUpload",
               "rollReboot", "rollWait", "rollVerify"}
    \/ pc = "loop" /\ run.at = ROUTERBOOT_UPDATE /\ run.skipRB = "unset"
    \/ /\ pc = "step"
       /\ run.at \notin {PREFLIGHT, COMPLETE}
       /\ ~(run.at = SAVE_BINARY_BACKUP /\ run.backedUp)

\* The device, or the git remote, keeps the connection and never answers.  The
\* SSH client has no timeout once it is connected, and half of its calls do not
\* look at the deadline.  What the process keeps in memory no longer matters.
Hang ==
    /\ \/ pc = "idle" /\ Commands \cap {"rollback", "discover", "verify"} # {} /\ Answering
       \/ AwaitsDevice /\ Connected
       \/ pc \in {"push", "rollPush"} /\ ~expired
    /\ Spend
    /\ pc' = "hung" /\ job' = NewJob /\ run' = NoRun /\ expired' = FALSE
    /\ UNCHANGED <<router, durable>>

\* The operator interrupts a command that hangs.
Interrupt ==
    /\ pc = "hung"
    /\ Stop
    /\ UNCHANGED <<environment, durable>>

StartCommand ==
    \/ /\ "upgrade" \in Commands
       /\ \E v \in Targets, named, resume \in BOOLEAN :
             \/ StartUpgrade(v, named, resume)
             \/ BlockedByDependency(v, named, resume)
    \/ /\ "rollback" \in Commands
       /\ \E v \in Targets : StartRollback(v)

ProcessStep == UpgradeStep \/ RollbackStep \/ VerifyFill

Next ==
    \/ StartCommand
    \/ DiscoverCommand
    \/ VerifySnapshot
    \/ ProcessStep
    \/ Crash
    \/ Deadline
    \/ Hang
    \/ Interrupt
    \/ EnvironmentStep /\ UNCHANGED <<durable, process>>

Init ==
    /\ EnvironmentInit
    /\ JobStoreInit
    /\ BaselinesInit
    /\ audit = None
    /\ before = role
    /\ pc = "idle"
    /\ job = NewJob
    /\ run = NoRun
    /\ expired = FALSE

Spec == Init /\ [][Next]_vars

\* A running command keeps going: no step of it waits for another process, and
\* one whose call never returns is hung.  Nothing else is assumed of the device,
\* and nothing of the operator.
FairSpec == Spec /\ WF_vars(ProcessStep)

\* An operator who interrupts a command that hangs and keeps upgrading, in
\* whatever way the code accepts, and a device that comes back from a reboot and
\* on which the install of a release that is tried over and over eventually goes
\* through.
Restart == Boot /\ UNCHANGED <<durable, process>>

CleanBoot(r) ==
    /\ Restart
    /\ \E p \in Package : r \in staged[p]
    /\ \A p \in Package : r \in staged[p] => installed'[p] = r

Retry ==
    /\ "upgrade" \in Commands
    /\ \E v \in Targets, named, resume \in BOOLEAN : StartUpgrade(v, named, resume)

RetrySpec ==
    /\ FairSpec /\ WF_vars(Interrupt) /\ WF_vars(Retry) /\ WF_vars(Restart)
    /\ \A r \in Release : SF_vars(CleanBoot(r))

(***************************************************************************)
(* Properties.                                                             *)
(***************************************************************************)

\* Every variable has its type, over all modules.
TypeOK ==
    /\ EnvironmentTypeOK
    /\ JobStoreTypeOK
    /\ BaselinesTypeOK
    /\ audit \in Release \cup {None}
    /\ before \in BOOLEAN
    /\ pc \in PC
    /\ job \in Job
    /\ run \in Run
    /\ expired \in BOOLEAN

\* A job is on disk as complete only after the ops repository has its
\* record, unless it is the record of a guarded restore (machine.go complete,
\* rollback.go).  No crash, failed push or failed save may reorder them.
AuditBeforeComplete ==
    disk.status = "complete" /\ disk.abandoned = None => audit = disk.release

\* A job that becomes complete on a release, by upgrade, rollback or guarded
\* restore, possibly over several crashed and resumed runs, says the truth:
\* every package of the device runs that release at that moment.
CompletedOnRelease ==
    [][disk'.status = "complete" /\ disk.status # "complete"
         => AlreadyOnRelease(installed, disk'.release)]_vars

\* A record that was pushed says the truth for as long as its job is not
\* complete, whatever fails after the push: the device runs that release until
\* the next command takes the job up, and with it the record back.
RecordTrue ==
    disk.status # "complete" /\ disk.release # None /\ disk.release = audit
        => AlreadyOnRelease(installed, audit)

\* An upgrade does not turn green over a role its own installs have broken:
\* if the role was healthy when the job was new, it is when the job completes.
\* Excepted are what rollback leaves behind, which does not look at the role,
\* and a baseline of a broken role that was there before or came from verify.
NoFalseGreen ==
    [][disk'.status = "complete" /\ disk.status # "complete"
         /\ pc \in UpgradePC /\ before => role]_vars

\* The job on disk still looks mid-upgrade to v: its facts are older.
MidUpgrade(v) ==
    /\ disk.status \in {"in_progress", "failed"}
    /\ disk.release = v
    /\ disk.stage # DISCOVER
    /\ disk.facts # None /\ ~AlreadyOnRelease(disk.facts, v)

\* No baseline of v is made up from the role state of a device that is
\* already on v while its job is still mid-upgrade to v
\* (refuseInventedPostUpgradeBaseline, machine.go).
NoInventedBaseline ==
    [][\A v \in Release : baseline[v] = "missing" /\ baseline'[v] # "missing"
         => ~(MidUpgrade(v) /\ AlreadyOnRelease(installed, v))]_vars

\* The job file goes through the life of a job, as its readers rely on.
Lifecycle == INSTANCE JobLifecycle WITH
    status <- disk.status, release <- disk.release,
    abandoned <- disk.abandoned, recorded <- audit

ImplementsLifecycle == Lifecycle!Spec

\* Every command ends, unless a call of it never returns: the reconnect loop
\* gives up on a device that is down or refuses, the stage loop does not go in
\* circles, and every error leads out of it.
CommandEnds == pc # "idle" ~> pc \in {"idle", "hung"}

\* Whatever went wrong before, retrying gets the device to the release that is
\* asked for, and its job to say so for good, unless a crash tore a baseline
\* file, which every later run refuses to read.
RetryConverges ==
    \/ <>[](/\ disk.status = "complete" /\ disk.release \in Targets
            /\ AlreadyOnRelease(installed, disk.release))
    \/ <>[](\E r \in Release : baseline[r] = "torn")
=============================================================================
