----------------------------- MODULE UpgradeJob -----------------------------
(***************************************************************************)
(* rosup upgrade on one device (internal/upgrade/machine.go): runDevice,   *)
(* its stages, the guarded restore after a failed validation, and the      *)
(* audit push that closes a job.                                           *)
(*                                                                         *)
(* pc names the call the process is in.  "loop" is the top of the stage    *)
(* loop at stage run.at, "step" the body of that stage; the other values   *)
(* are points inside a body between two effects on the device or the disk. *)
(* Every handler error leads to "failing", where markFailed saves the job, *)
(* or to "lament" when the stage was COMPLETE.                             *)
(***************************************************************************)
EXTENDS Baselines

VARIABLES
    audit,      \* history: the release whose record the ops repository got
                \* since the job file was last started; None if it did not
    before,     \* history: the role was healthy when the upgrade was new, and no
                \* baseline taken without one says otherwise
    pc,
    job,        \* the process's copy of the job
    run,        \* deviceRun and the locals of runDevice
    expired     \* the deadline of the command has passed

process == <<pc, job, run, expired>>
durable == <<disk, baseline, audit, before>>
vars == <<environment, durable, process>>

UpgradePC == {"refresh", "loop", "step", "upload", "snapshot", "command",
              "check", "push", "settle", "lament", "failing", "restore",
              "restoreUpload", "restoreReboot", "restoreWait",
              "restoreCopy", "restoreFill", "restoreCheck", "restoreSave"}

Run == [version : Release \cup {None},
        at : DISCOVER..COMPLETE,
        needsValidate : BOOLEAN,
        skipRB : {"unset", "yes", "no"},
        backedUp : BOOLEAN,
        todo : SUBSET Package,
        captured : {"none"} \cup Captured]

NoRun == [version |-> None, at |-> DISCOVER, needsValidate |-> FALSE,
          skipRB |-> "unset", backedUp |-> FALSE, todo |-> {},
          captured |-> "none"]

(***************************************************************************)
(* Control.                                                                *)
(***************************************************************************)
Goto(label) == pc' = label /\ UNCHANGED expired

\* The command returns: what it kept in memory is gone.
Stop ==
    /\ pc' = "idle"
    /\ job' = NewJob
    /\ run' = NoRun
    /\ expired' = FALSE

\* A dial or a command succeeds.
Connected == Answering /\ ~expired

\* Mutant: the reconnect loop waits until the deadline of the command.
RemoteErrorPatient == IF expired THEN UNCHANGED faults ELSE Spend

\* A dial or a command fails: a fault, unless the deadline has passed or
\* the device is taking its time to boot.
RemoteError ==
    IF expired \/ (SlowBoot /\ ~Answering) THEN UNCHANGED faults ELSE Spend

\* The body of stage run.at returned nil.
NextStage == Goto("loop") /\ run' = [run EXCEPT !.at = @ + 1]

At(stage) == pc = "step" /\ run.at = stage

(***************************************************************************)
(* runDevice: what happens before the stage loop.                          *)
(***************************************************************************)

\* The job a run for release v works on: a complete one is replaced.
Opened == IF disk.status = "complete"
          THEN [NewJob EXCEPT !.facts = disk.facts]
          ELSE disk

\* Mutant: an incomplete job may be resumed for any release.
MayStartAnyRelease(v, named, resume) ==
    /\ disk.status = "complete" =>
          disk.release # v /\ (disk.abandoned = v => named)
    /\ disk.status \in {"in_progress", "failed"} => resume

\* The early returns of runDevice.  They change nothing.
MayStart(v, named, resume) ==
    /\ disk.status = "complete" =>
          disk.release # v /\ (disk.abandoned = v => named)
    /\ disk.status \in {"in_progress", "failed"} =>
          disk.release \in {None, v} /\ resume

\* A stranded job past WAIT_FOR_RECONNECT goes back to it.
StartIndex(stage, resume) ==
    IF resume /\ stage \in WAIT_FOR_RECONNECT + 1..VALIDATE_ROLE_AFTER_ROUTERBOOT - 1
    THEN WAIT_FOR_RECONNECT
    ELSE stage

\* The value of before for a job that is taken up, or is new.
WasHealthy(v) ==
    IF disk.status \in {"in_progress", "failed"} THEN before
    ELSE role /\ baseline[v] # "broken"

StartUpgrade(v, named, resume) ==
    /\ pc = "idle"
    /\ MayStart(v, named, resume)
    /\ LET j == [Opened EXCEPT !.release = v, !.status = "in_progress"]
           start == StartIndex(j.stage, resume)
       IN /\ Saved(j)
          /\ job' = j
          /\ run' = [NoRun EXCEPT !.version = v, !.at = start,
                        !.needsValidate = resume /\ j.stage \in DISCOVER + 1..COMPLETE - 1]
          /\ Goto(IF start \in DISCOVER + 1..STAGE_PACKAGES THEN "refresh" ELSE "loop")
    /\ audit' = None
    /\ before' = WasHealthy(v)
    /\ UNCHANGED <<router, baseline>>

\* checkDepends failed: the job is marked failed for v without starting.
BlockedByDependency(v, named, resume) ==
    /\ pc = "idle"
    /\ MayStart(v, named, resume)
    /\ Spend
    /\ job' = [Opened EXCEPT !.release = v]
    /\ run' = [NoRun EXCEPT !.version = v]
    /\ before' = WasHealthy(v)
    /\ Goto("failing")
    /\ UNCHANGED <<router, disk, baseline, audit>>

(***************************************************************************)
(* The stage loop.                                                         *)
(***************************************************************************)
OnTarget == job.facts # None /\ AlreadyOnRelease(job.facts, run.version)

RouterbootStages == {ROUTERBOOT_UPDATE, REBOOT_ROUTERBOOT,
                     VALIDATE_ROLE_AFTER_ROUTERBOOT}

\* Mutant: the audit is skipped with the rest.
SkipBecauseCurrentToTheEnd(stage) ==
    /\ stage \notin RouterbootStages
    /\ ~(stage \in {WAIT_FOR_RECONNECT, VALIDATE_ROLE} /\ run.needsValidate)
    /\ OnTarget

\* Mutant: a resumed run trusts the facts and skips the validation.
SkipBecauseCurrentOnResume(stage) ==
    stage \notin {DISCOVER, COMPLETE} \cup RouterbootStages /\ OnTarget

\* Stages a device already on the release does not need; a resumed run
\* still waits and validates.
SkipBecauseCurrent(stage) ==
    /\ stage \notin {DISCOVER, COMPLETE} \cup RouterbootStages
    /\ ~(stage \in {WAIT_FOR_RECONNECT, VALIDATE_ROLE} /\ run.needsValidate)
    /\ OnTarget

SkipStage ==
    /\ pc = "loop"
    /\ \/ SkipBecauseCurrent(run.at)
       \/ /\ run.at \in RouterbootStages \ {ROUTERBOOT_UPDATE}
          /\ run.skipRB = "yes"
    /\ NextStage
    /\ UNCHANGED <<environment, durable, job>>

\* skipRouterbootStage at ROUTERBOOT_UPDATE; "ahead" is not newer.
DecideRouterboot ==
    /\ pc = "loop"
    /\ run.at = ROUTERBOOT_UPDATE
    /\ run.skipRB = "unset"
    /\ Goto("loop")
    /\ \/ /\ \/ firmware = "none"
             \/ Connected /\ firmware \in {"current", "ahead"}
          /\ run' = [run EXCEPT !.skipRB = "yes", !.at = @ + 1]
       \/ /\ Connected
          /\ firmware \in {"outdated", "armed"}
          /\ run' = [run EXCEPT !.skipRB = "no"]
    /\ UNCHANGED <<environment, durable, job>>

\* Advance: the stage is on disk before its body runs.
EnterStage ==
    /\ pc = "loop"
    /\ ~SkipBecauseCurrent(run.at)
    /\ run.at = ROUTERBOOT_UPDATE => run.skipRB = "no"
    /\ run.at \in RouterbootStages => run.skipRB # "yes"
    /\ LET j == [job EXCEPT !.stage = run.at]
       IN \/ Saved(j) /\ job' = j /\ Goto("step") /\ UNCHANGED run
          \/ SaveError(j) /\ Stop
    /\ UNCHANGED <<router, baseline, audit, before>>

(***************************************************************************)
(* The bodies of the stages.                                               *)
(***************************************************************************)

\* r.discover: DISCOVER, and the refresh before a resumed early stage.
Discover ==
    /\ pc = "refresh" \/ At(DISCOVER)
    /\ Connected
    /\ LET j == [job EXCEPT !.facts = installed]
       IN /\ job' = j
          /\ \/ /\ Saved(j)
                /\ IF pc = "refresh" THEN Goto("loop") /\ UNCHANGED run ELSE NextStage
             \/ SaveError(j) /\ Goto("failing") /\ UNCHANGED run
    /\ UNCHANGED <<router, baseline, audit, before>>

Preflight ==
    /\ At(PREFLIGHT)
    /\ NextStage
    /\ UNCHANGED <<environment, durable, job>>

\* EXPORT_TEXT and SAVE_BINARY_BACKUP share one backup per run.
Backup ==
    /\ At(EXPORT_TEXT) \/ At(SAVE_BINARY_BACKUP)
    /\ ~run.backedUp
    /\ Connected
    /\ \/ /\ Saved(job)
          /\ Goto("loop")
          /\ run' = [run EXCEPT !.at = @ + 1, !.backedUp = TRUE]
       \/ SaveError(job) /\ Goto("failing") /\ UNCHANGED run
    /\ UNCHANGED <<router, baseline, audit, before, job>>

AlreadyBackedUp ==
    /\ At(SAVE_BINARY_BACKUP)
    /\ run.backedUp
    /\ NextStage
    /\ UNCHANGED <<environment, durable, job>>

StagePackages ==
    /\ At(STAGE_PACKAGES)
    /\ Connected
    /\ Goto("upload")
    /\ run' = [run EXCEPT !.todo = Package]
    /\ UNCHANGED <<environment, durable, job>>

UploadFile(p) ==
    /\ pc = "upload"
    /\ p \in run.todo
    /\ Connected
    /\ Upload(p, run.version)
    /\ IF run.todo = {p}
       THEN Goto("loop") /\ run' = [run EXCEPT !.todo = {}, !.at = @ + 1]
       ELSE Goto("upload") /\ run' = [run EXCEPT !.todo = @ \ {p}]
    /\ UNCHANGED <<faults, durable, job>>

\* ensureBaseline: the first thing REBOOT and ROUTERBOOT_UPDATE do.
KeepBaseline ==
    /\ At(REBOOT) \/ At(ROUTERBOOT_UPDATE)
    /\ Connected
    /\ Readable(run.version)
    /\ Goto("command")
    /\ UNCHANGED <<environment, durable, job, run>>

\* Mutant: any missing baseline is taken from the live state.
MayInventAlways == job.facts # None

\* refuseInventedPostUpgradeBaseline lets the run invent one.
MayInvent ==
    job.facts # None /\ (OnTarget \/ ~AlreadyOnRelease(installed, run.version))

InventBaseline ==
    /\ At(REBOOT) \/ At(ROUTERBOOT_UPDATE)
    /\ Connected
    /\ baseline[run.version] = "missing"
    /\ MayInvent
    /\ Truncate(run.version)
    /\ run' = [run EXCEPT !.captured = RoleFacts]
    /\ Goto("snapshot")
    /\ UNCHANGED <<environment, disk, audit, before, job>>

FillBaseline ==
    /\ pc = "snapshot"
    /\ Fill(run.version, run.captured)
    /\ run' = [run EXCEPT !.captured = "none"]
    /\ Goto("command")
    /\ UNCHANGED <<environment, disk, audit, before, job>>

\* A torn baseline, or one that may not be invented, fails the stage.
NoBaseline ==
    /\ At(REBOOT) \/ At(ROUTERBOOT_UPDATE)
    /\ Connected
    /\ \/ baseline[run.version] = "torn"
       \/ (baseline[run.version] = "missing" /\ ~MayInvent)
    /\ Goto("failing")
    /\ UNCHANGED <<environment, durable, job, run>>

\* /system reboot; the disconnect it causes is not an error.
RebootDevice ==
    /\ (pc = "command" /\ run.at = REBOOT) \/ At(REBOOT_ROUTERBOOT)
    /\ Connected
    /\ Reboot
    /\ NextStage
    /\ UNCHANGED <<faults, durable, job>>

UpgradeRouterboot ==
    /\ pc = "command"
    /\ run.at = ROUTERBOOT_UPDATE
    /\ Connected
    /\ ArmFirmware
    /\ NextStage
    /\ UNCHANGED <<faults, durable, job>>

\* waitForReconnect found the device.
Reconnect ==
    /\ At(WAIT_FOR_RECONNECT) \/ At(VALIDATE_ROLE_AFTER_ROUTERBOOT)
    /\ Connected
    /\ IF run.at = WAIT_FOR_RECONNECT
       THEN NextStage
       ELSE Goto("check") /\ UNCHANGED run
    /\ UNCHANGED <<environment, durable, job>>

\* It gave up after VALIDATE_ROLE_AFTER_ROUTERBOOT's reboot: that error is
\* not ErrUnreachable, so maybeDowngrade goes on.
ReconnectTimeout ==
    /\ At(VALIDATE_ROLE_AFTER_ROUTERBOOT)
    /\ RemoteError
    /\ Goto("restore")
    /\ UNCHANGED <<router, durable, job, run>>

Checking == At(VALIDATE_ROLE) \/ pc = "check"

UpgradingFirmware == run.at = VALIDATE_ROLE_AFTER_ROUTERBOOT

ValidationPasses ==
    /\ Checking
    /\ Connected
    /\ CheckPasses(run.version, UpgradingFirmware)
    /\ NextStage
    /\ UNCHANGED <<environment, durable, job>>

\* The check reached the device and failed: maybeDowngrade.
ValidationFails ==
    /\ Checking
    /\ Connected
    /\ IF CheckPasses(run.version, UpgradingFirmware) THEN Spend ELSE UNCHANGED faults
    /\ Goto("restore")
    /\ UNCHANGED <<router, durable, job, run>>

(***************************************************************************)
(* The guarded restore: downgradeToPrevious and maybeDowngrade.            *)
(***************************************************************************)
Previous == IF job.facts = None THEN None ELSE job.facts[System]

RestoreBegins ==
    /\ pc = "restore"
    /\ Previous \notin {None, run.version}
    /\ Connected
    /\ Goto("restoreUpload")
    /\ run' = [run EXCEPT !.todo = Package]
    /\ UNCHANGED <<environment, durable, job>>

NothingToRestore ==
    /\ pc = "restore"
    /\ Previous \in {None, run.version}
    /\ Goto("failing")
    /\ UNCHANGED <<environment, durable, job, run>>

RestoreUpload(p) ==
    /\ pc = "restoreUpload"
    /\ p \in run.todo
    /\ Connected
    /\ Upload(p, Previous)
    /\ run' = [run EXCEPT !.todo = @ \ {p}]
    /\ Goto(IF run.todo = {p} THEN "restoreReboot" ELSE "restoreUpload")
    /\ UNCHANGED <<faults, durable, job>>

RestoreReboot ==
    /\ pc = "restoreReboot"
    /\ Connected
    /\ Reboot
    /\ Goto("restoreWait")
    /\ UNCHANGED <<faults, durable, job, run>>

RestoreReconnect ==
    /\ pc = "restoreWait"
    /\ Connected
    /\ Goto("restoreCopy")
    /\ UNCHANGED <<environment, durable, job, run>>

\* copyBaseline: only now is the baseline of the failed release read.
RestoreCopy ==
    /\ pc = "restoreCopy"
    /\ IF Readable(run.version)
       THEN /\ Truncate(Previous)
            /\ run' = [run EXCEPT !.captured = baseline[run.version]]
            /\ Goto("restoreFill")
       ELSE UNCHANGED <<baseline, run>> /\ Goto("failing")
    /\ UNCHANGED <<environment, disk, audit, before, job>>

RestoreFill ==
    /\ pc = "restoreFill"
    /\ Fill(Previous, run.captured)
    /\ run' = [run EXCEPT !.captured = "none"]
    /\ Goto("restoreCheck")
    /\ UNCHANGED <<environment, disk, audit, before, job>>

RestoreCheck ==
    /\ pc = "restoreCheck"
    /\ Connected
    /\ Goto(IF CheckPasses(Previous, FALSE) THEN "restoreSave" ELSE "failing")
    /\ UNCHANGED <<environment, durable, job, run>>

\* Mutant: a restored device leaves a failed job for the abandoned release.
RestoreSaveAsFailed ==
    /\ pc = "restoreSave"
    /\ LET j == [job EXCEPT !.status = "failed"]
       IN \/ Saved(j) /\ Stop
          \/ SaveError(j) /\ Goto("failing") /\ UNCHANGED <<job, run>>
    /\ UNCHANGED <<router, baseline, audit, before>>

\* The device is recorded as complete on the release it was put back on.
RestoreSave ==
    /\ pc = "restoreSave"
    /\ LET j == [job EXCEPT !.status = "complete", !.stage = COMPLETE,
                            !.release = Previous, !.abandoned = run.version]
       IN \/ Saved(j) /\ Stop
          \/ SaveError(j) /\ Goto("failing") /\ UNCHANGED <<job, run>>
    /\ UNCHANGED <<router, baseline, audit, before>>

(***************************************************************************)
(* COMPLETE.  The job stays in_progress until the audit push is through.   *)
(***************************************************************************)

\* Mutant: the job is complete before it is pushed.
CompleteEarly ==
    /\ At(COMPLETE)
    /\ LET j == [job EXCEPT !.status = "complete", !.stage = COMPLETE]
       IN /\ job' = j
          /\ \/ Saved(j) /\ Goto("push")
             \/ SaveError(j) /\ Goto("lament")
    /\ UNCHANGED <<router, baseline, audit, before, run>>

Complete ==
    /\ At(COMPLETE)
    /\ LET j == [job EXCEPT !.status = "in_progress", !.stage = COMPLETE]
       IN /\ job' = j
          /\ \/ Saved(j) /\ Goto("push")
             \/ SaveError(j) /\ Goto("lament")
    /\ UNCHANGED <<router, baseline, audit, before, run>>

PushAudit ==
    /\ pc = "push"
    /\ ~expired
    /\ audit' = run.version
    /\ Goto("settle")
    /\ UNCHANGED <<environment, disk, baseline, before, job, run>>

Settle ==
    /\ pc = "settle"
    /\ LET j == [job EXCEPT !.status = "complete"]
       IN \/ Saved(j) /\ Stop
          \/ SaveError(j) /\ job' = j /\ Goto("lament") /\ UNCHANGED run
    /\ UNCHANGED <<router, baseline, audit, before>>

\* runDevice saves the job once more to record why COMPLETE failed.
Lament ==
    /\ pc = "lament"
    /\ Saved(job) \/ SaveError(job)
    /\ Stop
    /\ UNCHANGED <<router, baseline, audit, before>>

(***************************************************************************)
(* Errors.                                                                 *)
(***************************************************************************)

\* The device did not answer, or a command on it failed.
RemoteFailure ==
    /\ \/ pc \in {"refresh", "upload", "restoreUpload", "restoreReboot",
                  "restoreWait", "restoreCheck", "command", "check"}
       \/ /\ pc = "loop"
          /\ run.at = ROUTERBOOT_UPDATE
          /\ run.skipRB = "unset"
       \/ /\ pc = "step"
          /\ run.at \notin {PREFLIGHT, VALIDATE_ROLE_AFTER_ROUTERBOOT, COMPLETE}
          /\ ~(run.at = SAVE_BINARY_BACKUP /\ run.backedUp)
       \/ pc = "restore" /\ Previous \notin {None, run.version}
    /\ RemoteError
    /\ Goto("failing")
    /\ UNCHANGED <<router, durable, job, run>>

\* The command took effect but its answer was lost: a deadline in between,
\* or an error that is not a disconnect.
Unconfirmed ==
    /\ \/ pc = "command" \/ At(REBOOT_ROUTERBOOT)
       \/ pc \in {"restoreReboot", "rollReboot"}
    /\ Connected
    /\ Spend
    /\ IF pc = "command" /\ run.at = ROUTERBOOT_UPDATE THEN ArmFirmware ELSE Reboot
    /\ Goto("failing")
    /\ UNCHANGED <<durable, job, run>>

\* Something local failed: the release's files, the baseline file.
LocalFailure ==
    /\ pc \in {"snapshot", "restoreCopy", "restoreFill"} \/ At(PREFLIGHT)
    /\ Spend
    /\ Goto("failing")
    /\ UNCHANGED <<router, durable, job, run>>

\* The export could not be read, or the push failed.
CompleteFailure ==
    /\ pc = "push" \/ At(COMPLETE)
    /\ IF expired /\ pc = "push" THEN UNCHANGED faults ELSE Spend
    /\ Goto("lament")
    /\ UNCHANGED <<router, durable, job, run>>

MarkFailed ==
    /\ pc = "failing"
    /\ LET j == [job EXCEPT !.status = "failed"]
       IN Saved(j) \/ SaveError(j)
    /\ Stop
    /\ UNCHANGED <<router, baseline, audit, before>>

UpgradeStep ==
    \/ SkipStage \/ DecideRouterboot \/ EnterStage
    \/ Discover \/ Preflight \/ Backup \/ AlreadyBackedUp \/ StagePackages
    \/ \E p \in Package : UploadFile(p) \/ RestoreUpload(p)
    \/ KeepBaseline \/ InventBaseline \/ FillBaseline \/ NoBaseline
    \/ RebootDevice \/ UpgradeRouterboot
    \/ Reconnect \/ ReconnectTimeout \/ ValidationPasses \/ ValidationFails
    \/ RestoreBegins \/ NothingToRestore \/ RestoreReboot \/ RestoreReconnect
    \/ RestoreCopy \/ RestoreFill \/ RestoreCheck \/ RestoreSave
    \/ Complete \/ PushAudit \/ Settle \/ Lament
    \/ RemoteFailure \/ Unconfirmed \/ LocalFailure \/ CompleteFailure \/ MarkFailed
=============================================================================
