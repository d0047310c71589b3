---------------------------- MODULE GreenProofs ----------------------------
(***************************************************************************)
(* An upgrade of Rosup does not turn green over a role that its own        *)
(* installs have broken.  What protects the role is the baseline: it is    *)
(* there, and of a healthy device, before the first reboot, and until then *)
(* nothing has touched the device.                                         *)
(***************************************************************************)
EXTENDS CompletionProofs

USE EnvironmentAssumption, RosupAssumption
    DEF EnvironmentAssumption, RosupAssumption

USE DEF DISCOVER, PREFLIGHT, EXPORT_TEXT, SAVE_BINARY_BACKUP, STAGE_PACKAGES, REBOOT,
        WAIT_FOR_RECONNECT, VALIDATE_ROLE, ROUTERBOOT_UPDATE, REBOOT_ROUTERBOOT,
        VALIDATE_ROLE_AFTER_ROUTERBOOT, COMPLETE

(***************************************************************************)
(* A device without an open job is up.                                     *)
(***************************************************************************)
Rested == ~Unfinished => phase = "up"

\* The steps after which a device that was up may be down.
LEMMA GoesDown ==
    ASSUME ~PowerCuts, Known, [Next]_vars, phase' # phase, phase' # "up"
    PROVE  pc \in Running /\ disk' = disk
  <1>1. phase # "going"
    BY DEF Known, Truthful, FileSettled
  <1>2. CASE UpgradeStep
    <2>1. RebootDevice \/ RestoreReboot \/ Unconfirmed
      BY <1>2 DEF UpgradeStep, SkipStage, DecideRouterboot, EnterStage, Discover, Preflight,
         Backup, AlreadyBackedUp, StagePackages, UploadFile, RestoreUpload, Upload,
         KeepBaseline, InventBaseline, FillBaseline, NoBaseline, UpgradeRouterboot,
         ArmFirmware, Reconnect, ReconnectTimeout, ValidationPasses, ValidationFails,
         RestoreBegins, NothingToRestore, RestoreReconnect, RestoreCopy, RestoreFill,
         RestoreCheck, RestoreSave, Complete, PushAudit, Settle, Lament, RemoteFailure,
         LocalFailure, CompleteFailure, MarkFailed, environment, router
    <2> QED
      BY <2>1 DEF RebootDevice, RestoreReboot, Unconfirmed, At, durable, Running, UpgradePC,
         RollbackPC
  <1>3. CASE RollbackStep
    <2>1. RollbackReboot
      BY <1>3 DEF RollbackStep, RollbackUpload, Upload, RollbackMark, RollbackReconnect,
         RollbackVerified, RollbackMismatch, RollbackPush, RollbackPushFails,
         RollbackSettle, RollbackFails, environment, router
    <2> QED
      BY <2>1 DEF RollbackReboot, durable, Running, RollbackPC
  <1>4. CASE ~UpgradeStep /\ ~RollbackStep
    BY <1>1, <1>4 DEF Next, ProcessStep, StartCommand, StartUpgrade, BlockedByDependency,
       StartRollback, DiscoverCommand, VerifySnapshot, VerifyFill, Crash, Hang, Interrupt,
       Deadline,
       EnvironmentStep, GoDown, PowerCut, Boot, vars, environment, router
  <1> QED
    BY <1>2, <1>3, <1>4

LEMMA NextRested ==
    ASSUME ~PowerCuts, Known, Rested, [Next]_vars PROVE Rested'
  <1>1. CASE phase' # phase /\ phase' # "up"
    <2>1. disk'.status = "in_progress"
      BY <1>1, GoesDown DEF Known, Coherent, OwnedBy
    <2> QED
      BY <2>1 DEF Rested, Unfinished
  <1>2. CASE phase' = phase \/ phase' = "up"
    <2>1. ASSUME Unfinished, ~Unfinished' PROVE disk'.status = "complete"
      <3>1. LifecycleStep
        BY NextGood DEF Known, Good
      <3> QED
        BY <2>1, <3>1 DEF LifecycleStep, Lifecycle!Next, Lifecycle!vars, Lifecycle!Discover,
           Lifecycle!Fail, Lifecycle!Record, Lifecycle!Finish, Lifecycle!Begin,
           Lifecycle!Block, Lifecycle!TakeUp, Lifecycle!Rollback, Lifecycle!Restore,
           Unfinished
    <2>2. ASSUME Unfinished, ~Unfinished' PROVE phase = "up"
      BY <2>1, <2>2, CompletedSettled DEF Unfinished, Settled
    <2> QED
      BY <1>2, <2>2 DEF Rested
  <1> QED
    BY <1>1, <1>2

(***************************************************************************)
(* Which stage the job is in at each point of an upgrade.                  *)
(***************************************************************************)

\* The points within a stage: EnterStage has put the stage on disk.
Entered == {"step", "upload", "snapshot", "command", "check"} \cup RestorePoints

Placed ==
    /\ pc \in Entered => job.stage = run.at
    /\ pc \in RestorePoints => run.at \in {VALIDATE_ROLE, VALIDATE_ROLE_AFTER_ROUTERBOOT}
    /\ pc = "refresh" => run.needsValidate
    /\ pc = "refresh" \/ (pc = "loop" /\ run.at < REBOOT) => job.stage < REBOOT
    /\ pc = "loop" /\ run.at \in Skippable /\ ~run.needsValidate /\ OnTarget
         => job.stage = DISCOVER

LEMMA PlacedLeft ==
    ASSUME pc' \in {"idle", "verifyFill", "hung", "failing", "lament", "push", "settle"}
                \cup RollbackPC
    PROVE  Placed'
  BY DEF Placed, Entered, RestorePoints, Restoring, RollbackPC

\* A body goes on within its stage.
LEMMA PlacedWithin ==
    ASSUME Placed, pc \in Entered, UNCHANGED job, run'.at = run.at,
           \/ pc' \in Entered \ RestorePoints
           \/ pc' \in RestorePoints
                /\ run.at \in {VALIDATE_ROLE, VALIDATE_ROLE_AFTER_ROUTERBOOT}
    PROVE  Placed'
  BY DEF Placed, Entered, RestorePoints, Restoring

\* The bodies that lead back to the loop.
LoopsBack ==
    \/ Preflight \/ Backup \/ AlreadyBackedUp \/ RebootDevice \/ UpgradeRouterboot
    \/ Reconnect \/ ValidationPasses
    \/ \E p \in Package : UploadFile(p)

\* What they have in common: the next stage is up, the job is as it was.
LEMMA BodyEnds ==
    ASSUME Known, LoopsBack, pc' = "loop"
    PROVE  /\ pc \in {"step", "upload", "command", "check"}
           /\ run.at \in PREFLIGHT..VALIDATE_ROLE_AFTER_ROUTERBOOT
           /\ pc = "check" => run.at = VALIDATE_ROLE_AFTER_ROUTERBOOT
           /\ UNCHANGED <<job, disk, baseline, before>>
           /\ run'.at = run.at + 1 /\ run'.version = run.version
           /\ run'.needsValidate = run.needsValidate /\ run'.skipRB = run.skipRB
  <1>1. job \in Job /\ run \in Run
    BY DEF Known, Inv, ProcessTypeOK
  <1>2. /\ pc \in {"step", "upload", "command", "check"}
        /\ run.at \in PREFLIGHT..VALIDATE_ROLE_AFTER_ROUTERBOOT
        /\ pc = "check" => run.at = VALIDATE_ROLE_AFTER_ROUTERBOOT
    BY DEF LoopsBack, Preflight, Backup, AlreadyBackedUp, UploadFile, RebootDevice,
       UpgradeRouterboot, Reconnect, ValidationPasses, At, Checking, Known, Inv, Control
  <1>3. UNCHANGED <<job, disk, baseline, before>>
    <2>1. UNCHANGED <<job, baseline, before>>
      BY DEF LoopsBack, Preflight, Backup, AlreadyBackedUp, UploadFile, RebootDevice,
         UpgradeRouterboot, Reconnect, ValidationPasses, durable
    <2>2. CASE Backup
      <3>1. disk' = job
        BY <2>2 DEF Backup, Saved, Goto
      <3> QED
        BY <1>2, <2>1, <3>1 DEF Known, Trail, JobOnDisk, UpgradePC
    <2>3. CASE ~Backup
      BY <2>1, <2>3 DEF LoopsBack, Preflight, AlreadyBackedUp, UploadFile, RebootDevice,
         UpgradeRouterboot, Reconnect, ValidationPasses, durable
    <2> QED
      BY <2>2, <2>3
  <1>4. \/ run' = [run EXCEPT !.at = @ + 1]
        \/ run' = [run EXCEPT !.at = @ + 1, !.backedUp = TRUE]
        \/ run' = [run EXCEPT !.todo = {}, !.at = @ + 1]
    BY DEF LoopsBack, Preflight, Backup, AlreadyBackedUp, UploadFile, RebootDevice,
       UpgradeRouterboot, Reconnect, ValidationPasses, NextStage, Goto
  <1>5. /\ run'.at = run.at + 1 /\ run'.version = run.version
        /\ run'.needsValidate = run.needsValidate /\ run'.skipRB = run.skipRB
    BY <1>1, <1>4 DEF Run
  <1> QED
    BY <1>2, <1>3, <1>5

LEMMA LoopsBackPlaced ==
    ASSUME Known, Placed, LoopsBack, pc' = "loop" PROVE Placed'
  <1>1. job'.stage = run.at /\ job' = job
    BY BodyEnds DEF Placed, Entered
  <1>2. run'.at \in Skippable /\ ~run'.needsValidate => ~OnTarget'
    BY BodyEnds DEF Known, Truthful, Needed, OnTarget, AlreadyOnRelease, Skippable
  <1> QED
    BY <1>1, <1>2, BodyEnds
       DEF Placed, Entered, RestorePoints, Restoring, OnTarget, AlreadyOnRelease

LEMMA SkipPlaced == ASSUME Known, Placed, SkipStage PROVE Placed'
  <1>1. /\ pc = "loop" /\ pc' = "loop" /\ run' = [run EXCEPT !.at = @ + 1] /\ run \in Run
        /\ job' = job /\ run.at # DISCOVER /\ run.at # ROUTERBOOT_UPDATE
    BY DEF SkipStage, SkipBecauseCurrent, NextStage, Goto, Known, Inv, ProcessTypeOK,
       RouterbootStages
  <1>2. /\ run'.at = run.at + 1 /\ run'.version = run.version
        /\ run'.needsValidate = run.needsValidate
    BY <1>1 DEF Run
  <1>3. run.at \in DISCOVER..COMPLETE
    BY <1>1 DEF Run
  <1> QED
    BY <1>1, <1>2, <1>3
       DEF Placed, Entered, RestorePoints, Restoring, OnTarget, AlreadyOnRelease, Skippable

LEMMA DecidePlaced == ASSUME Known, Placed, DecideRouterboot PROVE Placed'
  <1>1. pc' = "loop" /\ run.at = ROUTERBOOT_UPDATE /\ run \in Run
    BY DEF DecideRouterboot, Goto, Known, Inv, ProcessTypeOK
  <1>2. \/ run' = [run EXCEPT !.skipRB = "yes", !.at = @ + 1]
        \/ run' = [run EXCEPT !.skipRB = "no"]
    BY DEF DecideRouterboot
  <1>3. run'.at \in {ROUTERBOOT_UPDATE, REBOOT_ROUTERBOOT}
    <2>1. CASE run' = [run EXCEPT !.skipRB = "yes", !.at = @ + 1]
      BY <1>1, <2>1 DEF Run
    <2>2. CASE run' = [run EXCEPT !.skipRB = "no"]
      BY <1>1, <2>2 DEF Run
    <2> QED
      BY <1>2, <2>1, <2>2
  <1> QED
    BY <1>1, <1>3 DEF Placed, Entered, RestorePoints, Restoring, Skippable

LEMMA EnterPlaced == ASSUME Known, Placed, EnterStage PROVE Placed'
  <1>1. Stop \/ (job' = [job EXCEPT !.stage = run.at] /\ pc' = "step" /\ run' = run)
    BY DEF EnterStage, Goto
  <1>2. job \in Job
    BY DEF Known, Inv, ProcessTypeOK
  <1>3. CASE Stop
    BY <1>3, PlacedLeft DEF Stop
  <1>4. CASE job' = [job EXCEPT !.stage = run.at] /\ pc' = "step" /\ run' = run
    <2>1. job'.stage = run.at
      BY <1>2, <1>4 DEF Job
    <2> QED
      BY <1>4, <2>1 DEF Placed, Entered, RestorePoints, Restoring
  <1> QED
    BY <1>1, <1>3, <1>4

LEMMA DiscoverPlaced == ASSUME Known, Placed, Discover PROVE Placed'
  <1>1. /\ pc = "refresh" \/ (pc = "step" /\ run.at = DISCOVER)
        /\ job' = [job EXCEPT !.facts = installed] /\ job \in Job /\ run \in Run
    BY DEF Discover, At, Known, Inv, ProcessTypeOK
  <1>2. job'.stage = job.stage
    BY <1>1 DEF Job
  <1>3. CASE pc' = "failing"
    BY <1>3, PlacedLeft
  <1>4. CASE pc = "refresh" /\ pc' = "loop" /\ run' = run
    BY <1>2, <1>4 DEF Placed, Entered, RestorePoints, Restoring
  <1>5. CASE run.at = DISCOVER /\ pc = "step" /\ pc' = "loop"
             /\ run' = [run EXCEPT !.at = @ + 1]
    <2>1. run'.at = PREFLIGHT /\ job.stage = DISCOVER
      BY <1>1, <1>5 DEF Run, Placed, Entered
    <2> QED
      BY <1>2, <1>5, <2>1 DEF Placed, Entered, RestorePoints, Restoring
  <1> QED
    BY <1>1, <1>3, <1>4, <1>5 DEF Discover, NextStage, Goto

\* The steps within a stage, and those into a restore and through it.
LEMMA WithinPlaced ==
    ASSUME Known, Placed, pc' # "loop", pc' # "failing",
           \/ StagePackages \/ KeepBaseline \/ InventBaseline \/ FillBaseline
           \/ Reconnect \/ ReconnectTimeout \/ ValidationFails
           \/ RestoreBegins \/ RestoreReboot \/ RestoreReconnect \/ RestoreCopy
           \/ RestoreFill \/ RestoreCheck
           \/ \E p \in Package : UploadFile(p) \/ RestoreUpload(p)
    PROVE  Placed'
  <1>1. run \in Run
    BY DEF Known, Inv, ProcessTypeOK
  <1>2. pc \in Entered /\ UNCHANGED job
    BY DEF StagePackages, KeepBaseline, InventBaseline, FillBaseline, Reconnect,
       ReconnectTimeout, ValidationFails, RestoreBegins, RestoreReboot, RestoreReconnect,
       RestoreCopy, RestoreFill, RestoreCheck, UploadFile, RestoreUpload, At, Checking,
       Entered, RestorePoints, Restoring
  <1>3. run'.at = run.at
    BY <1>1 DEF StagePackages, KeepBaseline, InventBaseline, FillBaseline, Reconnect,
       ReconnectTimeout, ValidationFails, RestoreBegins, RestoreReboot, RestoreReconnect,
       RestoreCopy, RestoreFill, RestoreCheck, UploadFile, RestoreUpload, NextStage, Goto, Run
  <1>4. \/ pc' \in Entered \ RestorePoints
        \/ pc' \in RestorePoints
             /\ \/ pc \in RestorePoints
                \/ run.at \in {VALIDATE_ROLE, VALIDATE_ROLE_AFTER_ROUTERBOOT}
    BY DEF StagePackages, KeepBaseline, InventBaseline, FillBaseline, Reconnect,
       ReconnectTimeout, ValidationFails, RestoreBegins, RestoreReboot, RestoreReconnect,
       RestoreCopy, RestoreFill, RestoreCheck, UploadFile, RestoreUpload, NextStage, Goto,
       At, Checking, Entered, RestorePoints, Restoring, Known, Inv, Control
  <1> QED
    BY <1>2, <1>3, <1>4, PlacedWithin DEF Placed

LEMMA StartPlaced ==
    ASSUME Known, NEW v \in Release, NEW named, NEW resume \in BOOLEAN,
           StartUpgrade(v, named, resume)
    PROVE  Placed'
  <1>1. /\ pc' \in {"refresh", "loop"} /\ job'.stage \in DISCOVER..COMPLETE
        /\ run'.at = StartIndex(job'.stage, resume)
        /\ pc' = "refresh" <=> run'.at \in PREFLIGHT..STAGE_PACKAGES
        /\ run'.needsValidate = (resume /\ job'.stage \in DISCOVER + 1..COMPLETE - 1)
        /\ job'.stage # DISCOVER => resume
    BY StartedAt DEF Job
  <1>2. /\ run'.at < REBOOT => job'.stage < REBOOT /\ job'.stage = run'.at
        /\ run'.at \in Skippable => run'.needsValidate
    BY <1>1 DEF StartIndex, Skippable
  <1>3. /\ pc' \notin Entered /\ pc' \notin RestorePoints
        /\ pc' = "refresh" => run'.needsValidate /\ run'.at < REBOOT
    BY <1>1, <1>2 DEF Entered, RestorePoints, Restoring, Skippable
  <1> QED
    BY <1>2, <1>3 DEF Placed

LEMMA NextPlaced == ASSUME Known, Placed, [Next]_vars PROVE Placed'
  <1>1. CASE StartCommand
    <2>1. ASSUME NEW v \in Release, NEW named \in BOOLEAN, NEW resume \in BOOLEAN,
                 BlockedByDependency(v, named, resume) \/ StartRollback(v)
          PROVE  Placed'
      BY <2>1, PlacedLeft DEF BlockedByDependency, StartRollback, Goto, RollbackPC
    <2> QED
      BY <1>1, <2>1, StartPlaced DEF StartCommand
  <1>2. CASE UpgradeStep
    <2>1. CASE pc' = "failing"
      BY <2>1, PlacedLeft
    <2>2. CASE pc' # "failing" /\ (SkipStage \/ DecideRouterboot \/ EnterStage \/ Discover)
      BY <2>2, SkipPlaced, DecidePlaced, EnterPlaced, DiscoverPlaced
    <2>3. CASE pc' # "failing" /\ ~(SkipStage \/ DecideRouterboot \/ EnterStage \/ Discover)
      <3>1. CASE pc' = "loop"
        <4>1. LoopsBack
          BY <1>2, <2>3, <3>1 DEF UpgradeStep, LoopsBack, RestoreUpload, Backup, StagePackages,
             KeepBaseline, InventBaseline, FillBaseline, NoBaseline, ReconnectTimeout,
             ValidationFails, RestoreBegins, NothingToRestore, RestoreReboot,
             RestoreReconnect, RestoreCopy, RestoreFill, RestoreCheck, RestoreSave, Complete,
             PushAudit, Settle, Lament, RemoteFailure, Unconfirmed, LocalFailure,
             CompleteFailure, MarkFailed, Goto, Stop
        <4> QED
          BY <3>1, <4>1, LoopsBackPlaced
      <3>2. CASE pc' # "loop"
        <4>1. CASE \/ Complete \/ PushAudit \/ Settle \/ Lament \/ RemoteFailure
                   \/ Unconfirmed \/ LocalFailure \/ CompleteFailure \/ MarkFailed
                   \/ RestoreSave \/ NoBaseline \/ NothingToRestore
          BY <4>1, PlacedLeft DEF Complete, PushAudit, Settle, Lament, RemoteFailure,
             Unconfirmed, LocalFailure, CompleteFailure, MarkFailed, RestoreSave, NoBaseline,
             NothingToRestore, Goto, Stop
        <4>2. CASE \/ Preflight \/ Backup \/ AlreadyBackedUp \/ RebootDevice
                   \/ UpgradeRouterboot \/ ValidationPasses
          BY <2>3, <3>2, <4>2 DEF Preflight, Backup, AlreadyBackedUp, RebootDevice,
             UpgradeRouterboot, ValidationPasses, NextStage, Goto
        <4> QED
          BY <1>2, <2>3, <3>2, <4>1, <4>2, WithinPlaced DEF UpgradeStep
      <3> QED
        BY <3>1, <3>2
    <2> QED
      BY <2>1, <2>2, <2>3
  <1>3. CASE RollbackStep
    BY <1>3, PlacedLeft DEF RollbackStep, RollbackUpload, RollbackMark, RollbackReboot,
       RollbackReconnect, RollbackVerified, RollbackMismatch, RollbackPush,
       RollbackPushFails, RollbackSettle, RollbackFails, Goto, Stop, RollbackPC
  <1>4. CASE VerifySnapshot \/ VerifyFill \/ Crash \/ Hang \/ Interrupt
    BY <1>4, PlacedLeft DEF VerifySnapshot, VerifyFill, Crash, Hang, Interrupt, Goto, Stop
  <1>5. CASE \/ DiscoverCommand \/ Deadline \/ UNCHANGED vars
             \/ EnvironmentStep /\ UNCHANGED <<durable, process>>
    <2>1. UNCHANGED <<pc, job, run>>
      BY <1>5 DEF DiscoverCommand, Deadline, vars, process
    <2> QED
      BY <2>1 DEF Placed, OnTarget, AlreadyOnRelease
  <1> QED
    BY <1>1, <1>2, <1>3, <1>4, <1>5 DEF Next, ProcessStep

(***************************************************************************)
(* What is known of the device while the role was healthy when the job was *)
(* new.                                                                    *)
(***************************************************************************)
Untouched == phase = "up" /\ role

\* Job j has reached its stage on the way to v without losing the role out of
\* sight: nothing has touched the device yet, or a baseline of the healthy
\* device is there to be checked against.
Sound(j, v) ==
    /\ baseline[v] # "broken"
    /\ j.stage < REBOOT \/ j.stage = COMPLETE => Untouched
    /\ j.stage \in {REBOOT_ROUTERBOOT, VALIDATE_ROLE_AFTER_ROUTERBOOT} => Readable(v)
    /\ ~Readable(v) => /\ Untouched
                       /\ j.stage # DISCOVER => j.facts = installed
                       /\ j.stage >= WAIT_FOR_RECONNECT => AlreadyOnRelease(installed, v)

\* The job file, for the run that will resume it.
FileSound == Unfinished => Sound(disk, disk.release)

\* The same of the stage that the loop is about to enter or to skip.
Ahead ==
    /\ run.at # DISCOVER /\ ~Readable(run.version) => job.facts = installed
    /\ run.at >= WAIT_FOR_RECONNECT /\ ~Readable(run.version)
         => AlreadyOnRelease(installed, run.version)
    /\ run.at = ROUTERBOOT_UPDATE => Untouched
    /\ run.at \in {REBOOT_ROUTERBOOT, VALIDATE_ROLE_AFTER_ROUTERBOOT}
         => IF run.skipRB = "yes" THEN Untouched ELSE Readable(run.version)

RunSound ==
    /\ pc \notin RollbackPC
    /\ pc \in UpgradePC => Sound(job, run.version)
    /\ pc \in UpgradePC /\ Closing => Untouched
    /\ pc = "loop" => Ahead
    /\ pc \in {"snapshot", "restoreFill"} => run.captured = "healthy"
    /\ pc \in {"command"} \cup Restoring => Readable(run.version)
    /\ pc = "restoreCheck" => baseline[Previous] = "healthy"
    /\ pc = "restoreSave" => Untouched

Clean == FileSound /\ RunSound

Green == before => Clean

Ground == Known /\ Placed /\ Rested

\* Nothing that Sound looks at changes.
Still == UNCHANGED <<installed, phase, role, baseline>>

LEMMA FileStill == ASSUME FileSound, Still, UNCHANGED disk PROVE FileSound'
  BY DEF FileSound, Unfinished, Sound, Untouched, Readable, AlreadyOnRelease, Still

LEMMA FileWritten ==
    ASSUME FileSound, Still, NEW j \in Job, NEW v \in Release, disk' \in {disk, j},
           j.status = "complete" \/ (j.release = v /\ Sound(j, v))
    PROVE  FileSound'
  BY DEF FileSound, Unfinished, Sound, Untouched, Readable, AlreadyOnRelease, Still

LEMMA RunStill ==
    ASSUME Sound(job, run.version), Still, UNCHANGED job, run'.version = run.version
    PROVE  Sound(job, run.version)'
  BY DEF Sound, Untouched, Readable, AlreadyOnRelease, Still

\* A command that is over, or takes a baseline, claims nothing but its file.
LEMMA IdleClean == ASSUME pc' \in {"idle", "verifyFill", "hung"}, FileSound' PROVE Clean'
  BY DEF Clean, RunSound, UpgradePC, RollbackPC, Restoring

LEMMA FailingClean ==
    ASSUME pc' = "failing", FileSound', Sound(job, run.version)' PROVE Clean'
  BY DEF Clean, RunSound, Closing, RollbackPC, Restoring

LEMMA ClosingClean ==
    ASSUME pc' \in {"push", "settle", "lament"}, FileSound', Sound(job, run.version)',
           Untouched'
    PROVE  Clean'
  BY DEF Clean, RunSound, RollbackPC, Restoring

\* The points within a stage before a restore.
LEMMA WithinClean ==
    ASSUME pc' \in {"step", "upload", "command", "check", "restore"}, FileSound',
           Sound(job, run.version)', Closing' => Untouched',
           pc' = "command" => Readable(run.version)'
    PROVE  Clean'
  BY DEF Clean, RunSound, RollbackPC, Restoring

LEMMA LoopClean ==
    ASSUME pc' = "loop", FileSound', Sound(job, run.version)', Ahead',
           run'.at = COMPLETE => Untouched'
    PROVE  Clean'
  BY DEF Clean, RunSound, Closing, RollbackPC, Restoring

\* A check against a baseline that does not hold a broken role.
LEMMA PassUntouched ==
    ASSUME Known, Connected, NEW r \in Release, NEW upgrading, CheckPasses(r, upgrading),
           baseline[r] # "broken"
    PROVE  Untouched
  <1>1. phase = "up"
    BY DEF Known, Inv, World, EnvironmentTypeOK, Truthful, FileSettled, Connected, Answering
  <1>2. baseline[r] = "healthy" /\ role
    BY DEF CheckPasses, RoleMatches, Readable, Captured
  <1> QED
    BY <1>1, <1>2 DEF Untouched

(***************************************************************************)
(* The stage loop.                                                         *)
(***************************************************************************)
LEMMA SkipClean == ASSUME Ground, Clean, SkipStage PROVE Clean'
  <1>1. /\ pc = "loop" /\ pc' = "loop" /\ run' = [run EXCEPT !.at = @ + 1] /\ run \in Run
        /\ job' = job /\ disk' = disk /\ Still
    BY DEF SkipStage, NextStage, Goto, Ground, Known, Inv, ProcessTypeOK, Still,
       environment, router, durable
  <1>2. /\ run'.at = run.at + 1 /\ run'.version = run.version /\ run'.skipRB = run.skipRB
        /\ run.at \in DISCOVER..COMPLETE
    BY <1>1 DEF Run
  <1>3. Sound(job, run.version) /\ Ahead /\ FileSound
    BY <1>1 DEF Clean, RunSound, UpgradePC
  <1>4. \/ /\ run.at \in PREFLIGHT..VALIDATE_ROLE /\ OnTarget
           /\ run.at = VALIDATE_ROLE => ~run.needsValidate
        \/ run.at \in {REBOOT_ROUTERBOOT, VALIDATE_ROLE_AFTER_ROUTERBOOT} /\ run.skipRB = "yes"
    BY <1>2 DEF SkipStage, SkipBecauseCurrent, RouterbootStages
  <1>5. run.at = VALIDATE_ROLE => Untouched
    BY <1>1, <1>3, <1>4 DEF Ground, Placed, Skippable, Sound
  <1>6. run.at = REBOOT /\ ~Readable(run.version) => AlreadyOnRelease(installed, run.version)
    BY <1>3, <1>4 DEF Ahead, OnTarget
  <1>7. Ahead'
    BY <1>1, <1>2, <1>3, <1>4, <1>5, <1>6
       DEF Ahead, Untouched, Readable, AlreadyOnRelease, Still
  <1>8. run'.at = COMPLETE => Untouched'
    BY <1>1, <1>2, <1>3, <1>4 DEF Ahead, Untouched, Still
  <1> QED
    BY <1>1, <1>2, <1>3, <1>7, <1>8, FileStill, RunStill, LoopClean

LEMMA DecideClean == ASSUME Ground, Clean, DecideRouterboot PROVE Clean'
  <1>1. /\ pc = "loop" /\ pc' = "loop" /\ run.at = ROUTERBOOT_UPDATE /\ run \in Run
        /\ job' = job /\ disk' = disk /\ Still
    BY DEF DecideRouterboot, Goto, Ground, Known, Inv, ProcessTypeOK, Still,
       environment, router, durable
  <1>2. \/ run' = [run EXCEPT !.skipRB = "yes", !.at = @ + 1]
        \/ run' = [run EXCEPT !.skipRB = "no"]
    BY DEF DecideRouterboot
  <1>3. /\ run'.version = run.version
        /\ \/ run'.at = ROUTERBOOT_UPDATE
           \/ run'.at = REBOOT_ROUTERBOOT /\ run'.skipRB = "yes"
    <2>1. CASE run' = [run EXCEPT !.skipRB = "yes", !.at = @ + 1]
      BY <1>1, <2>1 DEF Run
    <2>2. CASE run' = [run EXCEPT !.skipRB = "no"]
      BY <1>1, <2>2 DEF Run
    <2> QED
      BY <1>2, <2>1, <2>2
  <1>4. Sound(job, run.version) /\ Ahead /\ FileSound
    BY <1>1 DEF Clean, RunSound, UpgradePC
  <1>5. Ahead'
    BY <1>1, <1>3, <1>4 DEF Ahead, Untouched, Readable, AlreadyOnRelease, Still
  <1> QED
    BY <1>1, <1>3, <1>4, <1>5, FileStill, RunStill, LoopClean

\* What a run that saves its job in progress has on disk, whether or not it is saved.
LEMMA ProgressClean ==
    ASSUME Ground, Clean, pc \in Running \cap UpgradePC, NEW j \in Job,
           Saved(j) \/ SaveError(j), Still, j.release = run.version, Sound(j, run.version)
    PROVE  FileSound'
  <1>1. run.version \in Release
    BY PCs DEF Ground, Known, Inv, Control
  <1>2. disk' \in {disk, j}
    BY DEF Saved, SaveError
  <1> QED
    BY <1>1, <1>2, FileWritten DEF Clean

LEMMA EnterClean == ASSUME Ground, Clean, EnterStage PROVE Clean'
  <1> DEFINE j == [job EXCEPT !.stage = run.at]
  <1>1. pc = "loop" /\ (Saved(j) \/ SaveError(j)) /\ Still /\ job \in Job /\ run \in Run
    BY DEF EnterStage, Still, Ground, Known, Inv, ProcessTypeOK, router
  <1>2. Sound(job, run.version) /\ Ahead /\ pc \in Running \cap UpgradePC
        /\ OwnedBy(job, run.version)
    BY <1>1 DEF Ground, Known, Coherent, Clean, RunSound, Running, UpgradePC
  <1>3. j \in Job /\ j.stage = run.at /\ j.facts = job.facts /\ j.release = run.version
    BY <1>1, <1>2 DEF Job, Run, OwnedBy
  <1>4. Stop \/ (job' = j /\ pc' = "step" /\ run' = run)
    BY DEF EnterStage, Goto
  <1>5. run.at = COMPLETE => Untouched
    BY <1>1 DEF Clean, RunSound, Closing, UpgradePC
  <1>6. run.at < REBOOT => Untouched
    BY <1>1, <1>2 DEF Ground, Placed, Sound
  <1>7. run.at \in {REBOOT_ROUTERBOOT, VALIDATE_ROLE_AFTER_ROUTERBOOT}
          => Readable(run.version)
    BY <1>2 DEF EnterStage, RouterbootStages, Ahead
  <1> HIDE DEF j
  <1>8. Sound(j, run.version)
    BY <1>2, <1>3, <1>5, <1>6, <1>7 DEF Sound, Ahead
  <1>9. FileSound'
    BY <1>1, <1>2, <1>3, <1>8, ProgressClean
  <1>10. CASE Stop
    BY <1>9, <1>10, IdleClean DEF Stop
  <1>11. CASE job' = j /\ pc' = "step" /\ run' = run
    <2>1. Sound(job, run.version)'
      BY <1>1, <1>8, <1>11 DEF Sound, Untouched, Readable, AlreadyOnRelease, Still
    <2>2. Closing' => Untouched'
      BY <1>1, <1>5, <1>11 DEF Closing, Untouched, Still
    <2> QED
      BY <1>9, <1>11, <2>1, <2>2, WithinClean
  <1> QED
    BY <1>4, <1>10, <1>11

(***************************************************************************)
(* The bodies of the stages.                                               *)
(***************************************************************************)
LEMMA DiscoverClean == ASSUME Ground, Clean, Discover PROVE Clean'
  <1> DEFINE j == [job EXCEPT !.facts = installed]
  <1>1. /\ pc = "refresh" \/ (pc = "step" /\ run.at = DISCOVER)
        /\ job' = j /\ (Saved(j) \/ SaveError(j)) /\ Still
    BY DEF Discover, At, Still, router
  <1>2. job \in Job /\ run \in Run /\ installed \in Facts
    BY DEF Ground, Known, Inv, World, EnvironmentTypeOK, ProcessTypeOK
  <1>3. Sound(job, run.version) /\ pc \in Running \cap UpgradePC /\ OwnedBy(job, run.version)
    BY <1>1 DEF Ground, Known, Coherent, Clean, RunSound, Running, UpgradePC
  <1>4. j \in Job /\ j.stage = job.stage /\ j.facts = installed /\ j.release = run.version
    BY <1>2, <1>3 DEF Job, OwnedBy
  <1>5. \/ pc' = "failing" /\ run' = run
        \/ /\ pc' = "loop"
           /\ \/ pc = "refresh" /\ run' = run
              \/ run.at = DISCOVER /\ run' = [run EXCEPT !.at = @ + 1]
    BY <1>1 DEF Discover, NextStage, Goto
  <1> HIDE DEF j
  <1>6. Sound(j, run.version)
    BY <1>3, <1>4 DEF Sound
  <1>7. FileSound'
    BY <1>1, <1>3, <1>4, <1>6, ProgressClean
  <1>8. run'.version = run.version
    BY <1>2, <1>5 DEF Run
  <1>9. Sound(job, run.version)'
    BY <1>1, <1>6, <1>8 DEF Sound, Untouched, Readable, AlreadyOnRelease, Still
  <1>10. CASE pc' = "failing"
    BY <1>7, <1>9, <1>10, FailingClean
  <1>11. CASE pc' = "loop"
    <2>1. run'.at \in PREFLIGHT..STAGE_PACKAGES
      BY <1>2, <1>5, <1>11 DEF Run, Ground, Known, Truthful, RunSettled
    <2>2. Ahead'
      BY <1>1, <1>4, <2>1 DEF Ahead, Still
    <2> QED
      BY <1>7, <1>9, <1>11, <2>1, <2>2, LoopClean
  <1> QED
    BY <1>5, <1>10, <1>11

LEMMA LoopsBackClean ==
    ASSUME Ground, Clean, LoopsBack, ~RebootDevice, pc' = "loop" PROVE Clean'
  <1>1. /\ pc \in {"step", "upload", "command", "check"}
        /\ run.at \in PREFLIGHT..VALIDATE_ROLE_AFTER_ROUTERBOOT
        /\ UNCHANGED <<job, disk, baseline>>
        /\ run'.at = run.at + 1 /\ run'.version = run.version /\ run'.skipRB = run.skipRB
    BY BodyEnds DEF Ground
  <1>2. Still
    BY <1>1 DEF LoopsBack, Preflight, Backup, AlreadyBackedUp, UploadFile, Upload,
       UpgradeRouterboot, ArmFirmware, Reconnect, ValidationPasses, Still, environment, router
  <1>3. Sound(job, run.version) /\ FileSound /\ job.stage = run.at /\ run.version \in Release
    BY <1>1 DEF Clean, RunSound, UpgradePC, Ground, Placed, Entered, Known, Inv, Control
  <1>4. /\ run.at \notin {REBOOT, REBOOT_ROUTERBOOT}
        /\ run.at \in {VALIDATE_ROLE, VALIDATE_ROLE_AFTER_ROUTERBOOT} => ValidationPasses
        /\ run.at = ROUTERBOOT_UPDATE => pc = "command"
    BY <1>1 DEF LoopsBack, Preflight, Backup, AlreadyBackedUp, UploadFile,
       UpgradeRouterboot, Reconnect, ValidationPasses, At, Checking, Goto, Ground, Known, Inv,
       Control
  <1>5. ValidationPasses => Untouched
    BY <1>3, PassUntouched DEF ValidationPasses, Sound, Ground
  <1>6. run.at = ROUTERBOOT_UPDATE => Readable(run.version) /\ run.skipRB # "yes"
    BY <1>4 DEF Clean, RunSound, Ground, Known, Truthful, Needed, RouterbootStages
  <1>7. Ahead'
    BY <1>1, <1>2, <1>3, <1>4, <1>5, <1>6
       DEF Ahead, Sound, Untouched, Readable, AlreadyOnRelease, Still
  <1>8. run'.at = COMPLETE => Untouched'
    BY <1>1, <1>2, <1>4, <1>5 DEF Untouched, Still
  <1> QED
    BY <1>1, <1>2, <1>3, <1>7, <1>8, FileStill, RunStill, LoopClean

\* A reboot takes the device down, but not its baseline.
LEMMA RebootSound ==
    ASSUME Ground, Clean, Reboot, UNCHANGED <<disk, job, baseline>>,
           pc \in UpgradePC \ {"failing", "lament"}, run'.version = run.version,
           job.stage \in REBOOT..VALIDATE_ROLE_AFTER_ROUTERBOOT, Readable(run.version)
    PROVE  FileSound' /\ Sound(job, run.version)' /\ Readable(run.version)'
  <1>1. Sound(job, run.version) /\ disk = job /\ job.release = run.version
    BY PCs DEF Clean, RunSound, Ground, Known, Trail, JobOnDisk, Coherent, OwnedBy, Running
  <1>2. Readable(run.version)' /\ job'.stage \in REBOOT..VALIDATE_ROLE_AFTER_ROUTERBOOT
    BY DEF Readable
  <1>3. Sound(job, run.version)'
    BY <1>1, <1>2 DEF Sound
  <1>4. FileSound'
    BY <1>1, <1>2 DEF FileSound, Sound, Readable
  <1> QED
    BY <1>2, <1>3, <1>4

LEMMA RebootClean == ASSUME Ground, Clean, RebootDevice PROVE Clean'
  <1>1. /\ \/ pc = "command" /\ run.at = REBOOT
           \/ pc = "step" /\ run.at = REBOOT_ROUTERBOOT
        /\ pc' = "loop" /\ Reboot
    BY DEF RebootDevice, At, NextStage, Goto
  <1>2. /\ UNCHANGED <<job, disk, baseline>> /\ run'.at = run.at + 1
        /\ run'.version = run.version /\ run'.skipRB = run.skipRB
    BY <1>1, BodyEnds DEF LoopsBack, Ground
  <1>3. job.stage = run.at /\ Sound(job, run.version) /\ pc \in UpgradePC \ {"failing", "lament"}
    BY <1>1 DEF Ground, Placed, Entered, Clean, RunSound, UpgradePC
  <1>4. Readable(run.version)
    BY <1>1, <1>3 DEF Clean, RunSound, Sound
  <1>5. FileSound' /\ Sound(job, run.version)' /\ Readable(run.version)'
    BY <1>1, <1>2, <1>3, <1>4, RebootSound
  <1>6. run.at = REBOOT_ROUTERBOOT => run.skipRB # "yes"
    BY <1>1 DEF Ground, Known, Truthful, Needed, RouterbootStages
  <1>7. Ahead'
    BY <1>1, <1>2, <1>5, <1>6 DEF Ahead
  <1> QED
    BY <1>1, <1>2, <1>5, <1>7, LoopClean

LEMMA InsideClean ==
    ASSUME Ground, Clean, pc' # "loop",
           \/ StagePackages \/ KeepBaseline \/ Reconnect \/ ReconnectTimeout
           \/ ValidationFails \/ \E p \in Package : UploadFile(p)
    PROVE  Clean'
  <1>1. /\ pc \in {"step", "upload", "check"} /\ UNCHANGED <<job, disk>> /\ Still
        /\ pc' \in {"upload", "command", "check", "restore"}
        /\ pc' = "command" => KeepBaseline
    BY DEF StagePackages, KeepBaseline, Reconnect, ReconnectTimeout, ValidationFails,
       UploadFile, Upload, At, Checking, Goto, NextStage, Still, environment, router, durable
  <1>2. run'.version = run.version
    BY DEF StagePackages, KeepBaseline, Reconnect, ReconnectTimeout, ValidationFails,
       UploadFile, NextStage, Goto, Ground, Known, Inv, ProcessTypeOK, Run
  <1>3. Sound(job, run.version) /\ FileSound
    BY <1>1 DEF Clean, RunSound, UpgradePC
  <1>4. pc' = "command" => Readable(run.version)'
    BY <1>1, <1>2 DEF KeepBaseline, Readable, Still
  <1>5. ~Closing'
    BY <1>1 DEF Closing
  <1> QED
    BY <1>1, <1>2, <1>3, <1>4, <1>5, FileStill, RunStill, WithinClean

\* The baseline that a run makes up is that of an untouched device.
LEMMA SnapshotClean ==
    ASSUME Ground, Clean, InventBaseline \/ FillBaseline PROVE Clean'
  <1>1. /\ pc \in {"step", "snapshot"} /\ UNCHANGED <<job, disk, installed, phase, role>>
        /\ run \in Run /\ baseline \in [Release -> BaselineFile]
    BY DEF InventBaseline, FillBaseline, At, environment, router, Ground, Known, Inv, World,
       DurableTypeOK, ProcessTypeOK
  <1>2. /\ Sound(job, run.version) /\ disk = job /\ job.release = run.version
        /\ run.version \in Release
    BY <1>1, PCs DEF Clean, RunSound, UpgradePC, RollbackPC, Running, Ground, Known, Inv,
       Control, Trail, JobOnDisk, Coherent, OwnedBy
  <1>3. run'.version = run.version
    BY <1>1 DEF InventBaseline, FillBaseline, Run
  <1>4. CASE InventBaseline
    <2>1. pc' = "snapshot" /\ baseline[run.version] = "missing"
          /\ baseline' = [baseline EXCEPT ![run.version] = "torn"]
      BY <1>4 DEF InventBaseline, Truncate, Goto
    <2>2. ~Readable(run.version) /\ baseline'[run.version] = "torn"
      BY <1>1, <1>2, <2>1 DEF Readable, Captured
    <2>3. run'.captured = "healthy"
      BY <1>1, <1>2, <1>4, <2>2 DEF InventBaseline, RoleFacts, Sound, Untouched, Run
    <2>4. Sound(job, run.version)' /\ FileSound'
      BY <1>1, <1>2, <1>3, <2>2
         DEF Sound, FileSound, Untouched, Readable, Captured, AlreadyOnRelease
    <2> QED
      BY <2>1, <2>3, <2>4 DEF Clean, RunSound, Closing, RollbackPC, Restoring
  <1>5. CASE FillBaseline
    <2>1. pc' = "command" /\ baseline' = [baseline EXCEPT ![run.version] = "healthy"]
      BY <1>5 DEF FillBaseline, Fill, Goto, Clean, RunSound
    <2>2. baseline'[run.version] = "healthy"
      BY <1>1, <1>2, <2>1
    <2>3. Sound(job, run.version)' /\ FileSound' /\ Readable(run.version)'
      BY <1>1, <1>2, <1>3, <2>2 DEF Sound, FileSound, Untouched, Readable, Captured
    <2> QED
      BY <2>1, <2>3, WithinClean DEF Closing
  <1> QED
    BY <1>4, <1>5

(***************************************************************************)
(* The guarded restore.                                                    *)
(***************************************************************************)

\* A restore starts only with a baseline: without one nothing was installed.
LEMMA RestoreBeginsClean == ASSUME Ground, Clean, RestoreBegins PROVE Clean'
  <1>1. /\ pc = "restore" /\ pc' = "restoreUpload" /\ UNCHANGED <<job, disk>> /\ Still
        /\ run.at \in {VALIDATE_ROLE, VALIDATE_ROLE_AFTER_ROUTERBOOT} /\ job.stage = run.at
    BY DEF RestoreBegins, Goto, Still, environment, router, durable, Ground, Placed, Entered,
       RestorePoints
  <1>2. run'.version = run.version
    BY DEF RestoreBegins, Ground, Known, Inv, ProcessTypeOK, Run
  <1>3. Sound(job, run.version) /\ FileSound
    BY <1>1 DEF Clean, RunSound, UpgradePC
  <1>4. Readable(run.version)
    <2>1. ASSUME ~Readable(run.version) PROVE FALSE
      <3>1. job.facts = installed /\ AlreadyOnRelease(installed, run.version)
        BY <1>1, <1>3, <2>1 DEF Sound
      <3> QED
        BY <3>1 DEF RestoreBegins, Previous, AlreadyOnRelease
    <2> QED
      BY <2>1
  <1>5. Readable(run.version)'
    BY <1>1, <1>2, <1>4 DEF Readable, Still
  <1>6. FileSound' /\ Sound(job, run.version)'
    BY <1>1, <1>2, <1>3, FileStill, RunStill
  <1> QED
    BY <1>1, <1>5, <1>6 DEF Clean, RunSound, Closing, RollbackPC

LEMMA RestoreOnClean ==
    ASSUME Ground, Clean,
           \/ RestoreReconnect \/ RestoreCheck \/ NothingToRestore
           \/ \E p \in Package : RestoreUpload(p)
    PROVE  Clean'
  <1>1. /\ pc \in RestorePoints /\ UNCHANGED <<job, disk>> /\ Still
        /\ pc' \in {"restoreUpload", "restoreReboot", "restoreCopy", "restoreSave", "failing"}
        /\ pc = "restore" => pc' = "failing"
    BY DEF RestoreReconnect, RestoreCheck, NothingToRestore, RestoreUpload, Upload, Goto, Still,
       environment, router, durable, RestorePoints, Restoring
  <1>2. run'.version = run.version
    BY DEF RestoreReconnect, RestoreCheck, NothingToRestore, RestoreUpload, Ground, Known, Inv,
       ProcessTypeOK, Run
  <1>3. Sound(job, run.version) /\ FileSound
    BY <1>1 DEF Clean, RunSound, UpgradePC, RestorePoints, Restoring
  <1>4. FileSound' /\ Sound(job, run.version)'
    BY <1>1, <1>2, <1>3, FileStill, RunStill
  <1>5. CASE pc' = "failing"
    BY <1>4, <1>5, FailingClean
  <1>6. CASE pc' # "failing"
    <2>1. Readable(run.version)'
      BY <1>1, <1>2, <1>6 DEF Clean, RunSound, RestorePoints, Readable, Still
    <2>2. pc' = "restoreSave" => Untouched'
      <3>1. ASSUME pc' = "restoreSave" PROVE Untouched
        <4>1. RestoreCheck /\ CheckPasses(Previous, FALSE)
          BY <3>1 DEF RestoreReconnect, RestoreCheck, NothingToRestore, RestoreUpload, Goto
        <4>2. baseline[Previous] = "healthy" /\ Previous \in Release
          BY <4>1, PreviousTyped DEF RestoreCheck, Clean, RunSound, Ground, Known, Inv,
             ProcessTypeOK, Control, Restoring
        <4> QED
          BY <4>1, <4>2, PassUntouched DEF RestoreCheck, Ground
      <3> QED
        BY <1>1, <3>1 DEF Untouched, Still
    <2> QED
      BY <1>1, <1>4, <1>6, <2>1, <2>2 DEF Clean, RunSound, Closing, RollbackPC
  <1> QED
    BY <1>5, <1>6

LEMMA RestoreRebootClean == ASSUME Ground, Clean, RestoreReboot PROVE Clean'
  <1>1. /\ pc = "restoreReboot" /\ pc' = "restoreWait" /\ Reboot
        /\ UNCHANGED <<job, disk, baseline, run>>
    BY DEF RestoreReboot, Goto, durable
  <1>2. /\ job.stage \in {VALIDATE_ROLE, VALIDATE_ROLE_AFTER_ROUTERBOOT}
        /\ Readable(run.version) /\ pc \in UpgradePC \ {"failing", "lament"}
    BY <1>1 DEF Ground, Placed, Entered, RestorePoints, Restoring, Clean, RunSound, UpgradePC
  <1>3. FileSound' /\ Sound(job, run.version)' /\ Readable(run.version)'
    BY <1>1, <1>2, RebootSound
  <1> QED
    BY <1>1, <1>3 DEF Clean, RunSound, Closing, RollbackPC

\* The baseline of the previous release is the one taken before the upgrade.
LEMMA RestoreCopyClean ==
    ASSUME Ground, Clean, RestoreCopy \/ RestoreFill PROVE Clean'
  <1>1. /\ pc \in {"restoreCopy", "restoreFill"}
        /\ UNCHANGED <<job, disk, installed, phase, role>>
        /\ run \in Run /\ baseline \in [Release -> BaselineFile]
    BY DEF RestoreCopy, RestoreFill, environment, router, Ground, Known, Inv, World,
       DurableTypeOK, ProcessTypeOK
  <1>2. /\ Sound(job, run.version) /\ disk = job /\ job.release = run.version
        /\ run.version \in Release /\ Previous \in Release /\ Previous # run.version
        /\ Readable(run.version)
    BY <1>1, PCs, PreviousTyped DEF Clean, RunSound, UpgradePC, RollbackPC, Running, Restoring,
       Ground, Known, Inv, ProcessTypeOK, Control, Trail, JobOnDisk, Coherent, OwnedBy
  <1>3. run'.version = run.version /\ Previous' = Previous
    BY <1>1 DEF RestoreCopy, RestoreFill, Previous, Run
  <1>4. baseline'[run.version] = baseline[run.version]
    BY <1>1, <1>2 DEF RestoreCopy, RestoreFill, Truncate, Fill
  <1>5. Sound(job, run.version)' /\ FileSound' /\ Readable(run.version)'
    BY <1>1, <1>2, <1>3, <1>4 DEF Sound, FileSound, Untouched, Readable
  <1>6. CASE pc' = "failing"
    BY <1>5, <1>6, FailingClean
  <1>7. CASE RestoreCopy /\ pc' = "restoreFill"
    <2>1. run'.captured = "healthy"
      BY <1>1, <1>2, <1>7 DEF RestoreCopy, Readable, Captured, Sound, Run
    <2> QED
      BY <1>5, <1>7, <2>1 DEF Clean, RunSound, Closing, RollbackPC
  <1>8. CASE RestoreFill /\ pc' = "restoreCheck"
    <2>1. baseline' = [baseline EXCEPT ![Previous] = "healthy"]
      BY <1>8 DEF RestoreFill, Fill, Clean, RunSound
    <2>2. baseline'[Previous'] = "healthy"
      BY <1>1, <1>2, <1>3, <2>1
    <2> QED
      BY <1>5, <1>8, <2>2 DEF Clean, RunSound, Closing, RollbackPC
  <1> QED
    BY <1>2, <1>6, <1>7, <1>8 DEF RestoreCopy, RestoreFill, Goto

LEMMA RestoreSaveClean == ASSUME Ground, Clean, RestoreSave PROVE Clean'
  <1> DEFINE j == [job EXCEPT !.status = "complete", !.stage = COMPLETE,
                              !.release = Previous, !.abandoned = run.version]
  <1>1. pc = "restoreSave" /\ (Saved(j) \/ SaveError(j)) /\ Still
    BY DEF RestoreSave, Still, router
  <1>2. pc' = "idle" \/ (pc' = "failing" /\ job' = job /\ run' = run)
    BY DEF RestoreSave, Stop, Goto
  <1>3. job \in Job /\ run.version \in Release /\ Previous \in Release
    BY <1>1, PreviousTyped DEF Ground, Known, Inv, ProcessTypeOK, Control, Restoring
  <1>4. j \in Job /\ j.status = "complete"
    <2>1. j \in Job
      BY ONLY <1>3, RestoredJob
    <2> QED
      BY <1>3, <2>1 DEF Job
  <1>5. Sound(job, run.version) /\ FileSound
    BY <1>1 DEF Clean, RunSound, UpgradePC
  <1>6. disk' \in {disk, j}
    BY <1>1 DEF Saved, SaveError
  <1> HIDE DEF j
  <1>7. FileSound'
    BY <1>1, <1>3, <1>4, <1>5, <1>6, FileWritten
  <1> QED
    BY <1>1, <1>2, <1>5, <1>7, IdleClean, FailingClean, RunStill

(***************************************************************************)
(* COMPLETE and the errors.                                                *)
(***************************************************************************)
LEMMA CloseClean ==
    ASSUME Ground, Clean, Complete \/ CompleteFailure \/ PushAudit PROVE Clean'
  <1> DEFINE i == [job EXCEPT !.status = "in_progress"]
             j == [job EXCEPT !.status = "in_progress", !.stage = COMPLETE]
  <1>1. /\ \/ pc = "step" /\ run.at = COMPLETE
           \/ pc = "push"
        /\ pc' \in {"push", "settle", "lament"} /\ run' = run /\ Still
        /\ \/ disk' = disk /\ job' = job
           \/ job' = j /\ (Saved(j) \/ SaveError(j)) /\ pc = "step"
    BY DEF Complete, CompleteFailure, PushAudit, At, Goto, Still, environment, router, durable
  <1>2. job \in Job
    BY DEF Ground, Known, Inv, ProcessTypeOK
  <1>3. /\ Sound(job, run.version) /\ FileSound /\ Untouched
        /\ pc \in Running \cap UpgradePC /\ OwnedBy(job, run.version)
    BY <1>1 DEF Clean, RunSound, Closing, Ground, Known, Coherent, Running, UpgradePC
  <1>4. /\ i \in Job /\ i.stage = job.stage /\ i.facts = job.facts /\ i.release = run.version
    BY <1>2, <1>3 DEF Job, Status, OwnedBy
  <1>5. j = [i EXCEPT !.stage = COMPLETE]
    OBVIOUS
  <1> HIDE DEF i, j
  <1>6. j \in Job /\ j.stage = COMPLETE /\ j.facts = job.facts /\ j.release = run.version
    BY <1>4, <1>5 DEF Job
  <1>7. Untouched'
    BY <1>1, <1>3 DEF Untouched, Still
  <1>8. CASE disk' = disk /\ job' = job
    BY <1>1, <1>3, <1>7, <1>8, FileStill, RunStill, ClosingClean
  <1>9. CASE job' = j /\ (Saved(j) \/ SaveError(j)) /\ pc = "step"
    <2>1. job.stage = COMPLETE
      BY <1>1, <1>9 DEF Ground, Placed, Entered
    <2>2. Sound(j, run.version)
      BY <1>3, <1>6, <2>1 DEF Sound
    <2>3. FileSound'
      BY <1>1, <1>3, <1>6, <1>9, <2>2, ProgressClean
    <2>4. Sound(job, run.version)'
      BY <1>1, <1>9, <2>2 DEF Sound, Untouched, Readable, AlreadyOnRelease, Still
    <2> QED
      BY <1>1, <1>7, <2>3, <2>4, ClosingClean
  <1> QED
    BY <1>1, <1>8, <1>9

LEMMA SettleClean == ASSUME Ground, Clean, Settle \/ Lament PROVE Clean'
  <1> DEFINE j == [job EXCEPT !.status = "complete"]
  <1>1. /\ pc \in {"settle", "lament"} /\ Still
        /\ \/ pc' = "idle" /\ (disk' \in {disk, j} \/ disk' \in {disk, job})
           \/ pc' = "lament" /\ run' = run /\ job' = j /\ disk' \in {disk, j}
    BY DEF Settle, Lament, Saved, SaveError, Stop, Goto, Still, router
  <1>2. job \in Job /\ run.version \in Release
    BY <1>1 DEF Ground, Known, Inv, ProcessTypeOK, Control
  <1>3. Sound(job, run.version) /\ FileSound /\ Untouched /\ job.release = run.version
    BY <1>1 DEF Clean, RunSound, Closing, Ground, Known, Coherent, MayLament, OwnedBy, Running,
       UpgradePC, RollbackPC
  <1>4. /\ j \in Job /\ j.status = "complete" /\ j.stage = job.stage /\ j.facts = job.facts
    BY <1>2 DEF Job, Status
  <1> HIDE DEF j
  <1>5. FileSound'
    BY <1>1, <1>2, <1>3, <1>4, FileWritten
  <1>6. pc' = "lament" => Sound(job, run.version)'
    BY <1>1, <1>3, <1>4 DEF Sound, Untouched, Readable, AlreadyOnRelease, Still
  <1>7. Untouched'
    BY <1>1, <1>3 DEF Untouched, Still
  <1> QED
    BY <1>1, <1>5, <1>6, <1>7, IdleClean, ClosingClean

LEMMA MarkFailedClean == ASSUME Ground, Clean, MarkFailed PROVE Clean'
  <1> DEFINE j == [job EXCEPT !.status = "failed"]
  <1>1. pc = "failing" /\ pc' = "idle" /\ (Saved(j) \/ SaveError(j)) /\ Still
    BY DEF MarkFailed, Stop, Still, router
  <1>2. /\ job \in Job /\ run.version \in Release /\ job.release = run.version
        /\ Sound(job, run.version) /\ FileSound
    BY <1>1 DEF Ground, Known, Inv, ProcessTypeOK, Control, Coherent, MayFail, Clean, RunSound,
       UpgradePC
  <1>3. /\ j \in Job /\ j.release = run.version /\ j.stage = job.stage /\ j.facts = job.facts
    BY <1>2 DEF Job, Status
  <1>4. disk' \in {disk, j}
    BY <1>1 DEF Saved, SaveError
  <1> HIDE DEF j
  <1>5. Sound(j, run.version)
    BY <1>2, <1>3 DEF Sound
  <1> QED
    BY <1>1, <1>2, <1>3, <1>4, <1>5, FileWritten, IdleClean

LEMMA BackupFailsClean == ASSUME Ground, Clean, Backup, pc' = "failing" PROVE Clean'
  <1>1. /\ pc = "step" /\ (Saved(job) \/ SaveError(job)) /\ Still /\ job' = job /\ run' = run
    BY DEF Backup, At, Goto, Still, router
  <1>2. /\ Sound(job, run.version) /\ pc \in Running \cap UpgradePC /\ job \in Job
        /\ job.release = run.version
    BY <1>1 DEF Ground, Known, Inv, ProcessTypeOK, Coherent, OwnedBy, Clean, RunSound, Running,
       UpgradePC
  <1>3. FileSound'
    BY <1>1, <1>2, ProgressClean
  <1> QED
    BY <1>1, <1>2, <1>3, RunStill, FailingClean

\* A command whose answer is lost has still rebooted the device.
LEMMA ErrorClean ==
    ASSUME Ground, Clean, NoBaseline \/ RemoteFailure \/ Unconfirmed \/ LocalFailure
    PROVE  Clean'
  <1>1. /\ pc' = "failing" /\ UNCHANGED <<disk, job, run, baseline>>
        /\ Still \/ Reboot
    BY DEF NoBaseline, RemoteFailure, Unconfirmed, LocalFailure, Goto, Still, ArmFirmware,
       environment, router, durable
  <1>2. pc \in UpgradePC \ {"failing", "lament"}
    BY DEF NoBaseline, RemoteFailure, Unconfirmed, LocalFailure, At, Clean, RunSound,
       UpgradePC, RollbackPC
  <1>3. Sound(job, run.version) /\ FileSound
    BY <1>2 DEF Clean, RunSound
  <1>4. CASE Still
    BY <1>1, <1>3, <1>4, FileStill, RunStill, FailingClean
  <1>5. CASE ~Still
    <2>1. /\ Unconfirmed /\ Reboot
          /\ \/ pc = "command" /\ run.at = REBOOT
             \/ pc = "step" /\ run.at = REBOOT_ROUTERBOOT
             \/ pc = "restoreReboot"
      BY <1>1, <1>2, <1>5 DEF NoBaseline, RemoteFailure, Unconfirmed, LocalFailure, At, Still,
         ArmFirmware, environment, router, durable, UpgradePC, Ground, Known, Inv, Control
    <2>2. job.stage \in REBOOT..VALIDATE_ROLE_AFTER_ROUTERBOOT
      BY <2>1 DEF Ground, Placed, Entered, RestorePoints, Restoring
    <2>3. Readable(run.version)
      BY <1>3, <2>1 DEF Clean, RunSound, Restoring, Sound, Ground, Placed, Entered
    <2> QED
      BY <1>1, <1>2, <2>1, <2>2, <2>3, RebootSound, FailingClean
  <1> QED
    BY <1>4, <1>5

(***************************************************************************)
(* The commands, and what happens elsewhere.                               *)
(***************************************************************************)

\* The role is looked at when a job is new; an old one is as it was left.
LEMMA OpenedSound ==
    ASSUME Ground, Green, NEW v \in Release, NEW named, NEW resume, MayStart(v, named, resume),
           WasHealthy(v)
    PROVE  Sound(Opened, v)
  <1>1. disk \in Job /\ FileSettled
    BY DEF Ground, Known, Inv, World, DurableTypeOK, Truthful
  <1>2. CASE Unfinished
    <2>1. Opened = disk /\ before /\ disk.release = v
      BY <1>1, <1>2 DEF Opened, Unfinished, WasHealthy, MayStart, FileSettled
    <2>2. Sound(disk, disk.release)
      BY <1>2, <2>1 DEF Green, Clean, FileSound
    <2> QED
      BY <2>1, <2>2
  <1>3. CASE ~Unfinished
    <2>1. phase = "up" /\ role /\ baseline[v] # "broken"
      BY <1>3 DEF Ground, Rested, WasHealthy, Unfinished
    <2>2. Opened.stage = DISCOVER
      BY <1>1, <1>3 DEF Opened, NewJob, FileSettled, Unfinished, Job, Status
    <2> QED
      BY <2>1, <2>2 DEF Sound, Untouched
  <1> QED
    BY <1>2, <1>3

LEMMA StartUpgradeGreen ==
    ASSUME Ground, Green, NEW v \in Release, NEW named, NEW resume \in BOOLEAN,
           StartUpgrade(v, named, resume), before'
    PROVE  Clean'
  <1>1. /\ disk' = job' /\ job'.release = v /\ run'.version = v
        /\ job'.stage = Opened.stage /\ job'.facts = Opened.facts
        /\ job'.stage \in DISCOVER..COMPLETE
        /\ run'.at = StartIndex(job'.stage, resume) /\ run'.skipRB = "unset"
        /\ job'.stage # DISCOVER => resume
        /\ pc' = IF run'.at \in DISCOVER + 1..STAGE_PACKAGES THEN "refresh" ELSE "loop"
    BY StartedAt DEF Ground, Job
  <1>2. Still /\ Sound(Opened, v)
    BY OpenedSound DEF StartUpgrade, Still, router
  <1>3. Sound(job, run.version)' /\ FileSound'
    BY <1>1, <1>2 DEF Sound, FileSound, Untouched, Readable, AlreadyOnRelease, Still
  <1>4. /\ run'.at # DISCOVER => job'.stage # DISCOVER
        /\ run'.at >= WAIT_FOR_RECONNECT => job'.stage >= WAIT_FOR_RECONNECT
        /\ run'.at \notin {VALIDATE_ROLE, ROUTERBOOT_UPDATE, REBOOT_ROUTERBOOT}
        /\ run'.at \in {VALIDATE_ROLE_AFTER_ROUTERBOOT, COMPLETE} => job'.stage = run'.at
    BY <1>1 DEF StartIndex
  <1>5. Ahead' /\ (run'.at = COMPLETE => Untouched')
    BY <1>1, <1>3, <1>4 DEF Ahead, Sound
  <1>6. CASE pc' = "refresh"
    BY <1>3, <1>6 DEF Clean, RunSound, Closing, RollbackPC, Restoring
  <1>7. CASE pc' = "loop"
    BY <1>3, <1>5, <1>7, LoopClean
  <1> QED
    BY <1>1, <1>6, <1>7

LEMMA BlockedGreen ==
    ASSUME Ground, Green, NEW v \in Release, NEW named, NEW resume,
           BlockedByDependency(v, named, resume), before'
    PROVE  Clean'
  <1>1. /\ pc' = "failing" /\ disk' = disk /\ Still /\ run'.version = v
        /\ job' = [Opened EXCEPT !.release = v] /\ WasHealthy(v)
    BY DEF BlockedByDependency, Goto, Still, router, NoRun
  <1>2. Opened \in Job /\ Sound(Opened, v)
    BY <1>1, OpenedTyped, OpenedSound
       DEF BlockedByDependency, Ground, Known, Inv, World, DurableTypeOK
  <1>3. job'.stage = Opened.stage /\ job'.facts = Opened.facts
    BY <1>1, <1>2 DEF Job
  <1>4. Sound(job, run.version)'
    BY <1>1, <1>2, <1>3 DEF Sound, Untouched, Readable, AlreadyOnRelease, Still
  <1>5. FileSound'
    <2>1. CASE Unfinished
      BY <1>1, <2>1, FileStill DEF WasHealthy, Unfinished, Green, Clean
    <2>2. CASE ~Unfinished
      BY <1>1, <2>2 DEF FileSound, Unfinished
    <2> QED
      BY <2>1, <2>2
  <1> QED
    BY <1>1, <1>4, <1>5, FailingClean

\* The baselines that verify takes are of no release with an open job and a
\* healthy role, or healthy themselves.
LEMMA VerifyClean ==
    ASSUME Ground, Clean, before', VerifySnapshot \/ VerifyFill PROVE Clean'
  <1>1. /\ pc' \in {"idle", "verifyFill", "hung"} /\ UNCHANGED <<disk, installed, phase, role>>
        /\ baseline \in [Release -> BaselineFile] /\ FileSound
    BY DEF VerifySnapshot, VerifyFill, Goto, Stop, environment, router, Ground, Known, Inv,
       World, DurableTypeOK, Clean
  <1>2. CASE VerifySnapshot
    <2>1. /\ baseline' = [baseline EXCEPT ![installed[System]] = "torn"]
          /\ \A r \in Release : baseline[r] = "missing"
      BY <1>2 DEF VerifySnapshot, Truncate
    <2>2. \A r \in Release : baseline[r] = "missing" /\ baseline'[r] \in {"missing", "torn"}
      BY <1>1, <2>1
    <2>3. Unfinished => disk.release \in Release
      BY DEF Ground, Known, Truthful, FileSettled
    <2>4. FileSound'
      BY <1>1, <2>2, <2>3
         DEF FileSound, Unfinished, Sound, Untouched, Readable, Captured, AlreadyOnRelease
    <2> QED
      BY <1>1, <2>4, IdleClean
  <1>3. CASE VerifyFill
    <2>1. baseline' = [baseline EXCEPT ![run.version] = "healthy"] /\ run.version \in Release
      BY <1>3 DEF VerifyFill, Fill, Ground, Known, Inv, Control
    <2>2. \A r \in Release : baseline'[r] = baseline[r] \/ baseline'[r] = "healthy"
      BY <1>1, <2>1
    <2>3. Unfinished => disk.release \in Release
      BY DEF Ground, Known, Truthful, FileSettled
    <2>4. FileSound'
      BY <1>1, <2>2, <2>3
         DEF FileSound, Unfinished, Sound, Untouched, Readable, Captured, AlreadyOnRelease
    <2> QED
      BY <1>1, <2>4, IdleClean
  <1> QED
    BY <1>2, <1>3

LEMMA OtherCommandClean ==
    ASSUME Ground, Clean, DiscoverCommand \/ Crash \/ Hang \/ Interrupt PROVE Clean'
  <1>1. CASE DiscoverCommand
    <2>1. /\ pc' = "idle" /\ Still
          /\ disk' = [disk EXCEPT !.facts = installed,
                                  !.status = IF @ = "" THEN "pending" ELSE @]
      BY <1>1 DEF DiscoverCommand, Saved, process, Still, router
    <2>2. /\ disk'.stage = disk.stage /\ disk'.release = disk.release
          /\ disk'.facts = installed
          /\ disk'.status = IF disk.status = "" THEN "pending" ELSE disk.status
      BY <2>1 DEF Ground, Known, Inv, World, DurableTypeOK, Job
    <2>3. ASSUME Unfinished' PROVE Unfinished /\ Sound(disk, disk.release)
      BY <2>2, <2>3 DEF Clean, FileSound, Unfinished
    <2>4. FileSound'
      BY <2>1, <2>2, <2>3 DEF FileSound, Sound, Untouched, Readable, AlreadyOnRelease, Still
    <2> QED
      BY <2>1, <2>4, IdleClean
  <1>2. CASE Crash \/ Hang \/ Interrupt
    BY <1>2, FileStill, IdleClean DEF Crash, Hang, Interrupt, Stop, Clean, Still, router,
       environment, durable
  <1> QED
    BY <1>1, <1>2

\* A device that boots was not untouched: its baseline is there.
LEMMA ElsewhereClean ==
    ASSUME ~PowerCuts, Ground, Clean,
           \/ Deadline \/ UNCHANGED vars
           \/ EnvironmentStep /\ UNCHANGED <<durable, process>>
    PROVE  Clean'
  <1>1. UNCHANGED <<disk, baseline, job, run, pc>> /\ FileSound /\ RunSound
    BY DEF Deadline, durable, process, vars, Clean
  <1>2. CASE Still
    <2>1. FileSound'
      BY <1>1, <1>2, FileStill
    <2>2. RunSound'
      BY <1>1, <1>2 DEF RunSound, Ahead, Sound, Untouched, Readable, AlreadyOnRelease,
         Closing, Previous, Still
    <2> QED
      BY <2>1, <2>2 DEF Clean
  <1>3. CASE ~Still
    <2>1. phase = "down"
      BY <1>1, <1>3 DEF Deadline, vars, environment, router, EnvironmentStep, GoDown, PowerCut,
         Boot, Still, Ground, Known, Truthful, FileSettled
    <2>2. ~Untouched
      BY <2>1 DEF Untouched
    <2>3. FileSound'
      BY <1>1, <2>2 DEF FileSound, Unfinished, Sound, Readable
    <2>4. RunSound'
      <3>1. pc \in UpgradePC => Readable(run.version)
        BY <1>1, <2>2 DEF RunSound, Sound
      <3>2. Readable(run.version)' = Readable(run.version)
        BY <1>1 DEF Readable
      <3>3. (pc \in UpgradePC => Sound(job, run.version))'
        BY <1>1, <2>2, <3>1, <3>2 DEF RunSound, Sound
      <3>4. (pc = "loop" => Ahead)'
        BY <1>1, <2>2, <3>1, <3>2 DEF RunSound, Ahead, UpgradePC
      <3> QED
        BY <1>1, <2>2, <3>2, <3>3, <3>4 DEF RunSound, Closing, Previous
    <2> QED
      BY <2>3, <2>4 DEF Clean
  <1> QED
    BY <1>2, <1>3

(***************************************************************************)
(* The theorem.                                                            *)
(***************************************************************************)
LEMMA InitGround == Init => Ground /\ Green
  <1> SUFFICES ASSUME Init PROVE Ground /\ Green
    OBVIOUS
  <1>1. pc = "idle" /\ phase = "up" /\ disk = NewJob
    BY DEF Init, EnvironmentInit, JobStoreInit
  <1>2. Known
    BY InitInv, InitGood, InitTrail, InitTruthful DEF Known
  <1>3. Placed
    BY <1>1 DEF Placed, Entered, RestorePoints, Restoring
  <1>4. Clean
    BY <1>1 DEF Clean, FileSound, RunSound, Unfinished, NewJob, UpgradePC, RollbackPC, Restoring
  <1> QED
    BY <1>1, <1>2, <1>3, <1>4 DEF Ground, Rested, Green

LEMMA NextGround ==
    ASSUME ~PowerCuts, ~ShutdownLag, Ground, [Next]_vars PROVE Ground'
  <1>1. Known'
    BY NextInv, NextGood, NextTrail, NextTruthful DEF Known, Ground
  <1> QED
    BY <1>1, NextRested, NextPlaced DEF Ground

LEMMA NextGreen ==
    ASSUME ~PowerCuts, Ground, Green, [Next]_vars PROVE Green'
  <1> SUFFICES ASSUME before' PROVE Clean'
    BY DEF Green
  <1>1. CASE StartCommand
    BY <1>1, StartUpgradeGreen, BlockedGreen DEF StartCommand, StartRollback
  <1>2. CASE ~StartCommand
    <2>1. Clean
      <3>1. before
        BY <1>2 DEF Next, DiscoverCommand, VerifySnapshot, VerifyFill, Crash, Hang,
           Interrupt, Deadline, vars,
           durable, ProcessStep, UpgradeStep, RollbackStep, SkipStage, DecideRouterboot,
           EnterStage, Discover, Preflight, Backup, AlreadyBackedUp, StagePackages, UploadFile,
           RestoreUpload, KeepBaseline, InventBaseline, FillBaseline, NoBaseline,
           RebootDevice, UpgradeRouterboot, Reconnect, ReconnectTimeout, ValidationPasses,
           ValidationFails, RestoreBegins, NothingToRestore, RestoreReboot, RestoreReconnect,
           RestoreCopy, RestoreFill, RestoreCheck, RestoreSave, Complete, PushAudit, Settle,
           Lament, RemoteFailure, Unconfirmed, LocalFailure, CompleteFailure, MarkFailed,
           RollbackUpload, RollbackMark, RollbackReboot, RollbackReconnect, RollbackVerified,
           RollbackMismatch, RollbackPush, RollbackPushFails, RollbackSettle, RollbackFails
      <3> QED
        BY <3>1 DEF Green
    <2>2. CASE UpgradeStep
      <3>1. CASE pc' = "loop"
        <4>1. CASE LoopsBack
          BY <2>1, <3>1, <4>1, LoopsBackClean, RebootClean
        <4>2. CASE ~LoopsBack
          <5>1. SkipStage \/ DecideRouterboot \/ Discover
            BY <2>2, <3>1, <4>2 DEF UpgradeStep, LoopsBack, RestoreUpload, EnterStage,
               StagePackages, KeepBaseline, InventBaseline, FillBaseline, NoBaseline,
               ReconnectTimeout, ValidationFails, RestoreBegins, NothingToRestore,
               RestoreReboot, RestoreReconnect, RestoreCopy, RestoreFill, RestoreCheck,
               RestoreSave, Complete, PushAudit, Settle, Lament, RemoteFailure, Unconfirmed,
               LocalFailure, CompleteFailure, MarkFailed, Goto, Stop
          <5> QED
            BY <2>1, <5>1, SkipClean, DecideClean, DiscoverClean
        <4> QED
          BY <4>1, <4>2
      <3>2. CASE pc' # "loop"
        <4>1. CASE \/ Preflight \/ AlreadyBackedUp \/ RebootDevice \/ UpgradeRouterboot
                   \/ ValidationPasses \/ SkipStage \/ DecideRouterboot
          BY <3>2, <4>1 DEF Preflight, AlreadyBackedUp, RebootDevice, UpgradeRouterboot,
             ValidationPasses, SkipStage, DecideRouterboot, NextStage, Goto
        <4>2. CASE Backup
          BY <2>1, <3>2, <4>2, BackupFailsClean DEF Backup, Goto
        <4>3. CASE \/ RestoreBegins \/ NothingToRestore \/ RestoreReboot
                   \/ RestoreReconnect \/ RestoreCopy \/ RestoreFill \/ RestoreCheck
                   \/ RestoreSave \/ \E p \in Package : RestoreUpload(p)
          BY <2>1, <4>3, RestoreBeginsClean, RestoreOnClean, RestoreRebootClean,
             RestoreCopyClean, RestoreSaveClean
        <4>4. CASE \/ StagePackages \/ KeepBaseline \/ InventBaseline \/ FillBaseline
                   \/ Reconnect \/ ReconnectTimeout \/ ValidationFails
                   \/ \E p \in Package : UploadFile(p)
          BY <2>1, <3>2, <4>4, InsideClean, SnapshotClean
        <4>5. CASE \/ EnterStage \/ Discover \/ Complete \/ PushAudit \/ Settle \/ Lament
                   \/ CompleteFailure \/ MarkFailed
                   \/ NoBaseline \/ RemoteFailure \/ Unconfirmed \/ LocalFailure
          BY <2>1, <4>5, EnterClean, DiscoverClean, CloseClean, SettleClean, MarkFailedClean,
             ErrorClean
        <4> QED
          BY <2>2, <4>1, <4>2, <4>3, <4>4, <4>5 DEF UpgradeStep
      <3> QED
        BY <3>1, <3>2
    <2>3. CASE RollbackStep
      <3>1. pc \in RollbackPC
        BY <2>3 DEF RollbackStep, RollbackUpload, RollbackMark, RollbackReboot,
           RollbackReconnect, RollbackVerified, RollbackMismatch, RollbackPush,
           RollbackPushFails, RollbackSettle, RollbackFails, RollbackPC
      <3> QED
        BY <2>1, <3>1 DEF Clean, RunSound
    <2>4. CASE VerifySnapshot \/ VerifyFill \/ DiscoverCommand \/ Crash \/ Hang \/ Interrupt
      BY <2>1, <2>4, VerifyClean, OtherCommandClean
    <2>5. CASE \/ Deadline \/ UNCHANGED vars
               \/ EnvironmentStep /\ UNCHANGED <<durable, process>>
      BY <2>1, <2>5, ElsewhereClean
    <2> QED
      BY <1>2, <2>2, <2>3, <2>4, <2>5 DEF Next, ProcessStep
  <1> QED
    BY <1>1, <1>2

\* An upgrade that completes its job, or restores the previous release, does
\* so on a device that does its job as it did before.
THEOREM GreenTruth == ASSUME ~PowerCuts, ~ShutdownLag PROVE Spec => NoFalseGreen
  <1>1. Init => Ground /\ Green
    BY InitGround
  <1>2. Ground /\ Green /\ [Next]_vars => Ground' /\ Green'
    BY NextGround, NextGreen
  <1>3. Ground /\ Green /\ [Next]_vars
          => [disk'.status = "complete" /\ disk.status # "complete"
                /\ pc \in UpgradePC /\ before => role]_vars
    <2> SUFFICES ASSUME Ground, Green, [Next]_vars, disk'.status = "complete",
                        disk.status # "complete", pc \in UpgradePC, before
                 PROVE  role
      OBVIOUS
    <2>1. pc \in {"settle", "lament", "rollSettle", "restoreSave"}
      BY Completes DEF Ground
    <2>2. pc # "rollSettle"
      BY DEF UpgradePC
    <2> QED
      BY <2>1, <2>2 DEF Green, Clean, RunSound, Closing, Untouched
  <1> QED
    BY <1>1, <1>2, <1>3, PTL DEF Spec, NoFalseGreen
=============================================================================
