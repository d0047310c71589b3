-------------------------- MODULE CompletionProofs --------------------------
(***************************************************************************)
(* What a job of Rosup says of the device: no baseline of a release is     *)
(* made up on a device that is on it already, and no job is complete on a  *)
(* release that the device does not run.                                   *)
(***************************************************************************)
EXTENDS LifecycleProofs

USE EnvironmentAssumption, RosupAssumption
    DEF EnvironmentAssumption, RosupAssumption

(***************************************************************************)
(* What an upgrade that is running has on disk.                            *)
(***************************************************************************)

\* The file is the job the upgrade works on, until something fails.
JobOnDisk == pc \in UpgradePC \ {"failing", "lament"} => disk = job

\* A baseline that is being written is truncated before it is filled.
HalfWritten ==
    /\ pc = "snapshot" => baseline[run.version] = "torn"
    /\ pc = "restoreFill" => baseline[Previous] = "torn"

Trail == JobOnDisk /\ HalfWritten

\* The points of an upgrade from which a body moves on without a save.
LEMMA TrailKept ==
    ASSUME Trail, UNCHANGED <<disk, job>>, pc \in UpgradePC \ {"failing", "lament"},
           pc' \notin {"snapshot", "restoreFill"}
    PROVE  Trail'
  BY DEF Trail, JobOnDisk, HalfWritten

LEMMA TrailLeft ==
    ASSUME pc' \in {"idle", "verifyFill", "hung", "failing", "lament"} \cup RollbackPC
    PROVE  Trail'
  BY DEF Trail, JobOnDisk, HalfWritten, UpgradePC, RollbackPC

LEMMA LoopTrail ==
    ASSUME Trail,
           \/ SkipStage \/ DecideRouterboot \/ Preflight \/ AlreadyBackedUp
           \/ StagePackages \/ KeepBaseline \/ NoBaseline \/ Reconnect
           \/ ReconnectTimeout \/ ValidationPasses \/ ValidationFails
           \/ RebootDevice \/ UpgradeRouterboot \/ FillBaseline
           \/ RestoreBegins \/ NothingToRestore \/ RestoreReboot \/ RestoreReconnect
           \/ RestoreFill \/ RestoreCheck \/ PushAudit
           \/ \E p \in Package : UploadFile(p) \/ RestoreUpload(p)
    PROVE  Trail'
  <1>1. UNCHANGED <<disk, job>>
    BY DEF SkipStage, DecideRouterboot, Preflight, AlreadyBackedUp, StagePackages,
       KeepBaseline, NoBaseline, Reconnect, ReconnectTimeout, ValidationPasses,
       ValidationFails, RebootDevice, UpgradeRouterboot, FillBaseline, RestoreBegins,
       NothingToRestore, RestoreReboot, RestoreReconnect, RestoreFill, RestoreCheck,
       PushAudit, UploadFile, RestoreUpload, durable
  <1>2. pc \in UpgradePC \ {"failing", "lament"}
    BY DEF SkipStage, DecideRouterboot, Preflight, AlreadyBackedUp, StagePackages,
       KeepBaseline, NoBaseline, Reconnect, ReconnectTimeout, ValidationPasses,
       ValidationFails, RebootDevice, UpgradeRouterboot, FillBaseline, RestoreBegins,
       NothingToRestore, RestoreReboot, RestoreReconnect, RestoreFill, RestoreCheck,
       PushAudit, UploadFile, RestoreUpload, At, Checking, UpgradePC
  <1>3. pc' \notin {"snapshot", "restoreFill"}
    BY DEF SkipStage, DecideRouterboot, Preflight, AlreadyBackedUp, StagePackages,
       KeepBaseline, NoBaseline, Reconnect, ReconnectTimeout, ValidationPasses,
       ValidationFails, RebootDevice, UpgradeRouterboot, FillBaseline, RestoreBegins,
       NothingToRestore, RestoreReboot, RestoreReconnect, RestoreFill, RestoreCheck,
       PushAudit, UploadFile, RestoreUpload, NextStage, Goto
  <1> QED
    BY <1>1, <1>2, <1>3, TrailKept

LEMMA BaselineTrail == ASSUME Inv, Trail, InventBaseline \/ RestoreCopy PROVE Trail'
  <1>1. UNCHANGED <<disk, job>> /\ pc \in UpgradePC \ {"failing", "lament"}
    BY DEF InventBaseline, RestoreCopy, At, UpgradePC
  <1>2. baseline \in [Release -> BaselineFile] /\ run \in Run
    BY DEF Inv, World, DurableTypeOK, ProcessTypeOK
  <1>3. CASE InventBaseline
    <2>1. pc' = "snapshot" /\ run'.version = run.version /\ run.version \in Release
      BY <1>2, <1>3 DEF InventBaseline, Goto, At, Inv, Control, Run
    <2>2. baseline'[run.version] = "torn"
      BY <1>2, <1>3, <2>1 DEF InventBaseline, Truncate
    <2> QED
      BY <1>1, <2>1, <2>2 DEF Trail, JobOnDisk, HalfWritten
  <1>4. CASE RestoreCopy /\ Readable(run.version)
    <2>1. pc' = "restoreFill" /\ Previous \in Release /\ Previous' = Previous
      BY <1>1, <1>4, PreviousTyped DEF RestoreCopy, Goto, Inv, Control, Restoring, ProcessTypeOK, Previous
    <2>2. baseline'[Previous] = "torn"
      BY <1>2, <1>4, <2>1 DEF RestoreCopy, Truncate
    <2> QED
      BY <1>1, <2>1, <2>2 DEF Trail, JobOnDisk, HalfWritten
  <1>5. CASE RestoreCopy /\ ~Readable(run.version)
    BY <1>5, TrailLeft DEF RestoreCopy, Goto
  <1> QED
    BY <1>3, <1>4, <1>5

\* A save that succeeds keeps the file and the job of the process the same.
LEMMA SaveTrail ==
    ASSUME Inv, Trail,
           \/ EnterStage \/ Discover \/ Backup \/ Complete \/ Settle \/ Lament
           \/ MarkFailed \/ RestoreSave
    PROVE  Trail'
  <1>1. CASE pc' \in {"idle", "failing", "lament"}
    BY <1>1, TrailLeft
  <1>2. CASE pc' \notin {"idle", "failing", "lament"}
    <2>1. disk' = job'
      BY <1>2 DEF EnterStage, Discover, Backup, Complete, Settle, Lament, MarkFailed,
         RestoreSave, Stop, Goto, Saved
    <2>2. pc' \notin {"snapshot", "restoreFill"}
      BY <1>2 DEF EnterStage, Discover, Backup, Complete, Settle, Lament, MarkFailed,
         RestoreSave, Stop, Goto, NextStage
    <2> QED
      BY <2>1, <2>2 DEF Trail, JobOnDisk, HalfWritten
  <1> QED
    BY <1>1, <1>2

LEMMA StartTrail ==
    ASSUME NEW v, NEW named, NEW resume,
           \/ StartUpgrade(v, named, resume)
           \/ BlockedByDependency(v, named, resume)
           \/ StartRollback(v)
    PROVE  Trail'
  <1>1. CASE StartUpgrade(v, named, resume)
    <2>1. disk' = job' /\ pc' \notin {"snapshot", "restoreFill"}
      BY <1>1 DEF StartUpgrade, Saved, Goto
    <2> QED
      BY <2>1 DEF Trail, JobOnDisk, HalfWritten
  <1>2. CASE BlockedByDependency(v, named, resume) \/ StartRollback(v)
    BY <1>2, TrailLeft DEF BlockedByDependency, StartRollback, Goto, RollbackPC
  <1> QED
    BY <1>1, <1>2

LEMMA NextTrail == Inv /\ Trail /\ [Next]_vars => Trail'
  <1> SUFFICES ASSUME Inv, Trail, [Next]_vars PROVE Trail'
    OBVIOUS
  <1>1. CASE StartCommand
    BY <1>1, StartTrail DEF StartCommand
  <1>2. CASE RemoteFailure \/ Unconfirmed \/ LocalFailure \/ CompleteFailure
    BY <1>2, TrailLeft DEF RemoteFailure, Unconfirmed, LocalFailure, CompleteFailure, Goto
  <1>3. CASE UpgradeStep
    BY <1>2, <1>3, LoopTrail, BaselineTrail, SaveTrail DEF UpgradeStep
  <1>4. CASE RollbackStep
    BY <1>4, TrailLeft DEF RollbackStep, RollbackUpload, RollbackMark, RollbackReboot,
       RollbackReconnect, RollbackVerified, RollbackMismatch, RollbackPush,
       RollbackPushFails, RollbackSettle, RollbackFails, Stop, Goto, RollbackPC
  <1>5. CASE DiscoverCommand \/ VerifySnapshot \/ VerifyFill \/ Crash \/ Hang \/ Interrupt
    BY <1>5, TrailLeft DEF DiscoverCommand, VerifySnapshot, VerifyFill, Crash, Hang,
       Interrupt, Stop, Goto, process
  <1>6. CASE \/ Deadline \/ UNCHANGED vars
             \/ EnvironmentStep /\ UNCHANGED <<durable, process>>
    BY <1>6 DEF Deadline, durable, process, vars, Trail, JobOnDisk, HalfWritten, Previous
  <1> QED
    BY <1>1, <1>3, <1>4, <1>5, <1>6 DEF Next, ProcessStep

LEMMA InitTrail == Init => Trail
  BY DEF Init, Trail, JobOnDisk, HalfWritten, UpgradePC

(***************************************************************************)
(* No baseline is invented.                                                *)
(***************************************************************************)

\* The baselines a step brings into being.
LEMMA BaselineBorn ==
    ASSUME Inv, "verify" \notin Commands, pc # "verifyFill", [Next]_vars,
           NEW v \in Release, baseline[v] = "missing", baseline'[v] # "missing"
    PROVE  \/ InventBaseline /\ v = run.version
           \/ FillBaseline /\ v = run.version
           \/ RestoreCopy /\ v = Previous
           \/ RestoreFill /\ v = Previous
  <1>1. baseline' # baseline /\ baseline \in [Release -> BaselineFile]
    BY DEF Inv, World, DurableTypeOK
  <1>2. ~StartCommand /\ ~DiscoverCommand /\ ~VerifySnapshot /\ ~VerifyFill
    BY <1>1 DEF StartCommand, StartUpgrade, BlockedByDependency, StartRollback,
       DiscoverCommand, VerifySnapshot, VerifyFill
  <1>3. ~Crash /\ ~Hang /\ ~Interrupt /\ ~Deadline /\ ~(UNCHANGED <<durable, process>>)
        /\ ~(UNCHANGED vars)
    BY <1>1 DEF Crash, Hang, Interrupt, Deadline, durable, vars
  <1>4. ~RollbackStep
    BY <1>1 DEF RollbackStep, RollbackUpload, RollbackMark, RollbackReboot,
       RollbackReconnect, RollbackVerified, RollbackMismatch, RollbackPush,
       RollbackPushFails, RollbackSettle, RollbackFails, durable
  <1>5. UpgradeStep
    BY <1>2, <1>3, <1>4 DEF Next, ProcessStep
  <1>6. InventBaseline \/ FillBaseline \/ RestoreCopy \/ RestoreFill
    BY <1>1, <1>5 DEF UpgradeStep, SkipStage, DecideRouterboot, EnterStage, Discover,
       Preflight, Backup, AlreadyBackedUp, StagePackages, UploadFile, RestoreUpload,
       KeepBaseline, NoBaseline, RebootDevice, UpgradeRouterboot, Reconnect,
       ReconnectTimeout, ValidationPasses, ValidationFails, RestoreBegins,
       NothingToRestore, RestoreReboot, RestoreReconnect, RestoreCheck, RestoreSave,
       Complete, PushAudit, Settle, Lament, RemoteFailure, Unconfirmed, LocalFailure,
       CompleteFailure, MarkFailed, durable
  <1> QED
    BY <1>1, <1>6 DEF InventBaseline, FillBaseline, RestoreCopy, RestoreFill, Truncate, Fill

LEMMA NotInvented ==
    ASSUME Inv, Coherent, Trail, "verify" \notin Commands, pc # "verifyFill", [Next]_vars,
           NEW v \in Release, baseline[v] = "missing", baseline'[v] # "missing"
    PROVE  ~(MidUpgrade(v) /\ AlreadyOnRelease(installed, v))
  <1>1. CASE InventBaseline /\ v = run.version
    <2>1. disk = job
      BY <1>1 DEF InventBaseline, At, Trail, JobOnDisk, UpgradePC
    <2> QED
      BY <1>1, <2>1 DEF InventBaseline, MayInvent, OnTarget, MidUpgrade
  <1>2. CASE \/ FillBaseline /\ v = run.version
             \/ RestoreFill /\ v = Previous
    BY <1>2 DEF FillBaseline, RestoreFill, Trail, HalfWritten
  <1>3. CASE RestoreCopy /\ v = Previous
    <2>1. Previous # run.version /\ disk.release = run.version
      BY <1>3 DEF RestoreCopy, Inv, Control, Restoring, Coherent, OwnedBy, Running, UpgradePC
    <2> QED
      BY <1>3, <2>1 DEF MidUpgrade
  <1> QED
    BY <1>1, <1>2, <1>3, BaselineBorn

LEMMA NoVerify ==
    ASSUME "verify" \notin Commands, Inv, pc # "verifyFill", [Next]_vars
    PROVE  pc' # "verifyFill"
  <1>1. CASE pc' = pc
    BY <1>1
  <1>2. ASSUME pc' # pc, pc' = "verifyFill" PROVE FALSE
    <2>1. ~StartCommand /\ ~DiscoverCommand /\ ~VerifySnapshot /\ ~VerifyFill
      <3>1. ~StartCommand
        BY <1>2 DEF StartCommand, StartUpgrade, BlockedByDependency, StartRollback, Goto
      <3>2. ~DiscoverCommand /\ ~VerifySnapshot /\ ~VerifyFill
        BY <1>2 DEF DiscoverCommand, VerifySnapshot, VerifyFill, process
      <3> QED
        BY <3>1, <3>2
    <2>2. ~Crash /\ ~Hang /\ ~Interrupt /\ ~Deadline /\ ~(UNCHANGED <<durable, process>>)
          /\ ~(UNCHANGED vars)
      BY <1>2 DEF Crash, Hang, Interrupt, Deadline, Stop, process, vars
    <2>3. ~RollbackStep
      BY <1>2 DEF RollbackStep, RollbackUpload, RollbackMark, RollbackReboot,
         RollbackReconnect, RollbackVerified, RollbackMismatch, RollbackPush,
         RollbackPushFails, RollbackSettle, RollbackFails, Goto, Stop
    <2>4. ~UpgradeStep
      BY <1>2 DEF UpgradeStep, SkipStage, DecideRouterboot, EnterStage, Discover,
         Preflight, Backup, AlreadyBackedUp, StagePackages, UploadFile, RestoreUpload,
         KeepBaseline, InventBaseline, FillBaseline, NoBaseline, RebootDevice,
         UpgradeRouterboot, Reconnect, ReconnectTimeout, ValidationPasses,
         ValidationFails, RestoreBegins, NothingToRestore, RestoreReboot,
         RestoreReconnect, RestoreCopy, RestoreFill, RestoreCheck, RestoreSave, Complete,
         PushAudit, Settle, Lament, RemoteFailure, Unconfirmed, LocalFailure,
         CompleteFailure, MarkFailed, NextStage, Goto, Stop
    <2> QED
      BY <2>1, <2>2, <2>3, <2>4 DEF Next, ProcessStep
  <1> QED
    BY <1>1, <1>2

\* Unless the operator uses verify, no baseline of a release is made up from
\* the role of a device that is on it while its job is mid-upgrade to it:
\* through crashes, power cuts, lost answers and restores.
THEOREM NoBaselineInvented ==
    ASSUME "verify" \notin Commands PROVE Spec => NoInventedBaseline
  <1> DEFINE Whole == Inv /\ Coherent /\ Trail /\ pc # "verifyFill"
  <1>1. Init => Whole
    BY InitInv, InitGood, InitTrail DEF Init
  <1>2. Whole /\ [Next]_vars => Whole'
    BY NextInv, NextGood, NextTrail, NoVerify
  <1>3. Whole /\ [Next]_vars
          => [\A v \in Release : baseline[v] = "missing" /\ baseline'[v] # "missing"
                => ~(MidUpgrade(v) /\ AlreadyOnRelease(installed, v))]_vars
    BY NotInvented
  <1> QED
    BY <1>1, <1>2, <1>3, PTL DEF Spec, NoInventedBaseline

(***************************************************************************)
(* What the device runs when a job says that it is done.  The device is    *)
(* one that only goes down when it is told to, and at once.                *)
(***************************************************************************)

\* The device is up and every package is on release r.
Settled(r) == phase = "up" /\ AlreadyOnRelease(installed, r)

Unfinished == disk.status \in {"in_progress", "failed"}

\* What the job file says of the device, whoever reads it.
FileSettled ==
    /\ phase # "going"
    /\ disk.status \in {"", "pending"} => disk.stage = DISCOVER
    /\ Unfinished => disk.release \in Release
    /\ Unfinished /\ disk.stage = COMPLETE => Settled(disk.release)

\* The run is at COMPLETE, or the rollback has found its release.
Closing == \/ pc \in {"push", "settle", "lament", "rollPush", "rollSettle"}
           \/ pc \in {"loop", "step"} /\ run.at = COMPLETE

\* A run that is not there yet has not said so either.
NotClosed == pc \in Running /\ ~Closing => job.stage # COMPLETE /\ disk.stage # COMPLETE

\* The stages a device already on the release does not need.
Skippable == PREFLIGHT..VALIDATE_ROLE

\* The points of a run at which the device is known to be on a release.
RunSettled ==
    /\ pc = "refresh" => run.at \in PREFLIGHT..STAGE_PACKAGES
    /\ Closing => Settled(run.version)
    /\ pc = "failing" /\ job.stage = COMPLETE => Settled(run.version)
    /\ pc = "restoreSave" => Settled(Previous)
    /\ pc = "loop" /\ run.at \in Skippable /\ ~run.needsValidate /\ OnTarget
         => Settled(run.version)
    /\ pc = "loop" /\ run.at = ROUTERBOOT_UPDATE => Settled(run.version)
    /\ pc = "loop" /\ run.at \in {REBOOT_ROUTERBOOT, VALIDATE_ROLE_AFTER_ROUTERBOOT}
         /\ run.skipRB = "yes" => Settled(run.version)

\* A run that started from the beginning works only on a device that needs it.
Needed ==
    /\ pc \in {"step", "upload", "snapshot", "command"}
         /\ run.at \in Skippable /\ ~run.needsValidate => ~OnTarget
    /\ pc \in {"step", "snapshot", "command"}
         /\ run.at \in RouterbootStages => run.skipRB # "yes"

Truthful == FileSettled /\ NotClosed /\ RunSettled /\ Needed

USE DEF DISCOVER, PREFLIGHT, EXPORT_TEXT, SAVE_BINARY_BACKUP, STAGE_PACKAGES, REBOOT,
        WAIT_FOR_RECONNECT, VALIDATE_ROLE, ROUTERBOOT_UPDATE, REBOOT_ROUTERBOOT,
        VALIDATE_ROLE_AFTER_ROUTERBOOT, COMPLETE

LEMMA SettledKept ==
    ASSUME UNCHANGED <<installed, phase>>, NEW r PROVE Settled(r)' <=> Settled(r)
  BY DEF Settled, AlreadyOnRelease

\* A device that answers is up; so a check that passes has settled it.
LEMMA AnswerSettles ==
    ASSUME Inv, FileSettled, Connected, NEW r, AlreadyOnRelease(installed, r)
    PROVE  Settled(r)
  BY DEF Inv, World, EnvironmentTypeOK, FileSettled, Connected, Answering, Settled

\* A command that is over, or not a job, claims nothing but its file.
LEMMA IdleTruthful ==
    ASSUME pc' \in {"idle", "verifyFill", "hung"}, FileSettled' PROVE Truthful'
  BY DEF Truthful, NotClosed, RunSettled, Needed, Closing, Running, UpgradePC, RollbackPC

\* Nor does one that has failed before COMPLETE.
LEMMA FailingTruthful ==
    ASSUME pc' = "failing", FileSettled', job'.stage = COMPLETE => Settled(run.version)'
    PROVE  Truthful'
  BY DEF Truthful, NotClosed, RunSettled, Needed, Closing, Running

LEMMA FileKept ==
    ASSUME FileSettled, UNCHANGED <<disk, installed, phase>> PROVE FileSettled'
  BY DEF FileSettled, Unfinished, Settled, AlreadyOnRelease

LEMMA FileSaved ==
    ASSUME FileSettled, UNCHANGED <<installed, phase>>, NEW j \in Job, disk' \in {disk, j},
           j.status \notin {"", "pending"},
           j.status \in {"in_progress", "failed"}
             => j.release \in Release /\ (j.stage = COMPLETE => Settled(j.release))
    PROVE  FileSettled'
  BY DEF FileSettled, Unfinished, Settled, AlreadyOnRelease

\* The device is told to reboot in the middle of a job.
LEMMA FileRebooted ==
    ASSUME ~ShutdownLag, FileSettled, NotClosed, Reboot, UNCHANGED disk,
           pc \in Running, ~Closing
    PROVE  FileSettled'
  BY DEF FileSettled, NotClosed, Unfinished, Reboot

Known == Inv /\ Coherent /\ Trail /\ Truthful

\* Nothing the process does, but a reboot, changes what the device runs.
Unmoved == UNCHANGED <<installed, phase>>

LEMMA FailsTruthful ==
    ASSUME NotClosed, pc \in Running, ~Closing, pc' = "failing", job'.stage = job.stage,
           FileSettled'
    PROVE  Truthful'
  BY FailingTruthful DEF NotClosed

LEMMA ClosingTruthful ==
    ASSUME Settled(run.version), Unmoved, FileSettled', run' = run,
           pc' \in {"push", "settle", "lament", "rollPush", "rollSettle"}
    PROVE  Truthful'
  <1>1. Settled(run.version)'
    BY DEF Settled, AlreadyOnRelease, Unmoved
  <1>2. Closing'
    BY DEF Closing
  <1> QED
    BY <1>1, <1>2 DEF Truthful, NotClosed, RunSettled, Needed

(***************************************************************************)
(* The stage loop.                                                         *)
(***************************************************************************)

LEMMA SkipTruthful == ASSUME Known, SkipStage PROVE Truthful'
  <1>1. pc = "loop" /\ pc' = "loop" /\ run' = [run EXCEPT !.at = @ + 1]
    BY DEF SkipStage, NextStage, Goto
  <1>2. run \in Run /\ UNCHANGED <<disk, job>> /\ Unmoved
    BY DEF SkipStage, Known, Inv, ProcessTypeOK, Unmoved, environment, router, durable
  <1>3. /\ run'.at = run.at + 1 /\ run.at \in 0..10
        /\ run'.version = run.version /\ run'.needsValidate = run.needsValidate
        /\ run'.skipRB = run.skipRB
    BY <1>1, <1>2 DEF Run, SkipStage, SkipBecauseCurrent, RouterbootStages
  <1>4. FileSettled'
    BY <1>2, FileKept DEF Known, Truthful, Unmoved
  <1>5. NotClosed'
    BY <1>1, <1>2, <1>3 DEF Known, Truthful, NotClosed, Closing, Running, UpgradePC
  <1>6. ASSUME \/ run'.at \in {ROUTERBOOT_UPDATE, COMPLETE}
               \/ run'.at \in Skippable /\ ~run'.needsValidate /\ OnTarget'
               \/ run'.at \in {REBOOT_ROUTERBOOT, VALIDATE_ROLE_AFTER_ROUTERBOOT}
                    /\ run'.skipRB = "yes"
        PROVE  Settled(run.version)
    BY <1>1, <1>2, <1>3, <1>6 DEF SkipStage, SkipBecauseCurrent, RouterbootStages, Known,
       Truthful, RunSettled, Skippable, OnTarget, AlreadyOnRelease
  <1>7. RunSettled' /\ Needed'
    BY <1>1, <1>2, <1>3, <1>6 DEF RunSettled, Needed, Closing, Settled, Unmoved,
       AlreadyOnRelease
  <1> QED
    BY <1>4, <1>5, <1>7 DEF Truthful

LEMMA DecideTruthful == ASSUME Known, DecideRouterboot PROVE Truthful'
  <1>1. pc = "loop" /\ pc' = "loop" /\ run.at = ROUTERBOOT_UPDATE
    BY DEF DecideRouterboot, Goto
  <1>2. run \in Run /\ UNCHANGED <<disk, job>> /\ Unmoved
    BY DEF DecideRouterboot, Known, Inv, ProcessTypeOK, Unmoved, environment, router, durable
  <1>3. Settled(run.version) /\ job.stage # COMPLETE /\ disk.stage # COMPLETE
    BY <1>1 DEF Known, Truthful, RunSettled, NotClosed, Closing, Running, UpgradePC
  <1>4. FileSettled'
    BY <1>2, FileKept DEF Known, Truthful, Unmoved
  <1>5. run'.version = run.version
    BY <1>2 DEF DecideRouterboot, Run
  <1>6. Settled(run.version)'
    BY <1>2, <1>3, <1>5 DEF Settled, Unmoved, AlreadyOnRelease
  <1> QED
    BY <1>1, <1>2, <1>3, <1>4, <1>6 DEF Truthful, NotClosed, RunSettled, Needed

\* A run saves its job in progress.
LEMMA ProgressSaved ==
    ASSUME Known, pc \in Running, NEW j \in Job, Saved(j) \/ SaveError(j), Unmoved,
           j.status \in {"in_progress", "failed"}, j.release = run.version,
           j.stage # COMPLETE \/ Settled(run.version)
    PROVE  FileSettled'
  <1>1. run.version \in Release
    BY PCs DEF Known, Inv, Control
  <1>2. disk' \in {disk, j}
    BY DEF Saved, SaveError
  <1>3. FileSettled /\ UNCHANGED <<installed, phase>>
    BY DEF Known, Truthful, Unmoved
  <1>4. j.release \in Release /\ (j.stage = COMPLETE => Settled(j.release))
    BY <1>1
  <1> QED
    BY <1>2, <1>3, <1>4, FileSaved

LEMMA EnterTruthful == ASSUME Known, EnterStage PROVE Truthful'
  <1> DEFINE j == [job EXCEPT !.stage = run.at]
  <1>1. pc = "loop" /\ (Saved(j) \/ SaveError(j)) /\ Unmoved /\ job \in Job /\ run \in Run
    BY DEF EnterStage, Unmoved, Known, Inv, ProcessTypeOK, router
  <1>2. OwnedBy(job, run.version) /\ pc \in Running
    BY <1>1 DEF Known, Coherent, Running, UpgradePC
  <1>3. /\ j.status = "in_progress" /\ j.release = run.version /\ j.stage = run.at
        /\ j.facts = job.facts /\ j \in Job
    BY <1>1, <1>2 DEF OwnedBy, Job, Run
  <1>4. j.stage = COMPLETE => Settled(run.version)
    BY <1>1, <1>3 DEF Known, Truthful, RunSettled, Closing
  <1>5. Stop \/ (Saved(j) /\ job' = j /\ pc' = "step" /\ run' = run)
    BY DEF EnterStage, Goto
  <1>6. /\ run.at \in Skippable /\ ~run.needsValidate => ~OnTarget
        /\ run.at \in RouterbootStages => run.skipRB # "yes"
    BY DEF EnterStage, SkipBecauseCurrent, RouterbootStages, Skippable
  <1> HIDE DEF j
  <1>7. FileSettled'
    BY <1>1, <1>2, <1>3, <1>4, ProgressSaved
  <1>8. CASE Stop
    BY <1>7, <1>8, IdleTruthful DEF Stop
  <1>9. CASE Saved(j) /\ job' = j /\ pc' = "step" /\ run' = run
    <2>1. Needed'
      BY <1>3, <1>5, <1>6, <1>9 DEF Needed, OnTarget, AlreadyOnRelease
    <2>2. NotClosed' /\ RunSettled'
      BY <1>1, <1>3, <1>4, <1>9 DEF NotClosed, RunSettled, Closing, Saved, Settled,
         Unmoved, AlreadyOnRelease
    <2> QED
      BY <1>7, <2>1, <2>2 DEF Truthful
  <1> QED
    BY <1>5, <1>8, <1>9

(***************************************************************************)
(* The bodies of the stages.                                               *)
(***************************************************************************)
LEMMA DiscoverTruthful == ASSUME Known, Discover PROVE Truthful'
  <1> DEFINE j == [job EXCEPT !.facts = installed]
  <1>1. /\ pc = "refresh" \/ (pc = "step" /\ run.at = DISCOVER)
        /\ job' = j /\ (Saved(j) \/ SaveError(j)) /\ Unmoved
    BY DEF Discover, At, Unmoved, router
  <1>2. job \in Job /\ run \in Run /\ installed \in Facts
    BY DEF Known, Inv, World, EnvironmentTypeOK, ProcessTypeOK
  <1>3. OwnedBy(job, run.version) /\ pc \in Running /\ job.stage # COMPLETE
    BY <1>1 DEF Known, Truthful, NotClosed, Closing, Coherent, Running, UpgradePC
  <1>4. /\ j.status = "in_progress" /\ j.release = run.version /\ j.stage = job.stage
        /\ j.facts = installed /\ j \in Job
    BY <1>2, <1>3 DEF OwnedBy, Job
  <1>5. Connected
    BY DEF Discover
  <1>6. \/ pc' = "failing"
        \/ /\ pc' = "loop" /\ Saved(j)
           /\ \/ pc = "refresh" /\ run' = run
              \/ run.at = DISCOVER /\ run' = [run EXCEPT !.at = @ + 1]
    BY <1>1 DEF Discover, NextStage, Goto
  <1> HIDE DEF j
  <1>7. FileSettled'
    BY <1>1, <1>3, <1>4, ProgressSaved
  <1>8. CASE pc' = "failing"
    BY <1>1, <1>3, <1>4, <1>7, <1>8, FailingTruthful
  <1>9. CASE /\ pc' = "loop" /\ Saved(j)
             /\ \/ pc = "refresh" /\ run' = run
                \/ run.at = DISCOVER /\ run' = [run EXCEPT !.at = @ + 1]
    <2>1. run'.version = run.version /\ run'.at \in PREFLIGHT..STAGE_PACKAGES
      BY <1>1, <1>2, <1>9 DEF Run, Known, Truthful, RunSettled
    <2>2. OnTarget' => Settled(run.version)'
      BY <1>1, <1>4, <1>5, <2>1, AnswerSettles DEF Known, Truthful, OnTarget, Settled, Unmoved,
         AlreadyOnRelease
    <2> QED
      BY <1>1, <1>3, <1>4, <1>7, <1>9, <2>1, <2>2
         DEF Truthful, NotClosed, RunSettled, Needed, Closing, Saved
  <1> QED
    BY <1>6, <1>8, <1>9

\* The bodies that lead back to the loop without having asked for a release.
LEMMA BodyTruthful ==
    ASSUME Known, Preflight \/ AlreadyBackedUp \/ Backup PROVE Truthful'
  <1>1. /\ pc = "step" /\ run.at \in {PREFLIGHT, EXPORT_TEXT, SAVE_BINARY_BACKUP}
        /\ job' = job /\ Unmoved
        /\ disk' = disk \/ Saved(job) \/ SaveError(job)
    BY DEF Preflight, AlreadyBackedUp, Backup, At, Unmoved, environment, router, durable
  <1>2. job \in Job /\ run \in Run
    BY DEF Known, Inv, ProcessTypeOK
  <1>3. OwnedBy(job, run.version) /\ pc \in Running /\ ~Closing
        /\ job.stage # COMPLETE /\ disk.stage # COMPLETE
    BY <1>1 DEF Known, Truthful, NotClosed, Closing, Coherent, Running, UpgradePC
  <1>4. FileSettled'
    BY <1>1, <1>2, <1>3, ProgressSaved, FileKept DEF OwnedBy, Unmoved, Known, Truthful
  <1>5. CASE pc' = "failing"
    BY <1>1, <1>3, <1>4, <1>5, FailingTruthful
  <1>6. CASE pc' = "loop"
    <2>1. /\ run'.version = run.version /\ run'.at = run.at + 1
          /\ run'.needsValidate = run.needsValidate
      BY <1>1, <1>2, <1>6 DEF Preflight, AlreadyBackedUp, Backup, NextStage, Goto, Run
    <2>2. disk'.stage # COMPLETE
      BY <1>1, <1>3 DEF Saved, SaveError
    <2>3. ~run.needsValidate => ~OnTarget'
      BY <1>1, <2>1 DEF Known, Truthful, Needed, OnTarget, AlreadyOnRelease, Skippable
    <2> QED
      BY <1>1, <1>3, <1>4, <1>6, <2>1, <2>2, <2>3
         DEF Truthful, NotClosed, RunSettled, Needed, Closing
  <1> QED
    BY <1>5, <1>6 DEF Preflight, AlreadyBackedUp, Backup, NextStage, Goto

\* The bodies that go on at another point of the same stage.
LEMMA InsideTruthful ==
    ASSUME Known, StagePackages \/ KeepBaseline \/ InventBaseline \/ FillBaseline
    PROVE  Truthful'
  <1>1. /\ \/ pc = "step" /\ run.at \in {STAGE_PACKAGES, REBOOT, ROUTERBOOT_UPDATE}
           \/ pc = "snapshot"
        /\ UNCHANGED <<disk, job>> /\ Unmoved /\ pc' \in {"upload", "command", "snapshot"}
    BY DEF StagePackages, KeepBaseline, InventBaseline, FillBaseline, At, Goto, Unmoved,
       environment, router, durable
  <1>2. /\ run'.version = run.version /\ run'.at = run.at
        /\ run'.needsValidate = run.needsValidate /\ run'.skipRB = run.skipRB
    BY DEF StagePackages, KeepBaseline, InventBaseline, FillBaseline, Known, Inv,
       ProcessTypeOK, Run
  <1>3. pc \in Running /\ ~Closing
    BY <1>1 DEF Closing, Running, UpgradePC
  <1>4. FileSettled'
    BY <1>1, FileKept DEF Unmoved, Known, Truthful
  <1>5. NotClosed' /\ RunSettled'
    BY <1>1, <1>3 DEF Known, Truthful, NotClosed, RunSettled, Closing
  <1>6. Needed'
    BY <1>1, <1>2 DEF Known, Truthful, Needed, OnTarget, AlreadyOnRelease
  <1> QED
    BY <1>4, <1>5, <1>6 DEF Truthful

LEMMA UploadTruthful == ASSUME Known, NEW p \in Package, UploadFile(p) PROVE Truthful'
  <1>1. /\ pc = "upload" /\ run.at = STAGE_PACKAGES /\ pc' \in {"upload", "loop"}
        /\ UNCHANGED <<disk, job>> /\ Unmoved /\ run \in Run
    BY DEF UploadFile, Upload, Goto, Unmoved, durable, Known, Inv, Control, ProcessTypeOK
  <1>2. /\ run'.version = run.version /\ run'.needsValidate = run.needsValidate
        /\ run'.at = IF pc' = "upload" THEN run.at ELSE run.at + 1
    <2>1. CASE run.todo = {p}
      <3>1. pc' = "loop" /\ run' = [run EXCEPT !.todo = {}, !.at = @ + 1]
        BY <2>1 DEF UploadFile, Goto
      <3> QED
        BY <1>1, <3>1 DEF Run
    <2>2. CASE run.todo # {p}
      <3>1. pc' = "upload" /\ run' = [run EXCEPT !.todo = @ \ {p}]
        BY <2>2 DEF UploadFile, Goto
      <3> QED
        BY <1>1, <3>1 DEF Run
    <2> QED
      BY <2>1, <2>2
  <1>3. job.stage # COMPLETE /\ disk.stage # COMPLETE
    BY <1>1 DEF Known, Truthful, NotClosed, Closing, Running, UpgradePC
  <1>4. FileSettled'
    BY <1>1, FileKept DEF Unmoved, Known, Truthful
  <1>5. ~run.needsValidate => ~OnTarget'
    BY <1>1, <1>2 DEF Known, Truthful, Needed, OnTarget, AlreadyOnRelease, Skippable
  <1> QED
    BY <1>1, <1>2, <1>3, <1>4, <1>5 DEF Truthful, NotClosed, RunSettled, Needed, Closing

\* The commands that the loop goes on after.
LEMMA CommandTruthful ==
    ASSUME Known, ~ShutdownLag, RebootDevice \/ UpgradeRouterboot PROVE Truthful'
  <1>1. /\ UNCHANGED <<disk, job>> /\ pc' = "loop" /\ run' = [run EXCEPT !.at = @ + 1]
        /\ \/ pc = "command" /\ run.at = REBOOT /\ Reboot
           \/ pc = "step" /\ run.at = REBOOT_ROUTERBOOT /\ Reboot
           \/ pc = "command" /\ run.at = ROUTERBOOT_UPDATE /\ ArmFirmware
    BY DEF RebootDevice, UpgradeRouterboot, At, NextStage, Goto, durable
  <1>2. /\ run'.version = run.version /\ run'.needsValidate = run.needsValidate
        /\ run'.at = run.at + 1 /\ run'.skipRB = run.skipRB
    BY <1>1 DEF Known, Inv, ProcessTypeOK, Run
  <1>3. pc \in Running /\ ~Closing /\ job.stage # COMPLETE /\ disk.stage # COMPLETE
    BY <1>1 DEF Known, Truthful, NotClosed, Closing, Running, UpgradePC
  <1>4. FileSettled'
    BY <1>1, <1>3, FileKept, FileRebooted DEF ArmFirmware, Known, Truthful
  <1>5. run.at = REBOOT /\ ~run.needsValidate => ~OnTarget'
    BY <1>1, <1>2 DEF Known, Truthful, Needed, OnTarget, AlreadyOnRelease, Skippable
  <1>6. run.at \in {ROUTERBOOT_UPDATE, REBOOT_ROUTERBOOT} => run.skipRB # "yes"
    BY <1>1 DEF Known, Truthful, Needed, RouterbootStages
  <1>7. run'.at \in {WAIT_FOR_RECONNECT, REBOOT_ROUTERBOOT, VALIDATE_ROLE_AFTER_ROUTERBOOT}
    BY <1>1, <1>2
  <1>8. NotClosed' /\ Needed'
    BY <1>1, <1>3 DEF NotClosed, Needed
  <1>9. RunSettled'
    BY <1>1, <1>2, <1>5, <1>6, <1>7 DEF RunSettled, Closing, Skippable
  <1> QED
    BY <1>4, <1>8, <1>9 DEF Truthful

LEMMA CheckTruthful ==
    ASSUME Known, Reconnect \/ ReconnectTimeout \/ ValidationPasses \/ ValidationFails
    PROVE  Truthful'
  <1>1. /\ \/ pc = "step" /\ run.at \in {WAIT_FOR_RECONNECT, VALIDATE_ROLE,
                                        VALIDATE_ROLE_AFTER_ROUTERBOOT}
           \/ pc = "check" /\ run.at = VALIDATE_ROLE_AFTER_ROUTERBOOT
        /\ UNCHANGED <<disk, job>> /\ Unmoved
    BY DEF Reconnect, ReconnectTimeout, ValidationPasses, ValidationFails, Checking, At,
       Unmoved, environment, router, durable, Known, Inv, Control
  <1>2. job.stage # COMPLETE /\ disk.stage # COMPLETE /\ run \in Run
    BY <1>1 DEF Known, Truthful, NotClosed, Closing, Running, UpgradePC, Inv, ProcessTypeOK
  <1>3. FileSettled'
    BY <1>1, FileKept DEF Unmoved, Known, Truthful
  <1>4. CASE pc' \in {"check", "restore"}
    BY <1>1, <1>2, <1>3, <1>4 DEF Truthful, NotClosed, RunSettled, Needed, Closing
  <1>5. CASE pc' = "loop" /\ run' = [run EXCEPT !.at = @ + 1]
    <2>1. /\ run'.version = run.version /\ run'.needsValidate = run.needsValidate
          /\ run'.at = run.at + 1
      BY <1>2, <1>5 DEF Run
    <2>2. run.at # WAIT_FOR_RECONNECT => Settled(run.version)
      <3>1. CASE ValidationPasses
        BY <3>1, AnswerSettles DEF ValidationPasses, CheckPasses, Known, Truthful
      <3>2. CASE ~ValidationPasses
        BY <1>5, <3>2 DEF Reconnect, ReconnectTimeout, ValidationFails, Goto
      <3> QED
        BY <3>1, <3>2
    <2>3. Settled(run.version) => Settled(run.version)'
      BY <1>1, <2>1 DEF Unmoved, Settled, AlreadyOnRelease
    <2>4. run.at = WAIT_FOR_RECONNECT /\ ~run.needsValidate => ~OnTarget'
      BY <1>1, <1>5, <2>1 DEF Known, Truthful, Needed, OnTarget, AlreadyOnRelease, Skippable,
         Reconnect, ReconnectTimeout, ValidationPasses, ValidationFails, Checking, At, Goto,
         NextStage
    <2>5. run'.at \in {VALIDATE_ROLE, ROUTERBOOT_UPDATE, COMPLETE}
      BY <1>1, <2>1
    <2>6. RunSettled'
      BY <1>1, <1>5, <2>1, <2>2, <2>3, <2>4, <2>5 DEF RunSettled, Closing
    <2> QED
      BY <1>1, <1>2, <1>3, <1>5, <2>6 DEF Truthful, NotClosed, Needed
  <1> QED
    BY <1>4, <1>5 DEF Reconnect, ReconnectTimeout, ValidationPasses, ValidationFails,
       NextStage, Goto

(***************************************************************************)
(* The guarded restore.                                                    *)
(***************************************************************************)
RestorePoints == {"restore"} \cup Restoring

\* The steps of a restore keep the job open until the previous release is there.
LEMMA RestoreTruthful ==
    ASSUME Known, ~ShutdownLag,
           \/ RestoreBegins \/ NothingToRestore \/ RestoreReboot \/ RestoreReconnect
           \/ RestoreCopy \/ RestoreFill \/ RestoreCheck
           \/ \E p \in Package : RestoreUpload(p)
    PROVE  Truthful'
  <1>1. /\ pc \in RestorePoints /\ pc' \in RestorePoints \cup {"failing"}
        /\ UNCHANGED <<disk, job>>
        /\ Unmoved \/ Reboot
    BY DEF RestoreBegins, NothingToRestore, RestoreReboot, RestoreReconnect, RestoreCopy,
       RestoreFill, RestoreCheck, RestoreUpload, Upload, Goto, RestorePoints, Restoring,
       Unmoved, environment, router, durable
  <1>2. pc \in Running /\ ~Closing
    BY <1>1 DEF RestorePoints, Restoring, Running, UpgradePC, Closing
  <1>3. FileSettled'
    BY <1>1, <1>2, FileKept, FileRebooted DEF Unmoved, Known, Truthful
  <1>4. CASE pc' = "failing"
    BY <1>1, <1>2, <1>3, <1>4, FailsTruthful DEF Known, Truthful
  <1>5. CASE pc' \in RestorePoints
    <2>1. NotClosed' /\ Needed'
      BY <1>1, <1>2, <1>5 DEF Known, Truthful, NotClosed, Needed, RestorePoints, Restoring
    <2>2. pc' = "restoreSave" => Settled(Previous)'
      <3>1. ASSUME pc' = "restoreSave"
            PROVE  Unmoved /\ Settled(Previous) /\ Previous' = Previous
        <4>1. RestoreCheck /\ CheckPasses(Previous, FALSE)
          BY <3>1 DEF RestoreBegins, NothingToRestore, RestoreReboot, RestoreReconnect,
             RestoreCopy, RestoreFill, RestoreCheck, RestoreUpload, Goto
        <4> QED
          BY <4>1, AnswerSettles DEF RestoreCheck, CheckPasses, Unmoved, environment, router,
             Previous, Known, Truthful
      <3> QED
        BY <3>1 DEF Settled, AlreadyOnRelease, Unmoved
    <2>3. RunSettled'
      BY <1>5, <2>2 DEF RunSettled, Closing, RestorePoints, Restoring
    <2> QED
      BY <1>3, <2>1, <2>3 DEF Truthful
  <1> QED
    BY <1>1, <1>4, <1>5

LEMMA RestoreSaveTruthful == ASSUME Known, RestoreSave PROVE Truthful'
  <1> DEFINE j == [job EXCEPT !.status = "complete", !.stage = COMPLETE,
                              !.release = Previous, !.abandoned = run.version]
  <1>1. pc = "restoreSave" /\ (Saved(j) \/ SaveError(j)) /\ Unmoved
    BY DEF RestoreSave, Unmoved, router
  <1>2. pc' = "idle" \/ (pc' = "failing" /\ job' = job)
    BY DEF RestoreSave, Stop, Goto
  <1>3. job \in Job /\ run \in Run /\ run.version \in Release /\ Previous \in Release
    BY <1>1, PreviousTyped DEF Known, Inv, ProcessTypeOK, Control, Restoring
  <1>4. j \in Job /\ j.status = "complete"
    <2>1. j \in Job
      BY ONLY <1>3, RestoredJob
    <2> QED
      BY <1>3, <2>1 DEF Job
  <1>5. job.stage # COMPLETE
    BY <1>1 DEF Known, Truthful, NotClosed, Closing, Running, UpgradePC
  <1> HIDE DEF j
  <1>6. FileSettled'
    <2>1. FileSettled /\ UNCHANGED <<installed, phase>>
      BY <1>1 DEF Known, Truthful, Unmoved
    <2>2. disk' \in {disk, j}
      BY <1>1 DEF Saved, SaveError
    <2> QED
      BY <1>4, <2>1, <2>2, FileSaved
  <1> QED
    BY <1>2, <1>5, <1>6, IdleTruthful, FailingTruthful

(***************************************************************************)
(* COMPLETE, the rollback's end, and the errors.                           *)
(***************************************************************************)
LEMMA CloseTruthful ==
    ASSUME Known,
           \/ Complete \/ CompleteFailure \/ PushAudit \/ RollbackPush \/ RollbackPushFails
    PROVE  Truthful'
  <1> DEFINE j == [job EXCEPT !.status = "in_progress", !.stage = COMPLETE]
  <1>1. /\ \/ pc = "step" /\ run.at = COMPLETE
           \/ pc \in {"push", "rollPush"}
        /\ pc' \in {"push", "settle", "lament", "rollSettle"} /\ run' = run /\ Unmoved
        /\ disk' = disk \/ Saved(j) \/ SaveError(j)
    BY DEF Complete, CompleteFailure, PushAudit, RollbackPush, RollbackPushFails, At, Goto,
       Unmoved, environment, router, durable
  <1>2. job \in Job
    BY DEF Known, Inv, ProcessTypeOK
  <1>3. pc \in Running /\ Settled(run.version) /\ OwnedBy(job, run.version)
    BY <1>1 DEF Known, Truthful, RunSettled, Closing, Coherent, Running, UpgradePC, RollbackPC
  <1>4. j \in Job /\ j.status = "in_progress" /\ j.release = run.version
    <2> DEFINE i == [job EXCEPT !.status = "in_progress"]
    <2>1. i \in Job /\ i.release = run.version
      BY <1>2, <1>3 DEF Job, Status, OwnedBy
    <2> HIDE DEF i
    <2>2. [i EXCEPT !.stage = COMPLETE] \in Job
      BY <2>1 DEF Job
    <2>3. j = [i EXCEPT !.stage = COMPLETE]
      BY DEF i
    <2> QED
      BY <1>2, <1>3, <2>2, <2>3 DEF Job, OwnedBy
  <1> HIDE DEF j
  <1>5. FileSettled'
    BY <1>1, <1>3, <1>4, ProgressSaved, FileKept DEF Unmoved, Known, Truthful
  <1> QED
    BY <1>1, <1>3, <1>5, ClosingTruthful

LEMMA SettleTruthful ==
    ASSUME Known, Settle \/ RollbackSettle \/ Lament PROVE Truthful'
  <1> DEFINE j == [job EXCEPT !.status = "complete"]
  <1>1. /\ pc \in {"settle", "rollSettle", "lament"} /\ Unmoved
        /\ pc' = "idle" \/ (pc' = "lament" /\ run' = run)
    BY DEF Settle, RollbackSettle, Lament, Stop, Goto, Unmoved, router
  <1>2. job \in Job /\ run.version \in Release
    BY <1>1 DEF Known, Inv, ProcessTypeOK, Control
  <1>3. Settled(run.version)
    BY <1>1 DEF Known, Truthful, RunSettled, Closing
  <1>4. job.release = run.version /\ job.status \in {"in_progress", "complete"}
    BY <1>1 DEF Known, Coherent, MayLament, OwnedBy, Running, UpgradePC, RollbackPC
  <1>5. j \in Job /\ j.status = "complete"
    BY <1>2 DEF Job, Status
  <1>6. FileSettled /\ UNCHANGED <<installed, phase>>
    BY <1>1 DEF Known, Truthful, Unmoved
  <1>7. disk' \in {disk, j} \/ disk' \in {disk, job}
    BY DEF Settle, RollbackSettle, Lament, Saved, SaveError
  <1> HIDE DEF j
  <1>8. FileSettled'
    <2>1. CASE disk' \in {disk, j}
      BY <1>5, <1>6, <2>1, FileSaved
    <2>2. CASE disk' \in {disk, job}
      <3>1. job.release \in Release /\ (job.stage = COMPLETE => Settled(job.release))
        BY <1>2, <1>3, <1>4
      <3> QED
        BY <1>2, <1>4, <1>6, <2>2, <3>1, FileSaved
    <2> QED
      BY <1>7, <2>1, <2>2
  <1> QED
    BY <1>1, <1>3, <1>8, IdleTruthful, ClosingTruthful

LEMMA MarkFailedTruthful == ASSUME Known, MarkFailed PROVE Truthful'
  <1> DEFINE j == [job EXCEPT !.status = "failed"]
  <1>1. pc = "failing" /\ pc' = "idle" /\ (Saved(j) \/ SaveError(j)) /\ Unmoved
    BY DEF MarkFailed, Stop, Unmoved, router
  <1>2. job \in Job /\ run.version \in Release /\ job.release = run.version
    BY <1>1 DEF Known, Inv, ProcessTypeOK, Control, Coherent, MayFail
  <1>3. job.stage = COMPLETE => Settled(run.version)
    BY <1>1 DEF Known, Truthful, RunSettled
  <1>4. j \in Job /\ j.status = "failed" /\ j.release = run.version /\ j.stage = job.stage
    BY <1>2 DEF Job, Status
  <1>5. FileSettled /\ UNCHANGED <<installed, phase>>
    BY <1>1 DEF Known, Truthful, Unmoved
  <1>6. disk' \in {disk, j}
    BY <1>1 DEF Saved, SaveError
  <1> HIDE DEF j
  <1>7. j.release \in Release /\ (j.stage = COMPLETE => Settled(j.release))
    BY <1>2, <1>3, <1>4
  <1>8. FileSettled'
    BY <1>4, <1>5, <1>6, <1>7, FileSaved
  <1> QED
    BY <1>1, <1>8, IdleTruthful

LEMMA ErrorTruthful ==
    ASSUME Known, ~ShutdownLag,
           \/ NoBaseline \/ RemoteFailure \/ Unconfirmed \/ LocalFailure
           \/ RollbackMismatch \/ RollbackFails
    PROVE  Truthful'
  <1>1. pc \in Running /\ ~Closing
    BY DEF NoBaseline, RemoteFailure, Unconfirmed, LocalFailure, RollbackMismatch,
       RollbackFails, At, Closing, Running, UpgradePC, RollbackPC
  <1>2. pc' = "failing" /\ UNCHANGED <<disk, job>> /\ (Unmoved \/ Reboot)
    BY DEF NoBaseline, RemoteFailure, Unconfirmed, LocalFailure, RollbackMismatch,
       RollbackFails, Goto, Unmoved, ArmFirmware, environment, router, durable
  <1>3. FileSettled'
    BY <1>1, <1>2, FileKept, FileRebooted DEF Unmoved, Known, Truthful
  <1> QED
    BY <1>1, <1>2, <1>3, FailsTruthful DEF Known, Truthful

(***************************************************************************)
(* The rollback and the commands.                                          *)
(***************************************************************************)

\* A rollback that has not found its release yet is open, and claims nothing.
RollingBack == {"rollUpload", "rollMarkReboot", "rollReboot", "rollMarkWait", "rollWait",
                "rollVerify"}

LEMMA RollingTruthful ==
    ASSUME FileSettled', pc' \in RollingBack, job'.stage # COMPLETE, disk'.stage # COMPLETE
    PROVE  Truthful'
  BY DEF Truthful, NotClosed, RunSettled, Needed, Closing, RollingBack

LEMMA RollbackTruthful ==
    ASSUME Known, ~ShutdownLag,
           \/ RollbackMark \/ RollbackReboot \/ RollbackReconnect
           \/ \E p \in Package : RollbackUpload(p)
    PROVE  Truthful'
  <1> DEFINE j == [job EXCEPT !.stage = IF pc = "rollMarkReboot" THEN REBOOT
                                                             ELSE WAIT_FOR_RECONNECT]
  <1>1. /\ pc \in RollingBack /\ pc' \in RollingBack
        /\ \/ UNCHANGED <<disk, job>> /\ (Unmoved \/ Reboot)
           \/ (Saved(j) \/ SaveError(j)) /\ job' = j /\ Unmoved
    BY DEF RollbackMark, RollbackReboot, RollbackReconnect, RollbackUpload, Upload, Goto,
       RollingBack, Unmoved, environment, router, durable
  <1>2. pc \in Running /\ ~Closing
    BY <1>1 DEF RollingBack, Running, RollbackPC, UpgradePC, Closing
  <1>3. job \in Job /\ OwnedBy(job, run.version) /\ job.stage # COMPLETE /\ disk.stage # COMPLETE
    BY <1>2 DEF Known, Inv, ProcessTypeOK, Coherent, Truthful, NotClosed
  <1>4. j \in Job /\ j.status = "in_progress" /\ j.release = run.version /\ j.stage # COMPLETE
    BY <1>3 DEF Job, OwnedBy
  <1> HIDE DEF j
  <1>5. FileSettled'
    BY <1>1, <1>2, <1>4, FileKept, FileRebooted, ProgressSaved DEF Unmoved, Known, Truthful
  <1>6. disk'.stage # COMPLETE
    BY <1>1, <1>3, <1>4 DEF Saved, SaveError
  <1> QED
    BY <1>1, <1>3, <1>4, <1>5, <1>6, RollingTruthful

LEMMA VerifiedTruthful == ASSUME Known, RollbackVerified PROVE Truthful'
  <1> DEFINE j == [job EXCEPT !.facts = installed, !.stage = COMPLETE]
  <1>1. /\ pc = "rollVerify" /\ (Saved(j) \/ SaveError(j)) /\ Unmoved
        /\ pc' = "idle" \/ (pc' = "rollPush" /\ run' = run)
    BY DEF RollbackVerified, Stop, Goto, Unmoved, router
  <1>2. Settled(run.version)
    BY AnswerSettles DEF RollbackVerified, Known, Truthful
  <1>3. job \in Job /\ installed \in Facts /\ pc \in Running /\ OwnedBy(job, run.version)
    BY <1>1 DEF Known, Inv, World, EnvironmentTypeOK, ProcessTypeOK, Coherent, Running,
       RollbackPC
  <1>4. j \in Job /\ j.status = "in_progress" /\ j.release = run.version
    <2> DEFINE i == [job EXCEPT !.facts = installed]
    <2>1. i \in Job /\ i.status = "in_progress" /\ i.release = run.version
      BY <1>3 DEF Job, OwnedBy
    <2> HIDE DEF i
    <2>2. [i EXCEPT !.stage = COMPLETE] \in Job
      BY <2>1 DEF Job
    <2>3. j = [i EXCEPT !.stage = COMPLETE]
      BY DEF i
    <2> QED
      BY <1>3, <2>2, <2>3 DEF Job, OwnedBy
  <1> HIDE DEF j
  <1>5. FileSettled'
    BY <1>1, <1>2, <1>3, <1>4, ProgressSaved
  <1> QED
    BY <1>1, <1>2, <1>5, IdleTruthful, ClosingTruthful

\* A job that is not at its beginning is one that a resume takes up again.
LEMMA TakenUp ==
    ASSUME NEW v, NEW named, NEW resume, disk \in Job, FileSettled, MayStart(v, named, resume),
           Opened.stage # DISCOVER
    PROVE  Opened = disk /\ Unfinished /\ resume /\ disk.release = v
  <1>1. disk.status # "complete"
    BY DEF Opened, NewJob
  <1>2. Opened = disk
    BY <1>1 DEF Opened
  <1>3. Unfinished
    BY <1>1, <1>2 DEF FileSettled, Unfinished, Job, Status
  <1> QED
    BY <1>2, <1>3 DEF MayStart, FileSettled, Unfinished

\* Where the run of an upgrade begins.
LEMMA StartedAt ==
    ASSUME Known, NEW v \in Release, NEW named, NEW resume \in BOOLEAN,
           StartUpgrade(v, named, resume)
    PROVE  /\ disk' = job' /\ job' \in Job /\ Unmoved /\ run'.version = v
           /\ job'.release = v /\ job'.status = "in_progress"
           /\ job'.stage = Opened.stage /\ job'.facts = Opened.facts
           /\ run'.at = StartIndex(job'.stage, resume) /\ run'.skipRB = "unset"
           /\ run'.needsValidate = (resume /\ job'.stage \in DISCOVER + 1..COMPLETE - 1)
           /\ pc' = IF run'.at \in DISCOVER + 1..STAGE_PACKAGES THEN "refresh" ELSE "loop"
           /\ job'.stage # DISCOVER
                => Opened = disk /\ Unfinished /\ resume /\ disk.release = v
  <1> DEFINE j == [Opened EXCEPT !.release = v, !.status = "in_progress"]
             i == [Opened EXCEPT !.release = v]
  <1>1. disk \in Job /\ Opened \in Job /\ FileSettled
    BY OpenedTyped DEF Known, Inv, World, DurableTypeOK, Truthful
  <1>2. j \in Job
    <2>1. i \in Job
      BY <1>1 DEF Job
    <2> HIDE DEF i
    <2>2. [i EXCEPT !.status = "in_progress"] \in Job
      BY <2>1 DEF Job, Status
    <2> QED
      BY <2>2 DEF i
  <1>3. /\ j.release = v /\ j.status = "in_progress" /\ j.stage = Opened.stage
        /\ j.facts = Opened.facts
    BY <1>1 DEF Job
  <1>4. /\ Unmoved /\ disk' = j /\ job' = j /\ run'.version = v
        /\ run'.at = StartIndex(j.stage, resume) /\ run'.skipRB = "unset"
        /\ run'.needsValidate = (resume /\ j.stage \in DISCOVER + 1..COMPLETE - 1)
        /\ pc' = IF run'.at \in DISCOVER + 1..STAGE_PACKAGES THEN "refresh" ELSE "loop"
    BY DEF StartUpgrade, Saved, Goto, Unmoved, router, NoRun
  <1>5. j.stage # DISCOVER => Opened = disk /\ Unfinished /\ resume /\ disk.release = v
    BY <1>1, <1>3, TakenUp DEF StartUpgrade
  <1> HIDE DEF j
  <1> QED
    BY <1>2, <1>3, <1>4, <1>5

LEMMA StartUpgradeTruthful ==
    ASSUME Known, NEW v \in Release, NEW named, NEW resume \in BOOLEAN,
           StartUpgrade(v, named, resume)
    PROVE  Truthful'
  <1>1. FileSettled /\ job' \in Job /\ job'.stage \in DISCOVER..COMPLETE
    BY StartedAt DEF Known, Truthful, Job
  <1>2. job'.stage = COMPLETE => Settled(v)
    <2> SUFFICES ASSUME job'.stage = COMPLETE PROVE Settled(v)
      OBVIOUS
    <2>1. Unfinished /\ disk.release = v /\ disk.stage = COMPLETE
      BY StartedAt
    <2>2. Settled(disk.release)
      BY <1>1, <2>1 DEF FileSettled
    <2> QED
      BY <2>1, <2>2
  <1>3. FileSettled'
    <2>1. /\ disk'.release = v /\ disk'.status = "in_progress" /\ disk'.stage = job'.stage
          /\ Unmoved
      BY StartedAt
    <2>2. phase' # "going"
      BY <1>1, <2>1 DEF FileSettled, Unmoved
    <2>3. disk'.stage = COMPLETE => Settled(v)'
      BY <1>2, <2>1 DEF Settled, AlreadyOnRelease, Unmoved
    <2> QED
      BY <2>1, <2>2, <2>3 DEF FileSettled, Unfinished, Settled, AlreadyOnRelease
  <1>4. /\ run'.at = COMPLETE <=> job'.stage = COMPLETE
        /\ run'.at \notin {VALIDATE_ROLE, ROUTERBOOT_UPDATE, REBOOT_ROUTERBOOT}
        /\ run'.at \in Skippable => run'.needsValidate
    BY <1>1, StartedAt DEF StartIndex, Skippable
  <1>5. NotClosed' /\ Needed'
    BY <1>4, StartedAt DEF NotClosed, Needed, Closing
  <1>6. RunSettled'
    BY <1>2, <1>4, StartedAt
       DEF RunSettled, Closing, Skippable, Settled, AlreadyOnRelease, Unmoved
  <1> QED
    BY <1>3, <1>5, <1>6 DEF Truthful

LEMMA BlockedTruthful ==
    ASSUME Known, NEW v \in Release, NEW named, NEW resume,
           BlockedByDependency(v, named, resume)
    PROVE  Truthful'
  <1>1. disk \in Job /\ Opened \in Job /\ FileSettled
    BY OpenedTyped DEF Known, Inv, World, DurableTypeOK, Truthful
  <1>2. /\ pc' = "failing" /\ disk' = disk /\ Unmoved /\ run'.version = v
        /\ job' = [Opened EXCEPT !.release = v]
    BY DEF BlockedByDependency, Goto, Unmoved, router, NoRun
  <1>3. job'.stage = Opened.stage
    BY <1>1, <1>2 DEF Job
  <1>4. FileSettled'
    BY <1>1, <1>2, FileKept DEF Unmoved
  <1>5. ASSUME Opened.stage = COMPLETE PROVE Settled(v)
    <2>1. Unfinished /\ disk.release = v /\ disk.stage = COMPLETE
      BY <1>1, <1>5, TakenUp DEF BlockedByDependency
    <2>2. Settled(disk.release)
      BY <1>1, <2>1 DEF FileSettled
    <2> QED
      BY <2>1, <2>2
  <1>6. job'.stage = COMPLETE => Settled(run.version)'
    BY <1>2, <1>3, <1>5 DEF Settled, AlreadyOnRelease, Unmoved
  <1> QED
    BY <1>2, <1>4, <1>6, FailingTruthful

LEMMA StartRollbackTruthful ==
    ASSUME Known, NEW v \in Release, StartRollback(v) PROVE Truthful'
  <1> DEFINE j == [status |-> "in_progress", release |-> v, stage |-> STAGE_PACKAGES,
                   abandoned |-> None, facts |-> installed]
  <1>1. installed \in Facts /\ FileSettled
    BY DEF Known, Inv, World, EnvironmentTypeOK, Truthful
  <1>2. j \in Job /\ j.status = "in_progress" /\ j.stage = STAGE_PACKAGES /\ j.release = v
    BY <1>1 DEF Job, Status
  <1>3. pc' = "rollUpload" /\ disk' = j /\ job' = j /\ UNCHANGED <<installed, phase>>
    BY DEF StartRollback, Saved, Goto, router
  <1> HIDE DEF j
  <1>4. FileSettled'
    <2>1. j.release \in Release /\ (j.stage = COMPLETE => Settled(j.release))
      BY <1>2
    <2> QED
      BY <1>1, <1>2, <1>3, <2>1, FileSaved
  <1> QED
    BY <1>2, <1>3, <1>4, RollingTruthful DEF RollingBack

LEMMA OtherCommandTruthful ==
    ASSUME Known, DiscoverCommand \/ VerifySnapshot \/ VerifyFill \/ Crash \/ Hang \/ Interrupt
    PROVE  Truthful'
  <1>1. pc' \in {"idle", "verifyFill", "hung"} /\ UNCHANGED <<installed, phase>> /\ FileSettled
    BY DEF DiscoverCommand, VerifySnapshot, VerifyFill, Crash, Hang, Interrupt, Stop, Goto,
       process,
       environment, router, Known, Truthful
  <1>2. CASE DiscoverCommand
    <2>1. disk' = [disk EXCEPT !.facts = installed,
                               !.status = IF @ = "" THEN "pending" ELSE @]
      BY <1>2 DEF DiscoverCommand, Saved
    <2>2. /\ disk'.stage = disk.stage /\ disk'.release = disk.release
          /\ disk'.status = IF disk.status = "" THEN "pending" ELSE disk.status
      BY <2>1 DEF Known, Inv, World, DurableTypeOK, Job
    <2>3. FileSettled'
      BY <1>1, <2>2 DEF FileSettled, Unfinished, Settled, AlreadyOnRelease
    <2> QED
      BY <1>1, <2>3, IdleTruthful
  <1>3. CASE VerifySnapshot \/ VerifyFill \/ Crash \/ Hang \/ Interrupt
    <2>1. disk' = disk
      BY <1>3 DEF VerifySnapshot, VerifyFill, Crash, Hang, Interrupt, durable
    <2> QED
      BY <1>1, <2>1, FileKept, IdleTruthful
  <1> QED
    BY <1>2, <1>3

\* What the device does by itself: a device that is down has settled nothing.
LEMMA ElsewhereTruthful ==
    ASSUME Known, ~PowerCuts,
           \/ Deadline \/ UNCHANGED vars
           \/ EnvironmentStep /\ UNCHANGED <<durable, process>>
    PROVE  Truthful'
  <1>1. UNCHANGED <<disk, job, run, pc>> /\ FileSettled
    BY DEF Deadline, durable, process, vars, Known, Truthful
  <1>2. CASE Unmoved
    BY <1>1, <1>2, FileKept DEF Known, Truthful, NotClosed, RunSettled, Needed, Closing,
       OnTarget, Settled, AlreadyOnRelease, Unmoved, Previous
  <1>3. CASE ~Unmoved
    <2>1. phase = "down" /\ phase' = "up"
      BY <1>1, <1>3 DEF Deadline, vars, environment, router, EnvironmentStep, GoDown, PowerCut,
         Boot, Unmoved, FileSettled
    <2>2. \A r : ~Settled(r)
      BY <2>1 DEF Settled
    <2>3. FileSettled'
      BY <1>1, <2>1 DEF FileSettled, Unfinished, Settled
    <2>4. NotClosed' /\ Needed'
      BY <1>1 DEF Known, Truthful, NotClosed, Needed, Closing, OnTarget, AlreadyOnRelease
    <2>5. RunSettled'
      BY <1>1, <2>1 DEF Known, Truthful, RunSettled, Closing, OnTarget, Settled,
         AlreadyOnRelease
    <2> QED
      BY <2>3, <2>4, <2>5 DEF Truthful
  <1> QED
    BY <1>2, <1>3

(***************************************************************************)
(* The theorem.                                                            *)
(***************************************************************************)
LEMMA InitTruthful == Init => Truthful
  <1> SUFFICES ASSUME Init PROVE Truthful
    OBVIOUS
  <1>1. pc = "idle" /\ phase = "up" /\ disk = NewJob
    BY DEF Init, EnvironmentInit, JobStoreInit
  <1>2. FileSettled
    BY <1>1 DEF FileSettled, Unfinished, NewJob
  <1>3. NotClosed /\ RunSettled /\ Needed
    BY <1>1, PCs DEF NotClosed, RunSettled, Needed, Closing
  <1> QED
    BY <1>2, <1>3 DEF Truthful

LEMMA NextTruthful == ASSUME ~PowerCuts, ~ShutdownLag, Known, [Next]_vars PROVE Truthful'
  <1>1. CASE StartCommand
    BY <1>1, StartUpgradeTruthful, BlockedTruthful, StartRollbackTruthful DEF StartCommand
  <1>2. CASE UpgradeStep
    BY <1>2, SkipTruthful, DecideTruthful, EnterTruthful, DiscoverTruthful, BodyTruthful,
       InsideTruthful, UploadTruthful, CommandTruthful, CheckTruthful, RestoreTruthful,
       RestoreSaveTruthful, CloseTruthful, SettleTruthful, MarkFailedTruthful, ErrorTruthful
       DEF UpgradeStep
  <1>3. CASE RollbackStep
    BY <1>3, RollbackTruthful, VerifiedTruthful, CloseTruthful, SettleTruthful, ErrorTruthful
       DEF RollbackStep
  <1>4. CASE DiscoverCommand \/ VerifySnapshot \/ VerifyFill \/ Crash \/ Hang \/ Interrupt
    BY <1>4, OtherCommandTruthful
  <1>5. CASE \/ Deadline \/ UNCHANGED vars
             \/ EnvironmentStep /\ UNCHANGED <<durable, process>>
    BY <1>5, ElsewhereTruthful
  <1> QED
    BY <1>1, <1>2, <1>3, <1>4, <1>5 DEF Next, ProcessStep

\* The steps that complete a job, and the release they complete it on.
LEMMA Completes ==
    ASSUME Known, [Next]_vars, disk'.status = "complete", disk.status # "complete"
    PROVE  /\ pc \in {"settle", "lament", "rollSettle", "restoreSave"}
           /\ disk'.release = IF pc = "restoreSave" THEN Previous ELSE run.version
  <1>1. disk' # disk /\ disk \in Job /\ job \in Job
    BY DEF Known, Inv, World, DurableTypeOK, ProcessTypeOK
  <1>2. CASE StartCommand
    <2>1. ASSUME NEW v \in Release, NEW named, NEW resume, StartUpgrade(v, named, resume)
          PROVE  FALSE
      <3>1. Opened \in Job /\ disk' = [Opened EXCEPT !.release = v, !.status = "in_progress"]
        BY <1>1, <2>1, OpenedTyped DEF StartUpgrade, Saved
      <3> QED
        BY <3>1 DEF Job
    <2>2. ASSUME NEW v, NEW named, NEW resume,
                 BlockedByDependency(v, named, resume) \/ StartRollback(v)
          PROVE  FALSE
      BY <1>1, <2>2 DEF BlockedByDependency, StartRollback, Saved
    <2> QED
      BY <1>2, <2>1, <2>2 DEF StartCommand
  <1>3. CASE DiscoverCommand
    BY <1>1, <1>3 DEF DiscoverCommand, Saved, Job
  <1>4. CASE EnterStage \/ Discover \/ Backup \/ Complete \/ MarkFailed \/ RollbackMark
             \/ RollbackVerified
    <2>1. job.status = "in_progress" \/ MarkFailed
      BY <1>4 DEF EnterStage, Discover, Backup, Complete, RollbackMark, RollbackVerified, At,
         Known, Coherent, OwnedBy, Running, UpgradePC, RollbackPC
    <2>2. CASE EnterStage
      <3> DEFINE j == [job EXCEPT !.stage = run.at]
      <3>1. j.status = "in_progress"
        BY <1>1, <2>1, <2>2 DEF EnterStage, At, MarkFailed, Job
      <3>2. disk' \in {disk, j}
        BY <2>2 DEF EnterStage, Saved, SaveError
      <3> QED
        BY <1>1, <3>1, <3>2
    <2>3. CASE Discover
      <3> DEFINE j == [job EXCEPT !.facts = installed]
      <3>1. j.status = "in_progress"
        BY <1>1, <2>1, <2>3 DEF Discover, At, MarkFailed, Job
      <3>2. disk' \in {disk, j}
        BY <2>3 DEF Discover, Saved, SaveError
      <3> QED
        BY <1>1, <3>1, <3>2
    <2>4. CASE Backup
      <3> DEFINE j == job
      <3>1. j.status = "in_progress"
        BY <1>1, <2>1, <2>4 DEF Backup, At, MarkFailed, Job
      <3>2. disk' \in {disk, j}
        BY <2>4 DEF Backup, Saved, SaveError
      <3> QED
        BY <1>1, <3>1, <3>2
    <2>5. CASE RollbackVerified
      <3> DEFINE j == [job EXCEPT !.facts = installed, !.stage = COMPLETE]
      <3>1. j.status = "in_progress"
        BY <1>1, <2>1, <2>5 DEF RollbackVerified, At, MarkFailed, Job
      <3>2. disk' \in {disk, j}
        BY <2>5 DEF RollbackVerified, Saved, SaveError
      <3> QED
        BY <1>1, <3>1, <3>2
    <2>6. CASE RollbackMark
      <3> DEFINE j == [job EXCEPT !.stage = IF pc = "rollMarkReboot"
                                            THEN REBOOT ELSE WAIT_FOR_RECONNECT]
      <3>1. j.status = "in_progress"
        BY <1>1, <2>1, <2>6 DEF RollbackMark, At, MarkFailed, Job
      <3>2. disk' \in {disk, j}
        BY <2>6 DEF RollbackMark, Saved, SaveError
      <3> QED
        BY <1>1, <3>1, <3>2
    <2>7. CASE Complete
      BY <1>1, <2>7 DEF Complete, Saved, SaveError, Job
    <2>8. CASE MarkFailed
      BY <1>1, <2>8 DEF MarkFailed, Saved, SaveError, Job
    <2> QED
      BY <1>4, <2>2, <2>3, <2>4, <2>5, <2>6, <2>7, <2>8
  <1>5. CASE Settle \/ RollbackSettle \/ Lament
    <2>1. pc \in {"settle", "lament", "rollSettle"} /\ job.release = run.version
      BY <1>5 DEF Settle, RollbackSettle, Lament, Known, Coherent, MayLament, OwnedBy, Running,
         UpgradePC, RollbackPC
    <2> QED
      BY <1>1, <1>5, <2>1 DEF Settle, RollbackSettle, Lament, Saved, SaveError, Job
  <1>6. CASE RestoreSave
    BY <1>1, <1>6 DEF RestoreSave, Saved, SaveError, Job
  <1>7. CASE \/ VerifySnapshot \/ VerifyFill \/ Crash \/ Hang \/ Interrupt \/ Deadline
             \/ EnvironmentStep /\ UNCHANGED <<durable, process>>
             \/ UNCHANGED vars
    BY <1>1, <1>7 DEF VerifySnapshot, VerifyFill, Crash, Hang, Interrupt, Deadline, durable,
       vars
  <1>8. CASE ProcessStep
    <2>1. \/ EnterStage \/ Discover \/ Backup \/ Complete \/ MarkFailed \/ RollbackMark
          \/ RollbackVerified \/ Settle \/ RollbackSettle \/ Lament \/ RestoreSave
      BY <1>1, <1>8 DEF ProcessStep, VerifyFill, UpgradeStep, RollbackStep, SkipStage,
         DecideRouterboot, Preflight, AlreadyBackedUp, StagePackages, UploadFile,
         RestoreUpload, KeepBaseline, InventBaseline, FillBaseline, NoBaseline, RebootDevice,
         UpgradeRouterboot, Reconnect, ReconnectTimeout, ValidationPasses, ValidationFails,
         RestoreBegins, NothingToRestore, RestoreReboot, RestoreReconnect, RestoreCopy,
         RestoreFill, RestoreCheck, PushAudit, RemoteFailure, Unconfirmed, LocalFailure,
         CompleteFailure, RollbackUpload, RollbackReboot, RollbackReconnect,
         RollbackMismatch, RollbackPush, RollbackPushFails, RollbackFails, durable
    <2> QED
      BY <1>4, <1>5, <1>6, <2>1
  <1> QED
    BY <1>2, <1>3, <1>7, <1>8 DEF Next

LEMMA CompletedSettled ==
    ASSUME Known, [Next]_vars, disk'.status = "complete", disk.status # "complete"
    PROVE  Settled(disk'.release)
  <1>1. CASE pc = "restoreSave"
    <2>1. Settled(Previous) /\ disk'.release = Previous
      BY <1>1, Completes DEF Known, Truthful, RunSettled
    <2> QED
      BY <2>1
  <1>2. CASE pc # "restoreSave"
    <2>1. Settled(run.version) /\ disk'.release = run.version
      BY <1>2, Completes DEF Known, Truthful, RunSettled, Closing
    <2> QED
      BY <2>1
  <1> QED
    BY <1>1, <1>2

\* A job that becomes complete tells the truth: the device runs its release,
\* through crashes, failed saves, lost answers, resumed runs, restores and
\* rollbacks, on a device that reboots only and at once when it is told to.
THEOREM CompletionTruth ==
    ASSUME ~PowerCuts, ~ShutdownLag PROVE Spec => CompletedOnRelease
  <1>1. Init => Known
    BY InitInv, InitGood, InitTrail, InitTruthful DEF Known
  <1>2. Known /\ [Next]_vars => Known'
    BY NextInv, NextGood, NextTrail, NextTruthful DEF Known
  <1>3. Known /\ [Next]_vars
          => [disk'.status = "complete" /\ disk.status # "complete"
                => AlreadyOnRelease(installed, disk'.release)]_vars
    BY CompletedSettled DEF Settled
  <1> QED
    BY <1>1, <1>2, <1>3, PTL DEF Spec, CompletedOnRelease

(***************************************************************************)
(* The record that was pushed.                                             *)
(***************************************************************************)

\* The record goes out, or is out, and the job is not complete yet.
Recording == {"push", "settle", "rollPush", "rollSettle"}

\* Only a job whose file is at COMPLETE has a record, until it is complete.
Pushed ==
    /\ pc \in Running \ {"settle", "rollSettle"} => audit = None
    /\ disk.status = "complete" => audit \in {None, disk.release}
    /\ disk.status # "complete" /\ audit # None /\ disk.release = audit
          => disk.stage = COMPLETE
    /\ pc = "failing" /\ audit # None /\ job.release = audit => job.stage = COMPLETE
    /\ pc \in Recording \cup {"lament"} => job.stage = COMPLETE
    /\ pc \in Recording => disk.stage = COMPLETE
    /\ pc = "step" /\ run.at = COMPLETE => job.stage = COMPLETE

\* A file that is of no job yet has no release, and no record.
FileReleased ==
    /\ disk.status \in {"", "pending"} => disk.release = None
    /\ disk.release = None => audit = None

LEMMA NextReleased ==
    ASSUME Coherent, FileReleased, LifecycleStep PROVE FileReleased'
  <1>1. CASE UNCHANGED Lifecycle!vars
    BY <1>1 DEF Lifecycle!vars, FileReleased
  <1>2. CASE Lifecycle!Discover \/ Lifecycle!Fail \/ Lifecycle!Record \/ Lifecycle!Finish
    BY <1>2 DEF Lifecycle!Discover, Lifecycle!Fail, Lifecycle!Record, Lifecycle!Finish,
       FileReleased, Coherent
  <1>3. ASSUME NEW v \in Release,
               \/ Lifecycle!Begin(v) \/ Lifecycle!Block(v)
               \/ Lifecycle!Rollback(v) \/ Lifecycle!Restore(v)
        PROVE  FileReleased'
    BY <1>3 DEF Lifecycle!Begin, Lifecycle!Block, Lifecycle!TakeUp, Lifecycle!Rollback,
       Lifecycle!Restore, FileReleased
  <1> QED
    BY <1>1, <1>2, <1>3 DEF LifecycleStep, Lifecycle!Next

\* Without a record nothing is claimed before the last stage.
LEMMA Unpushed ==
    ASSUME audit' = None, pc' \notin Recording \cup {"lament", "step"} PROVE Pushed'
  BY DEF Pushed, Running

\* A command that is over leaves what the file says.
LEMMA FilePushed ==
    ASSUME Pushed, UNCHANGED <<disk, audit>>, pc' \in {"idle", "verifyFill", "hung"}
    PROVE  Pushed'
  BY DEF Pushed, Running, UpgradePC, RollbackPC, Recording

LEMMA StartPushed ==
    ASSUME Inv, Pushed, FileReleased, NEW v \in Release, NEW named, NEW resume,
           \/ StartUpgrade(v, named, resume)
           \/ BlockedByDependency(v, named, resume)
           \/ StartRollback(v)
    PROVE  Pushed'
  <1>1. CASE StartUpgrade(v, named, resume) \/ StartRollback(v)
    BY <1>1, Unpushed DEF StartUpgrade, StartRollback, Goto, Recording
  <1>2. CASE BlockedByDependency(v, named, resume)
    <2>1. /\ UNCHANGED <<disk, audit>> /\ pc' = "failing"
          /\ job' = [Opened EXCEPT !.release = v] /\ MayStart(v, named, resume)
      BY <1>2 DEF BlockedByDependency, Goto
    <2>2. disk \in Job /\ v # None
      BY DEF Inv, World, DurableTypeOK
    <2>3. CASE disk.status = "complete"
      <3>1. job'.release = v
        BY <2>1, <2>2, <2>3 DEF Opened, NewJob
      <3>2. disk.release # v
        BY <2>1, <2>3 DEF MayStart
      <3> QED
        BY <2>1, <2>3, <3>1, <3>2 DEF Pushed, Running, Recording
    <2>4. CASE disk.status # "complete"
      <3>1. job'.release = v /\ job'.stage = disk.stage
        BY <2>1, <2>2, <2>4 DEF Opened, Job
      <3>2. disk.release \in {None, v}
        BY <2>1, <2>2, <2>4 DEF MayStart, FileReleased, Job, Status
      <3> QED
        BY <2>1, <2>2, <2>4, <3>1, <3>2 DEF Pushed, FileReleased, Running, Recording
    <2> QED
      BY <2>3, <2>4
  <1> QED
    BY <1>1, <1>2

\* A step of a running command that has not pushed anything.
LEMMA OnwardPushed ==
    ASSUME Inv, Pushed, pc \in Running \ Recording, UpgradeStep \/ RollbackStep
    PROVE  Pushed'
  <1>1. audit = None
    BY DEF Pushed, Recording
  <1>2. audit' = None
    BY <1>1 DEF UpgradeStep, RollbackStep, SkipStage, DecideRouterboot, EnterStage, Discover,
       Preflight, Backup, AlreadyBackedUp, StagePackages, UploadFile, RestoreUpload,
       KeepBaseline, InventBaseline, FillBaseline, NoBaseline, RebootDevice,
       UpgradeRouterboot, Reconnect, ReconnectTimeout, ValidationPasses, ValidationFails,
       RestoreBegins, NothingToRestore, RestoreReboot, RestoreReconnect, RestoreCopy,
       RestoreFill, RestoreCheck, RestoreSave, Complete, PushAudit, Settle, Lament,
       RemoteFailure, Unconfirmed, LocalFailure, CompleteFailure, MarkFailed,
       RollbackUpload, RollbackMark, RollbackReboot, RollbackReconnect, RollbackVerified,
       RollbackMismatch, RollbackPush, RollbackPushFails, RollbackSettle, RollbackFails,
       durable, Recording
  <1>3. CASE pc' \notin Recording \cup {"lament", "step"}
    BY <1>2, <1>3, Unpushed
  <1>4. CASE EnterStage
    <2>1. \/ job'.stage = run.at /\ run' = run /\ pc' = "step"
          \/ pc' = "idle"
      BY <1>4 DEF EnterStage, Goto, Stop, Inv, ProcessTypeOK, Job
    <2> QED
      BY <1>2, <2>1 DEF Pushed, Running, Recording
  <1>5. CASE Complete
    <2>1. /\ job'.stage = COMPLETE
          /\ \/ pc' = "push" /\ disk' = job'
             \/ pc' = "lament"
      BY <1>5 DEF Complete, Saved, Goto, Inv, ProcessTypeOK, Job
    <2> QED
      BY <1>2, <2>1 DEF Pushed, Running, Recording
  <1>6. CASE CompleteFailure
    <2>1. pc' = "lament" /\ job' = job /\ job.stage = COMPLETE
      BY <1>6 DEF CompleteFailure, At, Pushed, Recording, Goto
    <2> QED
      BY <1>2, <2>1 DEF Pushed, Running, Recording
  <1>7. CASE RollbackVerified
    <2>1. \/ pc' = "rollPush" /\ disk' = job' /\ job'.stage = COMPLETE
          \/ pc' = "idle"
      BY <1>7 DEF RollbackVerified, Saved, Goto, Stop, Inv, ProcessTypeOK, Job
    <2> QED
      BY <1>2, <2>1 DEF Pushed, Running, Recording
  <1>8. CASE ~EnterStage /\ ~Complete /\ ~CompleteFailure /\ ~RollbackVerified
    BY <1>3, <1>8 DEF UpgradeStep, RollbackStep, SkipStage, DecideRouterboot, Discover,
       Preflight, Backup, AlreadyBackedUp, StagePackages, UploadFile, RestoreUpload,
       KeepBaseline, InventBaseline, FillBaseline, NoBaseline, RebootDevice,
       UpgradeRouterboot, Reconnect, ReconnectTimeout, ValidationPasses, ValidationFails,
       RestoreBegins, NothingToRestore, RestoreReboot, RestoreReconnect, RestoreCopy,
       RestoreFill, RestoreCheck, RestoreSave, PushAudit, Settle, Lament, RemoteFailure,
       Unconfirmed, LocalFailure, MarkFailed, RollbackUpload, RollbackMark, RollbackReboot,
       RollbackReconnect, RollbackMismatch, RollbackPush, RollbackPushFails, RollbackSettle,
       RollbackFails, NextStage, Goto, Stop, Running, Recording
  <1> QED
    BY <1>4, <1>5, <1>6, <1>7, <1>8

\* A step of a command whose record goes out, is out, or that has failed.
LEMMA RecordPushed ==
    ASSUME Inv, Coherent, Pushed, pc \in Recording \cup {"failing", "lament"},
           UpgradeStep \/ RollbackStep
    PROVE  Pushed'
  <1>1. job \in Job /\ disk \in Job
    BY DEF Inv, World, DurableTypeOK, ProcessTypeOK
  <1>2. CASE PushAudit \/ RollbackPush
    <2>1. /\ pc \in {"push", "rollPush"} /\ pc' \in {"settle", "rollSettle"}
          /\ UNCHANGED <<disk, job>>
      BY <1>2 DEF PushAudit, RollbackPush, Goto
    <2>2. disk.status = "in_progress"
      BY <2>1 DEF Coherent, OwnedBy, Running, UpgradePC, RollbackPC
    <2> QED
      BY <2>1, <2>2 DEF Pushed, Running, Recording
  <1>3. CASE CompleteFailure \/ RollbackPushFails
    <2>1. pc' = "lament" /\ UNCHANGED <<disk, job, audit>>
      BY <1>3 DEF CompleteFailure, RollbackPushFails, Goto, durable
    <2> QED
      BY <2>1, <1>3 DEF Pushed, Running, Recording, CompleteFailure, RollbackPushFails, At
  <1>4. CASE Settle \/ RollbackSettle
    <2> DEFINE j == [job EXCEPT !.status = "complete"]
    <2>1. /\ disk' \in {disk, j} /\ audit' = audit
          /\ pc' = "idle" \/ (pc' = "lament" /\ job' = j)
      BY <1>4 DEF Settle, RollbackSettle, Saved, SaveError, Goto, Stop
    <2>2. /\ j.status = "complete" /\ j.stage = COMPLETE /\ j.release = audit
      BY <1>1, <1>4 DEF Settle, RollbackSettle, Job, Pushed, Recording, Coherent, OwnedBy,
         Running, UpgradePC, RollbackPC
    <2> HIDE DEF j
    <2> QED
      BY <1>4, <2>1, <2>2 DEF Settle, RollbackSettle, Pushed, Running, Recording, UpgradePC,
         RollbackPC
  <1>5. CASE Lament
    <2>1. disk' \in {disk, job} /\ audit' = audit /\ pc' = "idle"
      BY <1>5 DEF Lament, Saved, SaveError, Stop
    <2>2. job.stage = COMPLETE /\ (job.status = "complete" => audit = job.release)
      BY <1>5 DEF Lament, Pushed, Coherent, MayLament
    <2> QED
      BY <2>1, <2>2 DEF Pushed, Running, Recording, UpgradePC, RollbackPC
  <1>6. CASE MarkFailed
    <2> DEFINE j == [job EXCEPT !.status = "failed"]
    <2>1. disk' \in {disk, j} /\ audit' = audit /\ pc' = "idle"
      BY <1>6 DEF MarkFailed, Saved, SaveError, Stop
    <2>2. j.status = "failed" /\ j.stage = job.stage /\ j.release = job.release
      BY <1>1 DEF Job
    <2>3. audit # None /\ job.release = audit => job.stage = COMPLETE
      BY <1>6 DEF MarkFailed, Pushed
    <2> HIDE DEF j
    <2> QED
      BY <2>1, <2>2, <2>3 DEF Pushed, Running, Recording, UpgradePC, RollbackPC
  <1>7. \/ PushAudit \/ RollbackPush \/ CompleteFailure \/ RollbackPushFails \/ Settle
        \/ RollbackSettle \/ Lament \/ MarkFailed
    BY DEF UpgradeStep, RollbackStep, SkipStage, DecideRouterboot, EnterStage, Discover,
       Preflight, Backup, AlreadyBackedUp, StagePackages, UploadFile, RestoreUpload,
       KeepBaseline, InventBaseline, FillBaseline, NoBaseline, RebootDevice,
       UpgradeRouterboot, Reconnect, ReconnectTimeout, ValidationPasses, ValidationFails,
       RestoreBegins, NothingToRestore, RestoreReboot, RestoreReconnect, RestoreCopy,
       RestoreFill, RestoreCheck, RestoreSave, Complete, RemoteFailure, Unconfirmed,
       LocalFailure, RollbackUpload, RollbackMark, RollbackReboot, RollbackReconnect,
       RollbackVerified, RollbackMismatch, RollbackFails, At, Checking, Recording
  <1> QED
    BY <1>2, <1>3, <1>4, <1>5, <1>6, <1>7

LEMMA NextPushed ==
    ASSUME Inv, Coherent, Pushed, FileReleased, [Next]_vars PROVE Pushed'
  <1>1. CASE StartCommand
    BY <1>1, StartPushed DEF StartCommand
  <1>2. CASE DiscoverCommand
    <2> DEFINE j == [disk EXCEPT !.facts = installed, !.status = IF @ = "" THEN "pending" ELSE @]
    <2>1. disk' = j /\ audit' = audit /\ pc' = "idle"
      BY <1>2 DEF DiscoverCommand, Saved, process
    <2>2. /\ j.stage = disk.stage /\ j.release = disk.release
          /\ j.status = "complete" <=> disk.status = "complete"
      BY DEF Inv, World, DurableTypeOK, Job
    <2> HIDE DEF j
    <2> QED
      BY <2>1, <2>2 DEF Pushed, Running, Recording, UpgradePC, RollbackPC
  <1>3. CASE VerifySnapshot \/ VerifyFill \/ Crash \/ Hang \/ Interrupt
    BY <1>3, FilePushed DEF VerifySnapshot, VerifyFill, Crash, Hang, Interrupt, Goto, Stop,
       durable
  <1>4. CASE \/ Deadline \/ UNCHANGED vars
             \/ EnvironmentStep /\ UNCHANGED <<durable, process>>
    BY <1>4 DEF Deadline, durable, process, vars, Pushed
  <1>5. CASE UpgradeStep \/ RollbackStep
    <2>1. pc \in UpgradePC \cup RollbackPC
      BY <1>5 DEF UpgradeStep, RollbackStep, SkipStage, DecideRouterboot, EnterStage,
         Discover, Preflight, Backup, AlreadyBackedUp, StagePackages, UploadFile,
         RestoreUpload, KeepBaseline, InventBaseline, FillBaseline, NoBaseline,
         RebootDevice, UpgradeRouterboot, Reconnect, ReconnectTimeout, ValidationPasses,
         ValidationFails, RestoreBegins, NothingToRestore, RestoreReboot,
         RestoreReconnect, RestoreCopy, RestoreFill, RestoreCheck, RestoreSave, Complete,
         PushAudit, Settle, Lament, RemoteFailure, Unconfirmed, LocalFailure,
         CompleteFailure, MarkFailed, RollbackUpload, RollbackMark, RollbackReboot,
         RollbackReconnect, RollbackVerified, RollbackMismatch, RollbackPush,
         RollbackPushFails, RollbackSettle, RollbackFails, At, Checking, UpgradePC, RollbackPC
    <2>2. CASE pc \in Recording \cup {"failing", "lament"}
      BY <1>5, <2>2, RecordPushed
    <2>3. CASE pc \in Running \ Recording
      BY <1>5, <2>3, OnwardPushed
    <2> QED
      BY <2>1, <2>2, <2>3 DEF Running
  <1> QED
    BY <1>1, <1>2, <1>3, <1>4, <1>5 DEF Next, ProcessStep

LEMMA InitPushed == Init => Pushed /\ FileReleased
  <1> SUFFICES ASSUME Init PROVE Pushed /\ FileReleased
    OBVIOUS
  <1>1. disk.status = "" /\ disk.release = None
    BY DEF Init, JobStoreInit, NewJob
  <1>2. audit = None /\ pc = "idle"
    BY DEF Init
  <1>3. "idle" \notin Running \cup Recording
    BY PCs DEF Recording
  <1> QED
    BY <1>1, <1>2, <1>3 DEF Pushed, FileReleased

\* A record in the ops repository whose job is not complete says the truth: the
\* device runs its release, whatever failed after the push, and goes on to do so
\* until the job is taken up again.
THEOREM RecordTruth ==
    ASSUME ~PowerCuts, ~ShutdownLag PROVE Spec => []RecordTrue
  <1> DEFINE Whole == Known /\ Pushed /\ FileReleased
  <1>1. Init => Whole
    BY InitInv, InitGood, InitTrail, InitTruthful, InitPushed DEF Known
  <1>2. Whole /\ [Next]_vars => Whole'
    BY NextInv, NextGood, NextTrail, NextTruthful, NextPushed, NextReleased DEF Known
  <1>3. Whole => RecordTrue
    BY DEF Known, Truthful, FileSettled, Settled, Unfinished, Inv, World, DurableTypeOK, Job,
       Status, Pushed, FileReleased, RecordTrue
  <1> QED
    BY <1>1, <1>2, <1>3, PTL DEF Spec
=============================================================================
