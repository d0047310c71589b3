-------------------------- MODULE LifecycleProofs --------------------------
(***************************************************************************)
(* The job file of Rosup lives the life JobLifecycle describes, for every  *)
(* set of releases and packages, every number of faults and every device;  *)
(* in particular no job is complete before the ops repository has it.      *)
(*                                                                         *)
(* The file alone does not show this: what a step writes is the process's  *)
(* own copy of the job.  Coherent says how that copy and the file hang     *)
(* together at each point of a command.                                    *)
(***************************************************************************)
EXTENDS RosupProofs

USE EnvironmentAssumption, RosupAssumption
    DEF EnvironmentAssumption, RosupAssumption

Running == (UpgradePC \cup RollbackPC) \ {"failing", "lament"}

\* Job j is in progress towards release v.
OwnedBy(j, v) == j.status = "in_progress" /\ j.release = v /\ j.abandoned = None

\* markFailed may overwrite the file with a failed job for release v.
MayFail(v) ==
    /\ job.release = v /\ job.abandoned = None
    /\ disk.status \in {"in_progress", "failed"} => disk.release \in {None, v}
    /\ disk.status = "complete" => disk.release # v

\* The file is, or has just become, the job of release v being settled.
MayLament(v) ==
    /\ job.release = v /\ job.abandoned = None
    /\ job.status \in {"in_progress", "complete"}
    /\ job.status = "complete" => audit = v
    /\ disk.release = v /\ disk.abandoned = None
    /\ \/ disk.status = "in_progress"
       \/ disk.status = "complete" /\ job.status = "complete"

Coherent ==
    /\ disk.status # "complete" => disk.abandoned = None
    /\ disk.status = "in_progress" => disk.release # None
    /\ pc \in Running => OwnedBy(job, run.version) /\ OwnedBy(disk, run.version)
    /\ pc \in {"settle", "rollSettle"} => audit = run.version
    /\ pc = "failing" => MayFail(run.version)
    /\ pc = "lament" => MayLament(run.version)

\* What a step of Rosup is to a reader of the job file.
LifecycleStep == [Lifecycle!Next]_(Lifecycle!vars)

Good == Coherent' /\ LifecycleStep

\* The points a step of a running job leads to, but for the push itself.
Onward == (Running \ {"settle", "rollSettle"}) \cup {"failing", "lament"}

LEMMA PCs ==
    /\ "idle" \notin Running /\ "verifyFill" \notin Running /\ "hung" \notin Running
    /\ "failing" \notin Running /\ "lament" \notin Running
    /\ "settle" \in Running /\ "rollSettle" \in Running
  BY DEF Running, UpgradePC, RollbackPC

\* A step of a running job that leaves it in progress.
LEMMA OnwardGood ==
    ASSUME Inv, pc \in Running, OwnedBy(disk, run.version),
           OwnedBy(disk', run.version), OwnedBy(job', run.version),
           audit' = audit, run'.version = run.version, pc' \in Onward
    PROVE  Good
  <1>1. run.version \in Release
    BY PCs DEF Inv, Control
  <1>2. Coherent'
    <2>1. disk'.status = "in_progress" /\ disk'.release = run'.version
          /\ disk'.abandoned = None /\ disk'.release # None
      BY <1>1 DEF OwnedBy
    <2>2. pc' \notin {"settle", "rollSettle"}
      BY DEF Onward
    <2>3. MayFail(run.version)' /\ MayLament(run.version)'
      BY <2>1 DEF OwnedBy, MayFail, MayLament
    <2>4. (OwnedBy(job, run.version) /\ OwnedBy(disk, run.version))'
      OBVIOUS
    <2> QED
      BY <2>1, <2>2, <2>3, <2>4 DEF Coherent
  <1>3. UNCHANGED Lifecycle!vars
    BY DEF Lifecycle!vars, OwnedBy
  <1> QED
    BY <1>2, <1>3 DEF Good, LifecycleStep

\* A command that stops in the middle of its job leaves it in progress.
LEMMA StopGood ==
    ASSUME Inv, pc \in Running, OwnedBy(disk, run.version),
           OwnedBy(disk', run.version), audit' = audit, pc' = "idle"
    PROVE  Good
  <1>1. run.version \in Release
    BY PCs DEF Inv, Control
  <1>2. Coherent'
    <2>1. disk'.status = "in_progress" /\ disk'.abandoned = None /\ disk'.release # None
      BY <1>1 DEF OwnedBy
    <2> QED
      BY <2>1, PCs DEF Coherent
  <1>3. UNCHANGED Lifecycle!vars
    BY DEF Lifecycle!vars, OwnedBy
  <1> QED
    BY <1>2, <1>3 DEF Good, LifecycleStep

(***************************************************************************)
(* The steps of a running job.                                             *)
(***************************************************************************)

\* The steps that touch neither the file nor the process's copy of the job.
LEMMA QuietGood ==
    ASSUME Inv, Coherent, pc \in Running, UNCHANGED <<disk, audit, job>>,
           run'.version = run.version, pc' \in Onward
    PROVE  Good
  BY OnwardGood DEF Coherent, OwnedBy

LEMMA LoopGood ==
    ASSUME Inv, Coherent,
           \/ SkipStage \/ DecideRouterboot \/ Preflight \/ AlreadyBackedUp
           \/ StagePackages \/ KeepBaseline \/ NoBaseline \/ Reconnect
           \/ ReconnectTimeout \/ ValidationPasses \/ ValidationFails
    PROVE  Good
  <1>1. run \in Run
    BY DEF Inv, ProcessTypeOK
  <1>2. pc \in Running
    BY DEF SkipStage, DecideRouterboot, Preflight, AlreadyBackedUp, StagePackages,
       KeepBaseline, NoBaseline, Reconnect, ReconnectTimeout, ValidationPasses,
       ValidationFails, At, Checking, Running, UpgradePC
  <1>3. pc' \in Onward
    BY DEF SkipStage, DecideRouterboot, Preflight, AlreadyBackedUp, StagePackages,
       KeepBaseline, NoBaseline, Reconnect, ReconnectTimeout, ValidationPasses,
       ValidationFails, NextStage, Goto, Onward, Running, UpgradePC
  <1>4. run'.version = run.version
    BY <1>1 DEF SkipStage, DecideRouterboot, Preflight, AlreadyBackedUp, StagePackages,
       KeepBaseline, NoBaseline, Reconnect, ReconnectTimeout, ValidationPasses,
       ValidationFails, NextStage, Run
  <1>5. UNCHANGED <<disk, audit, job>>
    BY DEF SkipStage, DecideRouterboot, Preflight, AlreadyBackedUp, StagePackages,
       KeepBaseline, NoBaseline, Reconnect, ReconnectTimeout, ValidationPasses,
       ValidationFails, durable
  <1> QED
    BY <1>2, <1>3, <1>4, <1>5, QuietGood

LEMMA DeviceGood ==
    ASSUME Inv, Coherent,
           \/ \E p \in Package : UploadFile(p) \/ RestoreUpload(p) \/ RollbackUpload(p)
           \/ RebootDevice \/ UpgradeRouterboot \/ RestoreReboot \/ RollbackReboot
           \/ InventBaseline \/ FillBaseline
    PROVE  Good
  <1>1. run \in Run
    BY DEF Inv, ProcessTypeOK
  <1>2. CASE \E p \in Package : UploadFile(p) \/ RestoreUpload(p) \/ RollbackUpload(p)
    <2>1. pc \in Running /\ pc' \in Onward
      BY <1>2 DEF UploadFile, RestoreUpload, RollbackUpload, Goto, Onward, Running,
         UpgradePC, RollbackPC
    <2>2. run'.version = run.version
      BY <1>1, <1>2 DEF UploadFile, RestoreUpload, RollbackUpload, Run
    <2>3. UNCHANGED <<disk, audit, job>>
      BY <1>2 DEF UploadFile, RestoreUpload, RollbackUpload, durable
    <2> QED
      BY <2>1, <2>2, <2>3, QuietGood
  <1>3. CASE \/ RebootDevice \/ UpgradeRouterboot \/ RestoreReboot \/ RollbackReboot
             \/ InventBaseline \/ FillBaseline
    <2>1. pc \in Running /\ pc' \in Onward
      BY <1>3 DEF RebootDevice, UpgradeRouterboot, RestoreReboot, RollbackReboot,
         InventBaseline, FillBaseline, NextStage, At, Goto, Onward, Running,
         UpgradePC, RollbackPC
    <2>2. run'.version = run.version
      BY <1>1, <1>3 DEF RebootDevice, UpgradeRouterboot, RestoreReboot, RollbackReboot,
         InventBaseline, FillBaseline, NextStage, Run
    <2>3. UNCHANGED <<disk, audit, job>>
      BY <1>3 DEF RebootDevice, UpgradeRouterboot, RestoreReboot, RollbackReboot,
         InventBaseline, FillBaseline, durable
    <2> QED
      BY <2>1, <2>2, <2>3, QuietGood
  <1> QED
    BY <1>2, <1>3

LEMMA RestoreGood ==
    ASSUME Inv, Coherent,
           \/ RestoreBegins \/ NothingToRestore \/ RestoreReconnect \/ RestoreCopy
           \/ RestoreFill \/ RestoreCheck \/ RollbackReconnect \/ RollbackMismatch
    PROVE  Good
  <1>1. run \in Run
    BY DEF Inv, ProcessTypeOK
  <1>2. pc \in Running /\ pc' \in Onward
    BY DEF RestoreBegins, NothingToRestore, RestoreReconnect, RestoreCopy, RestoreFill,
       RestoreCheck, RollbackReconnect, RollbackMismatch, Goto, Onward, Running,
       UpgradePC, RollbackPC
  <1>3. run'.version = run.version
    BY <1>1 DEF RestoreBegins, NothingToRestore, RestoreReconnect, RestoreCopy, RestoreFill,
       RestoreCheck, RollbackReconnect, RollbackMismatch, Run
  <1>4. UNCHANGED <<disk, audit, job>>
    BY DEF RestoreBegins, NothingToRestore, RestoreReconnect, RestoreCopy, RestoreFill,
       RestoreCheck, RollbackReconnect, RollbackMismatch, durable
  <1> QED
    BY <1>2, <1>3, <1>4, QuietGood

LEMMA ErrorGood ==
    ASSUME Inv, Coherent,
           \/ RemoteFailure \/ Unconfirmed \/ LocalFailure \/ CompleteFailure
           \/ RollbackPushFails \/ RollbackFails
    PROVE  Good
  <1>1. pc \in Running /\ pc' \in Onward
    BY DEF RemoteFailure, Unconfirmed, LocalFailure, CompleteFailure, RollbackPushFails,
       RollbackFails, At, Goto, Onward, Running, UpgradePC, RollbackPC
  <1>2. UNCHANGED <<disk, audit, job, run>>
    BY DEF RemoteFailure, Unconfirmed, LocalFailure, CompleteFailure, RollbackPushFails,
       RollbackFails, durable
  <1> QED
    BY <1>1, <1>2, QuietGood

(***************************************************************************)
(* The steps that save the job and leave it in progress.                   *)
(***************************************************************************)
LEMMA SaveOwned ==
    ASSUME NEW j, NEW v, Saved(j) \/ SaveError(j), OwnedBy(disk, v), OwnedBy(j, v)
    PROVE  OwnedBy(disk', v)
  BY DEF Saved, SaveError

LEMMA SaveGood ==
    ASSUME Inv, Coherent,
           \/ EnterStage \/ Discover \/ Backup \/ Complete
           \/ RollbackMark \/ RollbackVerified
    PROVE  Good
  <1>1. run \in Run /\ job \in Job
    BY DEF Inv, ProcessTypeOK
  <1>2. pc \in Running /\ audit' = audit
    BY DEF EnterStage, Discover, Backup, Complete, RollbackMark, RollbackVerified, At,
       Running, UpgradePC, RollbackPC
  <1>3. OwnedBy(disk, run.version) /\ OwnedBy(job, run.version)
    BY <1>2 DEF Coherent
  <1>4. PICK j : /\ OwnedBy(j, run.version)
                 /\ Saved(j) \/ SaveError(j)
                 /\ \/ pc' = "idle"
                    \/ /\ pc' \in Onward
                       /\ job' \in {j, job}
                       /\ run'.version = run.version
    <2>1. CASE EnterStage
      <3> DEFINE j == [job EXCEPT !.stage = run.at]
      <3>1. OwnedBy(j, run.version)
        BY <1>1, <1>3 DEF OwnedBy, Job
      <3>2. Saved(j) \/ SaveError(j)
        BY <2>1 DEF EnterStage
      <3>3. pc' = "idle" \/ (pc' = "step" /\ job' = j /\ run' = run)
        BY <2>1 DEF EnterStage, Stop, Goto
      <3> QED
        BY <3>1, <3>2, <3>3 DEF Onward, Running, UpgradePC
    <2>2. CASE Discover
      <3> DEFINE j == [job EXCEPT !.facts = installed]
      <3>1. OwnedBy(j, run.version)
        BY <1>1, <1>3 DEF OwnedBy, Job
      <3>2. Saved(j) \/ SaveError(j)
        BY <2>2 DEF Discover
      <3>3. pc' \in {"loop", "failing"} /\ job' = j
        BY <2>2 DEF Discover, NextStage, Goto
      <3>4. run'.version = run.version
        BY <1>1, <2>2 DEF Discover, NextStage, Run
      <3> QED
        BY <3>1, <3>2, <3>3, <3>4 DEF Onward, Running, UpgradePC
    <2>3. CASE Backup
      <3>1. (Saved(job) \/ SaveError(job)) /\ job' = job /\ pc' \in {"loop", "failing"}
        BY <2>3 DEF Backup, Goto
      <3>2. run'.version = run.version
        BY <1>1, <2>3 DEF Backup, Run
      <3> QED
        BY <1>3, <3>1, <3>2 DEF Onward, Running, UpgradePC
    <2>4. CASE Complete
      <3> DEFINE j == [job EXCEPT !.status = "in_progress", !.stage = COMPLETE]
      <3>1. OwnedBy(j, run.version)
        BY <1>1, <1>3 DEF OwnedBy, Job
      <3>2. Saved(j) \/ SaveError(j)
        BY <2>4 DEF Complete
      <3>3. pc' \in {"push", "lament"} /\ job' = j /\ run' = run
        BY <2>4 DEF Complete, Goto
      <3> QED
        BY <3>1, <3>2, <3>3 DEF Onward, Running, UpgradePC
    <2>5. CASE RollbackMark
      <3> DEFINE j == [job EXCEPT !.stage = IF pc = "rollMarkReboot" THEN REBOOT
                                                                 ELSE WAIT_FOR_RECONNECT]
      <3>1. OwnedBy(j, run.version)
        BY <1>1, <1>3 DEF OwnedBy, Job
      <3>2. Saved(j) \/ SaveError(j)
        BY <2>5 DEF RollbackMark
      <3>3. pc' \in {"rollReboot", "rollWait"} /\ job' = j /\ run' = run
        BY <2>5 DEF RollbackMark, Goto
      <3> QED
        BY <3>1, <3>2, <3>3 DEF Onward, Running, RollbackPC
    <2>6. CASE RollbackVerified
      <3> DEFINE j == [job EXCEPT !.facts = installed, !.stage = COMPLETE]
      <3>1. OwnedBy(j, run.version)
        BY <1>1, <1>3 DEF OwnedBy, Job
      <3>2. Saved(j) \/ SaveError(j)
        BY <2>6 DEF RollbackVerified
      <3>3. pc' = "idle" \/ (pc' = "rollPush" /\ job' = j /\ run' = run)
        BY <2>6 DEF RollbackVerified, Stop, Goto
      <3> QED
        BY <3>1, <3>2, <3>3 DEF Onward, Running, RollbackPC
    <2> QED
      BY <2>1, <2>2, <2>3, <2>4, <2>5, <2>6
  <1>5. OwnedBy(disk', run.version)
    BY <1>3, <1>4, SaveOwned
  <1>6. CASE pc' = "idle"
    BY <1>2, <1>3, <1>5, <1>6, StopGood
  <1>7. CASE pc' \in Onward /\ job' \in {j, job} /\ run'.version = run.version
    BY <1>2, <1>3, <1>4, <1>5, <1>7, OnwardGood
  <1> QED
    BY <1>4, <1>6, <1>7

(***************************************************************************)
(* The steps that end a job.                                               *)
(***************************************************************************)
LEMMA PushGood == ASSUME Inv, Coherent, PushAudit \/ RollbackPush PROVE Good
  <1>1. pc \in {"push", "rollPush"} /\ pc' \in {"settle", "rollSettle"}
    BY DEF PushAudit, RollbackPush, Goto
  <1>2. audit' = run.version /\ UNCHANGED <<disk, job, run>>
    BY DEF PushAudit, RollbackPush
  <1>3. pc \in Running
    BY <1>1 DEF Running, UpgradePC, RollbackPC
  <1>4. OwnedBy(disk, run.version) /\ OwnedBy(job, run.version)
    BY <1>3 DEF Coherent
  <1>5. Coherent'
    BY <1>1, <1>2, <1>4 DEF Coherent, OwnedBy
  <1>6. Lifecycle!Record
    BY <1>2, <1>4 DEF Lifecycle!Record, OwnedBy
  <1> QED
    BY <1>5, <1>6 DEF Good, LifecycleStep, Lifecycle!Next

LEMMA SettleGood == ASSUME Inv, Coherent, Settle \/ RollbackSettle PROVE Good
  <1> DEFINE j == [job EXCEPT !.status = "complete"]
  <1>1. pc \in {"settle", "rollSettle"} /\ audit' = audit /\ (Saved(j) \/ SaveError(j))
    BY DEF Settle, RollbackSettle
  <1>2. pc' = "idle" \/ (pc' = "lament" /\ job' = j /\ run' = run)
    BY DEF Settle, RollbackSettle, Stop, Goto
  <1>3. pc \in Running
    BY <1>1, PCs
  <1>4. OwnedBy(disk, run.version) /\ OwnedBy(job, run.version) /\ audit = run.version
    BY <1>1, <1>3 DEF Coherent
  <1>5. run.version # None
    BY <1>3, PCs DEF Inv, Control
  <1>6. j.status = "complete" /\ j.release = run.version /\ j.abandoned = None
    BY <1>4 DEF OwnedBy, Inv, ProcessTypeOK, Job
  <1>7. disk' \in {disk, j}
    BY <1>1 DEF Saved, SaveError
  <1> HIDE DEF j
  <1>8. Coherent'
    <2>1. /\ disk'.status # "complete" => disk'.abandoned = None
          /\ disk'.status = "in_progress" => disk'.release # None
      BY <1>4, <1>5, <1>6, <1>7 DEF OwnedBy
    <2>2. CASE pc' = "idle"
      BY <2>1, <2>2, PCs DEF Coherent
    <2>3. CASE pc' = "lament" /\ job' = j /\ run' = run
      <3>1. MayLament(run.version)'
        BY <1>1, <1>4, <1>6, <1>7, <2>3 DEF MayLament, OwnedBy
      <3> QED
        BY <2>1, <2>3, <3>1, PCs DEF Coherent
    <2> QED
      BY <1>2, <2>2, <2>3
  <1>9. Lifecycle!Finish \/ UNCHANGED Lifecycle!vars
    BY <1>1, <1>4, <1>6, <1>7 DEF Lifecycle!Finish, Lifecycle!vars, OwnedBy
  <1> QED
    BY <1>8, <1>9 DEF Good, LifecycleStep, Lifecycle!Next

LEMMA LamentGood == ASSUME Inv, Coherent, Lament PROVE Good
  <1>1. MayLament(run.version) /\ run.version # None
    BY DEF Lament, Coherent, Inv, Control
  <1>2. disk' \in {disk, job} /\ audit' = audit /\ pc' = "idle"
    BY DEF Lament, Saved, SaveError, Stop
  <1>3. Coherent'
    BY <1>1, <1>2, PCs DEF Coherent, MayLament
  <1>4. Lifecycle!Finish \/ UNCHANGED Lifecycle!vars
    BY <1>1, <1>2 DEF Lifecycle!Finish, Lifecycle!vars, MayLament
  <1> QED
    BY <1>3, <1>4 DEF Good, LifecycleStep, Lifecycle!Next

LEMMA MarkFailedGood == ASSUME Inv, Coherent, MarkFailed PROVE Good
  <1> DEFINE j == [job EXCEPT !.status = "failed"]
  <1>1. MayFail(run.version) /\ run.version \in Release
    BY DEF MarkFailed, Coherent, Inv, Control
  <1>2. disk' \in {disk, j} /\ audit' = audit /\ pc' = "idle"
    BY DEF MarkFailed, Saved, SaveError, Stop
  <1>3. j.status = "failed" /\ j.release = run.version /\ j.abandoned = None
    BY <1>1 DEF MayFail, Inv, ProcessTypeOK, Job
  <1> HIDE DEF j
  <1>4. Coherent'
    BY <1>2, <1>3, PCs DEF Coherent
  <1>5. CASE disk' = disk
    BY <1>2, <1>4, <1>5 DEF Good, LifecycleStep, Lifecycle!vars
  <1>6. CASE disk' = j
    <2>1. Lifecycle!Block(run.version)
      BY <1>1, <1>2, <1>3, <1>6 DEF Lifecycle!Block, Lifecycle!TakeUp, Lifecycle!Incomplete, MayFail
    <2> QED
      BY <1>1, <1>4, <2>1 DEF Good, LifecycleStep, Lifecycle!Next
  <1> QED
    BY <1>2, <1>5, <1>6

LEMMA RestoreSaveGood == ASSUME Inv, Coherent, RestoreSave PROVE Good
  <1> DEFINE j == [job EXCEPT !.status = "complete", !.stage = COMPLETE,
                              !.release = Previous, !.abandoned = run.version]
  <1>1. pc = "restoreSave" /\ audit' = audit /\ (Saved(j) \/ SaveError(j))
    BY DEF RestoreSave
  <1>2. pc' = "idle" \/ (pc' = "failing" /\ job' = job /\ run' = run)
    BY DEF RestoreSave, Stop, Goto
  <1>3. pc \in Running
    BY <1>1 DEF Running, UpgradePC
  <1>4. OwnedBy(disk, run.version) /\ OwnedBy(job, run.version)
    BY <1>3 DEF Coherent
  <1>5. run.version # None /\ Previous # run.version /\ Previous \in Release
    BY <1>1, PreviousTyped DEF Inv, Control, Restoring, ProcessTypeOK
  <1>6. j.status = "complete" /\ j.release = Previous /\ j.abandoned = run.version
    BY DEF Inv, ProcessTypeOK, Job
  <1>7. disk' \in {disk, j}
    BY <1>1 DEF Saved, SaveError
  <1> HIDE DEF j
  <1>8. Coherent'
    <2>1. /\ disk'.status # "complete" => disk'.abandoned = None
          /\ disk'.status = "in_progress" => disk'.release # None
      BY <1>4, <1>5, <1>6, <1>7 DEF OwnedBy
    <2>2. CASE pc' = "idle"
      BY <2>1, <2>2, PCs DEF Coherent
    <2>3. CASE pc' = "failing" /\ job' = job /\ run' = run
      <3>1. MayFail(run.version)'
        BY <1>4, <1>5, <1>6, <1>7, <2>3 DEF MayFail, OwnedBy
      <3> QED
        BY <2>1, <2>3, <3>1, PCs DEF Coherent
    <2> QED
      BY <1>2, <2>2, <2>3
  <1>9. CASE disk' = disk
    BY <1>1, <1>8, <1>9 DEF Good, LifecycleStep, Lifecycle!vars
  <1>10. CASE disk' = j
    <2>1. Lifecycle!Restore(Previous)
      BY <1>1, <1>4, <1>5, <1>6, <1>10 DEF Lifecycle!Restore, OwnedBy
    <2> QED
      BY <1>5, <1>8, <2>1 DEF Good, LifecycleStep, Lifecycle!Next
  <1> QED
    BY <1>7, <1>9, <1>10

(***************************************************************************)
(* The commands.                                                           *)
(***************************************************************************)
LEMMA StartUpgradeGood ==
    ASSUME Inv, Coherent, NEW v \in Release, NEW named, NEW resume,
           StartUpgrade(v, named, resume)
    PROVE  Good
  <1> DEFINE j == [Opened EXCEPT !.release = v, !.status = "in_progress"]
  <1>1. disk \in Job
    BY DEF Inv, World, DurableTypeOK
  <1>2. Opened.abandoned = None /\ Opened \in Job
    BY <1>1, OpenedTyped DEF Opened, Coherent, NewJob
  <1>3. OwnedBy(j, v)
    BY <1>2 DEF OwnedBy, Job
  <1>4. disk' = j /\ job' = j /\ audit' = None /\ pc' \in {"refresh", "loop"}
    BY DEF StartUpgrade, Saved, Goto
  <1> HIDE DEF j
  <1>5. run'.version = v
    BY DEF StartUpgrade, NoRun
  <1>6. Coherent'
    BY <1>3, <1>4, <1>5 DEF Coherent, OwnedBy
  <1>7. /\ disk.status \in {"in_progress", "failed"} => disk.release \in {None, v}
        /\ disk.status = "complete" => disk.release # v
    BY DEF StartUpgrade, MayStart
  <1>8. Lifecycle!Begin(v)
    BY <1>3, <1>4, <1>7 DEF Lifecycle!Begin, Lifecycle!TakeUp, Lifecycle!Incomplete, OwnedBy
  <1> QED
    BY <1>6, <1>8 DEF Good, LifecycleStep, Lifecycle!Next

LEMMA BlockedGood ==
    ASSUME Inv, Coherent, NEW v \in Release, NEW named, NEW resume,
           BlockedByDependency(v, named, resume)
    PROVE  Good
  <1>1. disk \in Job
    BY DEF Inv, World, DurableTypeOK
  <1>2. Opened.abandoned = None /\ Opened \in Job
    BY <1>1, OpenedTyped DEF Opened, Coherent, NewJob
  <1>3. job'.release = v /\ job'.abandoned = None
    BY <1>2 DEF BlockedByDependency, Job
  <1>4. run'.version = v
    BY DEF BlockedByDependency, NoRun
  <1>5. pc' = "failing" /\ UNCHANGED <<disk, audit>>
    BY DEF BlockedByDependency, Goto, durable
  <1>6. MayFail(run.version)'
    BY <1>3, <1>4, <1>5 DEF BlockedByDependency, MayStart, MayFail
  <1>7. Coherent'
    BY <1>5, <1>6, PCs DEF Coherent
  <1> QED
    BY <1>5, <1>7 DEF Good, LifecycleStep, Lifecycle!vars

LEMMA StartRollbackGood ==
    ASSUME Inv, Coherent, NEW v \in Release, StartRollback(v) PROVE Good
  <1> DEFINE j == [status |-> "in_progress", release |-> v, stage |-> STAGE_PACKAGES,
                   abandoned |-> None, facts |-> installed]
  <1>1. disk' = j /\ job' = j /\ audit' = None /\ pc' = "rollUpload"
    BY DEF StartRollback, Saved, Goto
  <1>2. OwnedBy(j, v)
    BY DEF OwnedBy
  <1> HIDE DEF j
  <1>3. run'.version = v
    BY DEF StartRollback, NoRun
  <1>4. Coherent'
    BY <1>1, <1>2, <1>3 DEF Coherent, OwnedBy
  <1>5. Lifecycle!Rollback(v)
    BY <1>1, <1>2 DEF StartRollback, Lifecycle!Rollback, OwnedBy
  <1> QED
    BY <1>4, <1>5 DEF Good, LifecycleStep, Lifecycle!Next

LEMMA DiscoverCommandGood == ASSUME Inv, Coherent, DiscoverCommand PROVE Good
  <1> DEFINE j == [disk EXCEPT !.facts = installed,
                               !.status = IF @ = "" THEN "pending" ELSE @]
  <1>1. disk' = j /\ UNCHANGED <<audit, pc>> /\ pc = "idle"
    BY DEF DiscoverCommand, Saved, process
  <1>2. /\ j.release = disk.release /\ j.abandoned = disk.abandoned
        /\ j.status = IF disk.status = "" THEN "pending" ELSE disk.status
    BY DEF Inv, World, DurableTypeOK, Job
  <1> HIDE DEF j
  <1>3. Coherent'
    BY <1>1, <1>2, PCs DEF Coherent
  <1>4. Lifecycle!Discover \/ UNCHANGED Lifecycle!vars
    BY <1>1, <1>2 DEF Lifecycle!Discover, Lifecycle!vars
  <1> QED
    BY <1>3, <1>4 DEF Good, LifecycleStep, Lifecycle!Next

LEMMA ElsewhereGood ==
    ASSUME Inv, Coherent,
           \/ VerifySnapshot \/ VerifyFill \/ Crash \/ Hang \/ Interrupt \/ Deadline
           \/ EnvironmentStep /\ UNCHANGED <<durable, process>>
           \/ UNCHANGED vars
    PROVE  Good
  <1>1. UNCHANGED <<disk, audit>>
    BY DEF VerifySnapshot, VerifyFill, Crash, Hang, Interrupt, Deadline, durable, vars
  <1>2. pc' \in {"idle", "verifyFill", "hung"} \/ UNCHANGED <<pc, job, run>>
    BY DEF VerifySnapshot, VerifyFill, Crash, Hang, Interrupt, Deadline, Stop, Goto, process,
       vars
  <1>3. Coherent'
    <2>1. CASE pc' \in {"idle", "verifyFill", "hung"}
      BY <1>1, <2>1, PCs DEF Coherent
    <2>2. CASE UNCHANGED <<pc, job, run>>
      BY <1>1, <2>2 DEF Coherent, OwnedBy, MayFail, MayLament
    <2> QED
      BY <1>2, <2>1, <2>2
  <1> QED
    BY <1>1, <1>3 DEF Good, LifecycleStep, Lifecycle!vars

(***************************************************************************)
(* The theorems.                                                           *)
(***************************************************************************)
LEMMA InitGood == Init => Coherent /\ Lifecycle!Init /\ AuditBeforeComplete
  <1> SUFFICES ASSUME Init
               PROVE  Coherent /\ Lifecycle!Init /\ AuditBeforeComplete
    OBVIOUS
  <1>1. disk.status = "" /\ disk.release = None /\ disk.abandoned = None
    BY DEF Init, JobStoreInit, NewJob
  <1>2. audit = None /\ pc = "idle"
    BY DEF Init
  <1>3. Coherent
    BY <1>1, <1>2, PCs DEF Coherent
  <1>4. Lifecycle!Init
    BY <1>1, <1>2 DEF Lifecycle!Init
  <1>5. AuditBeforeComplete
    BY <1>1 DEF AuditBeforeComplete
  <1> QED
    BY <1>3, <1>4, <1>5

LEMMA NextGood == Inv /\ Coherent /\ [Next]_vars => Coherent' /\ LifecycleStep
  <1> SUFFICES ASSUME Inv, Coherent, [Next]_vars PROVE Good
    BY DEF Good
  <1>1. CASE StartCommand
    BY <1>1, StartUpgradeGood, BlockedGood, StartRollbackGood DEF StartCommand
  <1>2. CASE DiscoverCommand
    BY <1>2, DiscoverCommandGood
  <1>3. CASE UpgradeStep
    BY <1>3, LoopGood, DeviceGood, RestoreGood, ErrorGood, SaveGood, PushGood,
       SettleGood, LamentGood, MarkFailedGood, RestoreSaveGood DEF UpgradeStep
  <1>4. CASE RollbackStep
    BY <1>4, DeviceGood, RestoreGood, ErrorGood, SaveGood, PushGood, SettleGood
       DEF RollbackStep
  <1>5. CASE \/ VerifySnapshot \/ VerifyFill \/ Crash \/ Hang \/ Interrupt \/ Deadline
             \/ EnvironmentStep /\ UNCHANGED <<durable, process>>
             \/ UNCHANGED vars
    BY <1>5, ElsewhereGood
  <1> QED
    BY <1>1, <1>2, <1>3, <1>4, <1>5 DEF Next, ProcessStep

\* A step of a reader's job file keeps completion behind the record.
LEMMA NextRecorded ==
    Coherent /\ AuditBeforeComplete /\ LifecycleStep => AuditBeforeComplete'
  <1> SUFFICES ASSUME Coherent, AuditBeforeComplete, LifecycleStep
               PROVE  AuditBeforeComplete'
    OBVIOUS
  <1>1. CASE UNCHANGED Lifecycle!vars
    BY <1>1 DEF Lifecycle!vars, AuditBeforeComplete
  <1>2. CASE Lifecycle!Discover \/ Lifecycle!Fail \/ Lifecycle!Record \/ Lifecycle!Finish
    BY <1>2 DEF Lifecycle!Discover, Lifecycle!Fail, Lifecycle!Record, Lifecycle!Finish,
       AuditBeforeComplete
  <1>3. ASSUME NEW v \in Release,
               \/ Lifecycle!Begin(v) \/ Lifecycle!Block(v)
               \/ Lifecycle!Rollback(v) \/ Lifecycle!Restore(v)
        PROVE  AuditBeforeComplete'
    BY <1>3 DEF Lifecycle!Begin, Lifecycle!Block, Lifecycle!TakeUp, Lifecycle!Rollback,
       Lifecycle!Restore, AuditBeforeComplete, Coherent
  <1> QED
    BY <1>1, <1>2, <1>3 DEF LifecycleStep, Lifecycle!Next

\* Whatever happens to the process, the device and the disk, the job file of
\* the detailed system is a job file of JobLifecycle.
THEOREM JobFileLifecycle == Spec => ImplementsLifecycle
  <1> DEFINE Whole == Inv /\ Coherent
  <1>1. Init => Whole /\ Lifecycle!Init
    BY InitInv, InitGood
  <1>2. Whole /\ [Next]_vars => Whole' /\ [Lifecycle!Next]_(Lifecycle!vars)
    BY NextInv, NextGood DEF LifecycleStep
  <1> QED
    BY <1>1, <1>2, PTL DEF Spec, ImplementsLifecycle, Lifecycle!Spec

\* A job is complete on disk only after its record was pushed, unless it is
\* the record of a guarded restore.
THEOREM RecordedBeforeComplete == Spec => []AuditBeforeComplete
  <1> DEFINE Whole == Inv /\ Coherent /\ AuditBeforeComplete
  <1>1. Init => Whole
    BY InitInv, InitGood
  <1>2. Whole /\ [Next]_vars => Whole'
    BY NextInv, NextGood, NextRecorded
  <1> QED
    BY <1>1, <1>2, PTL DEF Spec
=============================================================================
