---------------------------- MODULE RosupProofs ----------------------------
(***************************************************************************)
(* What holds of Rosup for every set of releases and packages, every number *)
(* of faults and every device: theorems for the specification of Rosup.     *)
(***************************************************************************)
EXTENDS Rosup, TLAPS

USE EnvironmentAssumption, RosupAssumption
    DEF EnvironmentAssumption, RosupAssumption

(***************************************************************************)
(* The type invariant, in three parts, and what the control state implies. *)
(***************************************************************************)
DurableTypeOK ==
    /\ disk \in Job
    /\ baseline \in [Release -> BaselineFile]
    /\ audit \in Release \cup {None}
    /\ before \in BOOLEAN

ProcessTypeOK ==
    /\ pc \in PC
    /\ job \in Job
    /\ run \in Run
    /\ expired \in BOOLEAN

\* The points of a guarded restore that work towards the previous release.
Restoring == {"restoreUpload", "restoreReboot", "restoreWait", "restoreCopy",
              "restoreFill", "restoreCheck", "restoreSave"}

\* What each point of a command knows of the command's own variables.
Control ==
    /\ pc \notin {"idle", "hung"} => run.version \in Release
    /\ pc = "upload" => run.at = STAGE_PACKAGES
    /\ pc \in {"snapshot", "command"} => run.at \in {REBOOT, ROUTERBOOT_UPDATE}
    /\ pc = "check" => run.at = VALIDATE_ROLE_AFTER_ROUTERBOOT
    /\ pc \in {"snapshot", "restoreFill", "verifyFill"} => run.captured \in Captured
    /\ pc \in Restoring => Previous \notin {None, run.version}

World == EnvironmentTypeOK /\ DurableTypeOK

Inv == World /\ ProcessTypeOK /\ Control

\* The points where Control asks for nothing but the release of the run.
Plain == {"refresh", "loop", "step", "push", "settle", "lament", "failing",
          "restore"} \cup RollbackPC

LEMMA Parts == TypeOK <=> World /\ ProcessTypeOK
  BY DEF TypeOK, World, DurableTypeOK, ProcessTypeOK, JobStoreTypeOK, BaselinesTypeOK

(***************************************************************************)
(* What the operators the actions are built from do to each part.          *)
(***************************************************************************)
LEMMA FreshTyped == NewJob \in Job /\ NoRun \in Run
  <1>1. NewJob \in Job
    BY DEF NewJob, Job, Status, DISCOVER, COMPLETE
  <1>2. NoRun \in Run
    BY DEF NoRun, Run, DISCOVER, COMPLETE
  <1> QED
    BY <1>1, <1>2

LEMMA OverTyped ==
    ASSUME pc' \in {"idle", "hung"}, job' = NewJob, run' = NoRun, expired' = FALSE
    PROVE  ProcessTypeOK' /\ Control'
  BY FreshTyped DEF ProcessTypeOK, Control, Restoring, PC

LEMMA StopTyped == ASSUME Stop PROVE ProcessTypeOK' /\ Control'
  BY OverTyped DEF Stop

LEMMA ControlPlain ==
    ASSUME pc' \in Plain, run'.version \in Release PROVE Control' /\ pc' \in PC
  BY DEF Plain, RollbackPC, UpgradePC, PC, Control, Restoring

LEMMA QuietTyped == ASSUME World, UNCHANGED <<environment, durable>> PROVE World'
  BY DEF World, EnvironmentTypeOK, DurableTypeOK, environment, router, durable

LEMMA SpendTyped ==
    ASSUME EnvironmentTypeOK, UNCHANGED router, Spend \/ UNCHANGED faults
    PROVE  EnvironmentTypeOK'
  BY DEF EnvironmentTypeOK, router, Spend

LEMMA FaultTyped ==
    ASSUME World, UNCHANGED <<router, durable>>, Spend \/ UNCHANGED faults
    PROVE  World'
  BY SpendTyped DEF World, DurableTypeOK, durable

LEMMA SaveTyped ==
    ASSUME NEW j \in Job, World, UNCHANGED <<router, baseline, audit, before>>,
           Saved(j) \/ SaveError(j)
    PROVE  World'
  <1>1. EnvironmentTypeOK'
    BY SpendTyped DEF World, Saved, SaveError
  <1> QED
    BY <1>1 DEF World, DurableTypeOK, Saved, SaveError

LEMMA UploadTyped ==
    ASSUME NEW p \in Package, NEW r \in Release, World, Upload(p, r),
           UNCHANGED <<faults, durable>>
    PROVE  World'
  <1>1. staged' \in [Package -> SUBSET Release]
    BY DEF World, EnvironmentTypeOK, Upload
  <1> QED
    BY <1>1 DEF World, EnvironmentTypeOK, DurableTypeOK, Upload, durable, Facts

LEMMA CommandTyped ==
    ASSUME World, Reboot \/ ArmFirmware, UNCHANGED durable,
           Spend \/ UNCHANGED faults
    PROVE  World'
  BY DEF World, EnvironmentTypeOK, DurableTypeOK, Reboot, ArmFirmware, durable,
         Firmware, Spend

LEMMA BaselineTyped ==
    ASSUME NEW r \in Release, NEW content \in Captured, World,
           Truncate(r) \/ Fill(r, content),
           UNCHANGED <<environment, disk, audit, before>>
    PROVE  World'
  <1>1. baseline' \in [Release -> BaselineFile]
    BY DEF World, DurableTypeOK, Truncate, Fill, BaselineFile
  <1> QED
    BY <1>1 DEF World, EnvironmentTypeOK, DurableTypeOK, environment, router

\* The three ways of a body to move on while it notes something in the run.
LEMMA RunMovesOn ==
    ASSUME NEW r \in Run, r.at \in DISCOVER..COMPLETE - 1, NEW q,
           \/ q = [r EXCEPT !.skipRB = "yes", !.at = @ + 1]
           \/ q = [r EXCEPT !.at = @ + 1, !.backedUp = TRUE]
           \/ q = [r EXCEPT !.todo = {}, !.at = @ + 1]
    PROVE  q \in Run /\ q.version = r.version
  <1>1. PICK skip \in {"unset", "yes", "no"}, done \in BOOLEAN, todo \in SUBSET Package :
            q = [version |-> r.version, at |-> r.at + 1, needsValidate |-> r.needsValidate,
                 skipRB |-> skip, backedUp |-> done, todo |-> todo,
                 captured |-> r.captured]
    <2>1. CASE q = [r EXCEPT !.skipRB = "yes", !.at = @ + 1]
      <3>1. q = [version |-> r.version, at |-> r.at + 1, needsValidate |-> r.needsValidate,
                 skipRB |-> "yes", backedUp |-> r.backedUp, todo |-> r.todo,
                 captured |-> r.captured]
        BY <2>1 DEF Run
      <3> QED
        BY <3>1 DEF Run
    <2>2. CASE q = [r EXCEPT !.at = @ + 1, !.backedUp = TRUE]
      <3>1. q = [version |-> r.version, at |-> r.at + 1, needsValidate |-> r.needsValidate,
                 skipRB |-> r.skipRB, backedUp |-> TRUE, todo |-> r.todo,
                 captured |-> r.captured]
        BY <2>2 DEF Run
      <3> QED
        BY <3>1 DEF Run
    <2>3. CASE q = [r EXCEPT !.todo = {}, !.at = @ + 1]
      <3>1. q = [version |-> r.version, at |-> r.at + 1, needsValidate |-> r.needsValidate,
                 skipRB |-> r.skipRB, backedUp |-> r.backedUp, todo |-> {},
                 captured |-> r.captured]
        BY <2>3 DEF Run
      <3> QED
        BY <3>1 DEF Run
    <2> QED
      BY <2>1, <2>2, <2>3
  <1>2. r.at + 1 \in DISCOVER..COMPLETE
    BY DEF DISCOVER, COMPLETE
  <1> QED
    BY <1>1, <1>2 DEF Run

LEMMA NextStageTyped ==
    ASSUME ProcessTypeOK, Control, pc \notin {"idle", "hung"}, NextStage, job' \in Job,
           run.at \in DISCOVER..COMPLETE - 1
    PROVE  ProcessTypeOK' /\ Control'
  <1>1. run' \in Run /\ run'.version = run.version
    BY DEF NextStage, ProcessTypeOK, Run, DISCOVER, COMPLETE
  <1>2. pc' = "loop" /\ expired' = expired
    BY DEF NextStage, Goto
  <1> QED
    BY <1>1, <1>2, ControlPlain DEF Plain, ProcessTypeOK, Control

\* A step to a plain point that leaves the run alone.
LEMMA PlainTyped ==
    ASSUME ProcessTypeOK, Control, pc \notin {"idle", "hung"}, pc' \in Plain,
           UNCHANGED <<run, expired>>, job' \in Job
    PROVE  ProcessTypeOK' /\ Control'
  BY ControlPlain DEF ProcessTypeOK, Control

(***************************************************************************)
(* The stage loop.                                                         *)
(***************************************************************************)
LEMMA LoopTyped ==
    ASSUME Inv, SkipStage \/ DecideRouterboot \/ EnterStage PROVE Inv'
  <1>1. World /\ ProcessTypeOK /\ Control
    BY DEF Inv
  <1>2. job \in Job /\ run \in Run /\ run.at \in DISCOVER..COMPLETE
    BY <1>1 DEF ProcessTypeOK, Run
  <1>3. CASE SkipStage
    <2>1. run.at \in DISCOVER..COMPLETE - 1
      BY <1>2, <1>3 DEF SkipStage, SkipBecauseCurrent, RouterbootStages, DISCOVER, COMPLETE,
         ROUTERBOOT_UPDATE, REBOOT_ROUTERBOOT, VALIDATE_ROLE_AFTER_ROUTERBOOT
    <2>2. World'
      BY <1>1, <1>3, QuietTyped DEF SkipStage
    <2> QED
      BY <1>1, <1>2, <1>3, <2>1, <2>2, NextStageTyped DEF SkipStage, Inv
  <1>4. CASE DecideRouterboot
    <2>1. pc = "loop" /\ pc' = "loop" /\ UNCHANGED <<expired, job>> /\ World'
      BY <1>1, <1>4, QuietTyped DEF DecideRouterboot, Goto
    <2>2. CASE run' = [run EXCEPT !.skipRB = "yes", !.at = @ + 1]
      <3>1. run.at = ROUTERBOOT_UPDATE
        BY <1>4 DEF DecideRouterboot
      <3>2. run.at \in DISCOVER..COMPLETE - 1
        BY <3>1 DEF ROUTERBOOT_UPDATE, DISCOVER, COMPLETE
      <3>3. run' \in Run /\ run'.version = run.version
        BY ONLY <1>2, <2>2, <3>2, RunMovesOn
      <3> QED
        BY <1>1, <2>1, <3>3, ControlPlain DEF Inv, Plain, ProcessTypeOK, Control
    <2>3. CASE run' = [run EXCEPT !.skipRB = "no"]
      <3>1. run' \in Run /\ run'.version = run.version
        BY <1>2, <2>3 DEF Run
      <3> QED
        BY <1>1, <2>1, <3>1, ControlPlain DEF Inv, Plain, ProcessTypeOK, Control
    <2> QED
      BY <1>4, <2>2, <2>3 DEF DecideRouterboot
  <1>5. CASE EnterStage
    <2> DEFINE j == [job EXCEPT !.stage = run.at]
    <2>1. j \in Job
      BY <1>2 DEF Job
    <2>2. UNCHANGED <<router, baseline, audit, before>> /\ (Saved(j) \/ SaveError(j))
      BY <1>5 DEF EnterStage
    <2> HIDE DEF j
    <2>3. World'
      BY <1>1, <2>1, <2>2, SaveTyped
    <2>4. CASE Stop
      BY <2>3, <2>4, StopTyped DEF Inv
    <2>5. CASE job' = j /\ Goto("step") /\ UNCHANGED run
      BY <1>1, <1>5, <2>1, <2>3, <2>5, PlainTyped DEF Inv, EnterStage, Goto, Plain
    <2> QED
      BY <1>5, <2>4, <2>5 DEF EnterStage, j
  <1> QED
    BY <1>3, <1>4, <1>5

(***************************************************************************)
(* The bodies of the stages.                                               *)
(***************************************************************************)
LEMMA DiscoverTyped == ASSUME Inv, Discover PROVE Inv'
  <1>1. World /\ ProcessTypeOK /\ Control /\ job \in Job /\ run \in Run
    BY DEF Inv, ProcessTypeOK
  <1> DEFINE j == [job EXCEPT !.facts = installed]
  <1>2. j \in Job /\ job' = j
    BY <1>1 DEF Discover, World, EnvironmentTypeOK, Job
  <1>3. UNCHANGED <<router, baseline, audit, before>> /\ (Saved(j) \/ SaveError(j))
    BY DEF Discover
  <1>4. pc \in {"refresh", "step"} /\ (pc = "step" => run.at = DISCOVER)
    BY DEF Discover, At
  <1>5. NextStage \/ (pc' \in {"loop", "failing"} /\ UNCHANGED <<run, expired>>)
    BY DEF Discover, Goto
  <1> HIDE DEF j
  <1>6. World'
    BY <1>1, <1>2, <1>3, SaveTyped
  <1>7. CASE pc' \in {"loop", "failing"} /\ UNCHANGED <<run, expired>>
    BY <1>1, <1>2, <1>4, <1>6, <1>7, PlainTyped DEF Inv, Plain
  <1>8. CASE NextStage /\ pc = "step"
    BY <1>1, <1>2, <1>4, <1>6, <1>8, NextStageTyped DEF Inv, DISCOVER, COMPLETE
  <1> QED
    BY <1>4, <1>5, <1>7, <1>8 DEF Discover, Goto

\* The bodies that change neither the device nor the disk nor the job.
LEMMA QuietBodyTyped ==
    ASSUME Inv,
           Preflight \/ AlreadyBackedUp \/ StagePackages \/ KeepBaseline
             \/ NoBaseline \/ Reconnect \/ ValidationPasses
    PROVE  Inv'
  <1>1. World /\ ProcessTypeOK /\ Control /\ job \in Job /\ run \in Run
    BY DEF Inv, ProcessTypeOK
  <1>2. World' /\ job' \in Job /\ pc \notin {"idle", "hung"}
    BY <1>1, QuietTyped DEF Preflight, AlreadyBackedUp, StagePackages, KeepBaseline,
       NoBaseline, Reconnect, ValidationPasses, At, Checking
  <1>3. CASE Preflight \/ AlreadyBackedUp \/ ValidationPasses
    <2>1. NextStage /\ run.at \in DISCOVER..COMPLETE - 1
      BY <1>1, <1>3 DEF Preflight, AlreadyBackedUp, ValidationPasses, Checking, At, Control,
         DISCOVER, COMPLETE, PREFLIGHT, SAVE_BINARY_BACKUP, VALIDATE_ROLE,
         VALIDATE_ROLE_AFTER_ROUTERBOOT
    <2> QED
      BY <1>1, <1>2, <2>1, NextStageTyped DEF Inv
  <1>4. CASE StagePackages
    <2>1. run' \in Run /\ run'.version = run.version /\ run'.at = STAGE_PACKAGES
      BY <1>1, <1>4 DEF StagePackages, At, Run
    <2>2. pc' = "upload" /\ UNCHANGED expired
      BY <1>4 DEF StagePackages, Goto
    <2> QED
      BY <1>1, <1>2, <2>1, <2>2 DEF Inv, ProcessTypeOK, Control, Restoring, PC, UpgradePC
  <1>5. CASE KeepBaseline
    BY <1>1, <1>2, <1>5 DEF KeepBaseline, At, Goto, Inv, ProcessTypeOK, Control, Restoring, PC, UpgradePC
  <1>6. CASE NoBaseline
    BY <1>1, <1>2, <1>6, PlainTyped DEF NoBaseline, Goto, Inv, Plain
  <1>7. CASE Reconnect
    <2>1. CASE run.at = WAIT_FOR_RECONNECT
      BY <1>1, <1>2, <1>7, <2>1, NextStageTyped DEF Reconnect, Inv, WAIT_FOR_RECONNECT, DISCOVER, COMPLETE
    <2>2. CASE run.at # WAIT_FOR_RECONNECT
      BY <1>1, <1>2, <1>7, <2>2 DEF Reconnect, At, Goto, Inv, ProcessTypeOK, Control, Restoring, PC, UpgradePC
    <2> QED
      BY <2>1, <2>2
  <1> QED
    BY <1>3, <1>4, <1>5, <1>6, <1>7

LEMMA BackupTyped == ASSUME Inv, Backup PROVE Inv'
  <1>1. World /\ ProcessTypeOK /\ Control /\ job \in Job /\ run \in Run
    BY DEF Inv, ProcessTypeOK
  <1>2. World' /\ job' = job /\ pc = "step"
    BY <1>1, SaveTyped DEF Backup, At
  <1>3. CASE Goto("failing") /\ UNCHANGED run
    BY <1>1, <1>2, <1>3, PlainTyped DEF Inv, Goto, Plain
  <1>4. CASE Goto("loop") /\ run' = [run EXCEPT !.at = @ + 1, !.backedUp = TRUE]
    <2>1. run.at \in {EXPORT_TEXT, SAVE_BINARY_BACKUP}
      BY DEF Backup, At
    <2>2. run.at \in DISCOVER..COMPLETE - 1
      BY <2>1 DEF EXPORT_TEXT, SAVE_BINARY_BACKUP, DISCOVER, COMPLETE
    <2>3. run' \in Run /\ run'.version = run.version
      BY ONLY <1>1, <1>4, <2>2, RunMovesOn
    <2> QED
      BY <1>1, <1>2, <1>4, <2>3, ControlPlain DEF Inv, ProcessTypeOK, Control, Goto, Plain
  <1> QED
    BY <1>3, <1>4 DEF Backup

LEMMA UploadFileTyped == ASSUME Inv, NEW p \in Package, UploadFile(p) PROVE Inv'
  <1>1. World /\ ProcessTypeOK /\ Control /\ job \in Job /\ run \in Run
    BY DEF Inv, ProcessTypeOK
  <1>2. pc = "upload" /\ run.version \in Release /\ run.at = STAGE_PACKAGES
    BY <1>1 DEF UploadFile, Control
  <1>3. World' /\ job' = job
    BY <1>1, <1>2, UploadTyped DEF UploadFile
  <1>4. CASE run.todo = {p}
    <2>1. run' = [run EXCEPT !.todo = {}, !.at = @ + 1] /\ Goto("loop")
      BY <1>4 DEF UploadFile
    <2>2. run.at \in DISCOVER..COMPLETE - 1
      BY <1>2 DEF STAGE_PACKAGES, DISCOVER, COMPLETE
    <2>3. run' \in Run /\ run'.version = run.version
      BY ONLY <1>1, <2>1, <2>2, RunMovesOn
    <2> QED
      BY <1>1, <1>2, <1>3, <2>1, <2>3, ControlPlain DEF Inv, ProcessTypeOK, Goto, Plain
  <1>5. CASE run.todo # {p}
    <2>1. run' = [run EXCEPT !.todo = @ \ {p}] /\ Goto("upload")
      BY <1>5 DEF UploadFile
    <2>2. run.todo \ {p} \in SUBSET Package
      BY <1>1 DEF Run
    <2>3. run' \in Run /\ run'.version = run.version /\ run'.at = run.at
      BY <1>1, <2>1, <2>2 DEF Run
    <2> QED
      BY <1>1, <1>2, <1>3, <2>1, <2>3 DEF Inv, ProcessTypeOK, Control, Goto, Restoring, PC, UpgradePC
  <1> QED
    BY <1>4, <1>5

LEMMA SnapshotTyped == ASSUME Inv, InventBaseline \/ FillBaseline PROVE Inv'
  <1>1. World /\ ProcessTypeOK /\ Control /\ job \in Job /\ run \in Run
    BY DEF Inv, ProcessTypeOK
  <1>2. pc \notin {"idle", "hung"} /\ run.version \in Release /\ job' = job
    BY <1>1 DEF InventBaseline, FillBaseline, At, Control
  <1>3. CASE InventBaseline
    <2>1. RoleFacts \in Captured
      BY DEF RoleFacts, Captured
    <2>2. run' = [run EXCEPT !.captured = RoleFacts] /\ pc' = "snapshot" /\ UNCHANGED expired
      BY <1>3 DEF InventBaseline, Goto
    <2> HIDE DEF RoleFacts
    <2>3. run' \in Run /\ run'.version = run.version /\ run'.at = run.at /\ run'.captured = RoleFacts
      BY <1>1, <2>1, <2>2 DEF Run
    <2>4. World'
      BY <1>1, <1>2, <1>3, <2>1, BaselineTyped DEF InventBaseline
    <2>5. run.at \in {REBOOT, ROUTERBOOT_UPDATE}
      BY <1>3 DEF InventBaseline, At
    <2> QED
      BY <1>1, <1>2, <2>1, <2>2, <2>3, <2>4, <2>5
         DEF Inv, ProcessTypeOK, Control, Restoring, PC, UpgradePC
  <1>4. CASE FillBaseline
    <2>1. run.captured \in Captured /\ run.at \in {REBOOT, ROUTERBOOT_UPDATE}
      BY <1>1, <1>4 DEF FillBaseline, Control
    <2>2. run' = [run EXCEPT !.captured = "none"] /\ pc' = "command" /\ UNCHANGED expired
      BY <1>4 DEF FillBaseline, Goto
    <2>3. run' \in Run /\ run'.version = run.version /\ run'.at = run.at
      BY <1>1, <2>2 DEF Run
    <2>4. World'
      BY <1>1, <1>2, <1>4, <2>1, BaselineTyped DEF FillBaseline
    <2> QED
      BY <1>1, <1>2, <2>1, <2>2, <2>3, <2>4
         DEF Inv, ProcessTypeOK, Control, Restoring, PC, UpgradePC
  <1> QED
    BY <1>3, <1>4

LEMMA CommandBodyTyped == ASSUME Inv, RebootDevice \/ UpgradeRouterboot PROVE Inv'
  <1>1. World /\ ProcessTypeOK /\ Control /\ job \in Job
    BY DEF Inv, ProcessTypeOK
  <1>2. World'
    BY <1>1, CommandTyped DEF RebootDevice, UpgradeRouterboot
  <1>3. NextStage /\ job' = job /\ pc \notin {"idle", "hung"}
        /\ run.at \in {REBOOT, ROUTERBOOT_UPDATE, REBOOT_ROUTERBOOT}
    BY DEF RebootDevice, UpgradeRouterboot, At
  <1>4. run.at \in DISCOVER..COMPLETE - 1
    BY <1>3 DEF REBOOT, ROUTERBOOT_UPDATE, REBOOT_ROUTERBOOT, DISCOVER, COMPLETE
  <1> QED
    BY <1>1, <1>2, <1>3, <1>4, NextStageTyped DEF Inv

LEMMA GiveUpTyped == ASSUME Inv, ReconnectTimeout \/ ValidationFails PROVE Inv'
  <1>1. World /\ ProcessTypeOK /\ Control /\ job \in Job /\ run \in Run
    BY DEF Inv, ProcessTypeOK
  <1>2. World' /\ job' = job
    BY <1>1, FaultTyped DEF ReconnectTimeout, ValidationFails, RemoteError
  <1>3. pc \notin {"idle", "hung"} /\ pc' = "restore" /\ UNCHANGED expired
    BY DEF ReconnectTimeout, ValidationFails, Checking, At, Goto
  <1>4. run' \in Run /\ run'.version = run.version
    BY <1>1 DEF ReconnectTimeout, ValidationFails, Run
  <1> QED
    BY <1>1, <1>2, <1>3, <1>4, ControlPlain DEF Inv, ProcessTypeOK, Control, Plain

(***************************************************************************)
(* The guarded restore.                                                    *)
(***************************************************************************)
LEMMA PreviousTyped == ASSUME job \in Job, Previous # None PROVE Previous \in Release
  BY DEF Previous, Job, Facts

LEMMA RestoreTyped ==
    ASSUME Inv,
           RestoreBegins \/ NothingToRestore \/ RestoreReconnect \/ RestoreCheck
    PROVE  Inv'
  <1>1. World /\ ProcessTypeOK /\ Control /\ job \in Job /\ run \in Run
    BY DEF Inv, ProcessTypeOK
  <1>2. World' /\ job' = job /\ pc \notin {"idle", "hung"} /\ UNCHANGED expired
    BY <1>1, QuietTyped DEF RestoreBegins, NothingToRestore, RestoreReconnect, RestoreCheck, Goto
  <1>3. Previous' = Previous
    BY <1>2 DEF Previous
  <1>4. run' \in Run /\ run'.version = run.version
    BY <1>1 DEF RestoreBegins, NothingToRestore, RestoreReconnect, RestoreCheck, Run
  <1>5. CASE RestoreBegins
    BY <1>1, <1>2, <1>3, <1>4, <1>5
       DEF RestoreBegins, Goto, Inv, ProcessTypeOK, Control, PC, UpgradePC
  <1>6. CASE NothingToRestore
    BY <1>1, <1>2, <1>4, <1>6, ControlPlain
       DEF NothingToRestore, Goto, Inv, ProcessTypeOK, Control, Plain
  <1>7. CASE RestoreReconnect
    BY <1>1, <1>2, <1>3, <1>4, <1>7
       DEF RestoreReconnect, Goto, Inv, ProcessTypeOK, Control, Restoring, PC, UpgradePC
  <1>8. CASE RestoreCheck
    BY <1>1, <1>2, <1>3, <1>4, <1>8
       DEF RestoreCheck, Goto, Inv, ProcessTypeOK, Control, Restoring, PC, UpgradePC
  <1> QED
    BY <1>5, <1>6, <1>7, <1>8

LEMMA RestoreDeviceTyped ==
    ASSUME Inv, (\E p \in Package : RestoreUpload(p)) \/ RestoreReboot PROVE Inv'
  <1>1. World /\ ProcessTypeOK /\ Control /\ job \in Job /\ run \in Run
    BY DEF Inv, ProcessTypeOK
  <1>2. pc \in Restoring /\ run.version \in Release /\ Previous \in Release
    BY <1>1, PreviousTyped DEF RestoreUpload, RestoreReboot, Control, Restoring
  <1>3. job' = job /\ Previous' = Previous /\ UNCHANGED expired
    BY DEF RestoreUpload, RestoreReboot, Previous, Goto
  <1>4. CASE RestoreReboot
    <2>1. World'
      BY <1>1, <1>4, CommandTyped DEF RestoreReboot
    <2> QED
      BY <1>1, <1>2, <1>3, <1>4, <2>1
         DEF RestoreReboot, Goto, Inv, ProcessTypeOK, Control, Restoring, PC, UpgradePC
  <1>5. ASSUME NEW p \in Package, RestoreUpload(p) PROVE Inv'
    <2>1. World'
      BY <1>1, <1>2, <1>5, UploadTyped DEF RestoreUpload
    <2>2. run' = [run EXCEPT !.todo = @ \ {p}]
      BY <1>5 DEF RestoreUpload
    <2>3. run.todo \ {p} \in SUBSET Package
      BY <1>1 DEF Run
    <2>4. run' \in Run /\ run'.version = run.version
      BY <1>1, <2>2, <2>3 DEF Run
    <2>5. pc' \in {"restoreReboot", "restoreUpload"}
      BY <1>5 DEF RestoreUpload, Goto
    <2> QED
      BY <1>1, <1>2, <1>3, <2>1, <2>4, <2>5
         DEF Inv, ProcessTypeOK, Control, Restoring, PC, UpgradePC
  <1> QED
    BY <1>4, <1>5

LEMMA RestoreBaselineTyped == ASSUME Inv, RestoreCopy \/ RestoreFill PROVE Inv'
  <1>1. World /\ ProcessTypeOK /\ Control /\ job \in Job /\ run \in Run
    BY DEF Inv, ProcessTypeOK
  <1>2. pc \in Restoring /\ run.version \in Release /\ Previous \in Release
    BY <1>1, PreviousTyped DEF RestoreCopy, RestoreFill, Control, Restoring
  <1>3. job' = job /\ Previous' = Previous /\ UNCHANGED expired
    BY DEF RestoreCopy, RestoreFill, Previous, Goto
  <1>4. CASE RestoreCopy /\ Readable(run.version)
    <2> DEFINE content == baseline[run.version]
    <2>1. content \in Captured
      BY <1>4 DEF Readable
    <2>2. run' = [run EXCEPT !.captured = content] /\ pc' = "restoreFill"
      BY <1>4 DEF RestoreCopy, Goto
    <2> HIDE DEF content
    <2>3. run' \in Run /\ run'.version = run.version /\ run'.captured = content
      BY <1>1, <2>1, <2>2 DEF Run
    <2>4. World'
      BY <1>1, <1>2, <1>4, <2>1, BaselineTyped DEF RestoreCopy
    <2> QED
      BY <1>1, <1>2, <1>3, <2>1, <2>2, <2>3, <2>4
         DEF Inv, ProcessTypeOK, Control, Restoring, PC, UpgradePC
  <1>5. CASE RestoreCopy /\ ~Readable(run.version)
    <2>1. World'
      BY <1>1, <1>5, QuietTyped DEF RestoreCopy, durable
    <2> QED
      BY <1>1, <1>2, <1>3, <1>5, <2>1, PlainTyped DEF RestoreCopy, Goto, Inv, Plain, Restoring
  <1>6. CASE RestoreFill
    <2>1. run.captured \in Captured
      BY <1>1, <1>6 DEF RestoreFill, Control
    <2>2. run' = [run EXCEPT !.captured = "none"] /\ pc' = "restoreCheck"
      BY <1>6 DEF RestoreFill, Goto
    <2>3. run' \in Run /\ run'.version = run.version
      BY <1>1, <2>2 DEF Run
    <2>4. World'
      BY <1>1, <1>2, <1>6, <2>1, BaselineTyped DEF RestoreFill
    <2> QED
      BY <1>1, <1>2, <1>3, <2>2, <2>3, <2>4
         DEF Inv, ProcessTypeOK, Control, Restoring, PC, UpgradePC
  <1> QED
    BY <1>4, <1>5, <1>6

\* The record of a restore, one field at a time.
LEMMA RestoredJob ==
    ASSUME NEW j \in Job, NEW p \in Release, NEW v \in Release
    PROVE  [j EXCEPT !.status = "complete", !.stage = COMPLETE,
                     !.release = p, !.abandoned = v] \in Job
  <1> DEFINE j1 == [j EXCEPT !.status = "complete"]
             j2 == [j1 EXCEPT !.stage = COMPLETE]
             j3 == [j2 EXCEPT !.release = p]
             j4 == [j3 EXCEPT !.abandoned = v]
  <1>1. j1 \in Job
    BY DEF Job, Status
  <1> HIDE DEF j1
  <1>2. j2 \in Job
    BY <1>1 DEF Job, DISCOVER, COMPLETE
  <1> HIDE DEF j2
  <1>3. j3 \in Job
    BY <1>2 DEF Job
  <1> HIDE DEF j3
  <1>4. j4 \in Job
    BY <1>3 DEF Job
  <1> QED
    BY <1>4 DEF j1, j2, j3

LEMMA RestoreSaveTyped == ASSUME Inv, RestoreSave PROVE Inv'
  <1>1. World /\ ProcessTypeOK /\ Control /\ job \in Job /\ run \in Run
    BY DEF Inv, ProcessTypeOK
  <1>2. pc = "restoreSave" /\ run.version \in Release /\ Previous \in Release
    BY <1>1, PreviousTyped DEF RestoreSave, Control, Restoring
  <1> DEFINE j == [job EXCEPT !.status = "complete", !.stage = COMPLETE,
                              !.release = Previous, !.abandoned = run.version]
  <1>3. j \in Job
    BY ONLY <1>1, <1>2, RestoredJob
  <1>4. UNCHANGED <<router, baseline, audit, before>> /\ (Saved(j) \/ SaveError(j))
    BY DEF RestoreSave
  <1>5. Stop \/ (pc' = "failing" /\ UNCHANGED <<expired, job, run>>)
    BY DEF RestoreSave, Goto
  <1> HIDE DEF j
  <1>6. World'
    BY <1>1, <1>3, <1>4, SaveTyped
  <1>7. CASE Stop
    BY <1>6, <1>7, StopTyped DEF Inv
  <1>8. CASE pc' = "failing" /\ UNCHANGED <<expired, job, run>>
    BY <1>1, <1>2, <1>6, <1>8, PlainTyped DEF Inv, Plain
  <1> QED
    BY <1>5, <1>7, <1>8

(***************************************************************************)
(* COMPLETE and the errors.                                                *)
(***************************************************************************)
LEMMA CompleteTyped ==
    ASSUME Inv, Complete \/ Settle \/ Lament \/ MarkFailed PROVE Inv'
  <1>1. World /\ ProcessTypeOK /\ Control /\ job \in Job
    BY DEF Inv, ProcessTypeOK
  <1>2. PICK j \in Job :
            /\ Saved(j) \/ SaveError(j)
            /\ \/ Stop
               \/ job' = j /\ pc' \in {"push", "lament"} /\ UNCHANGED <<run, expired>>
    <2>1. CASE Complete
      <3> DEFINE j == [job EXCEPT !.status = "in_progress", !.stage = COMPLETE]
      <3>1. j \in Job
        <4> DEFINE j1 == [job EXCEPT !.status = "in_progress"]
        <4>1. j1 \in Job
          BY <1>1 DEF Job, Status
        <4> HIDE DEF j1
        <4>2. [j1 EXCEPT !.stage = COMPLETE] \in Job
          BY <4>1 DEF Job, DISCOVER, COMPLETE
        <4> QED
          BY <4>2 DEF j1
      <3> QED
        BY <2>1, <3>1 DEF Complete, Goto
    <2>2. CASE Settle
      <3> DEFINE j == [job EXCEPT !.status = "complete"]
      <3>1. j \in Job
        BY <1>1 DEF Job, Status
      <3> QED
        BY <2>2, <3>1 DEF Settle, Goto
    <2>3. CASE Lament
      BY <1>1, <2>3 DEF Lament
    <2>4. CASE MarkFailed
      <3> DEFINE j == [job EXCEPT !.status = "failed"]
      <3>1. j \in Job
        BY <1>1 DEF Job, Status
      <3> QED
        BY <2>4, <3>1 DEF MarkFailed
    <2> QED
      BY <2>1, <2>2, <2>3, <2>4
  <1>3. UNCHANGED <<router, baseline, audit, before>> /\ pc \notin {"idle", "hung"}
    BY DEF Complete, Settle, Lament, MarkFailed, At
  <1>4. World'
    BY <1>1, <1>2, <1>3, SaveTyped
  <1>5. CASE Stop
    BY <1>4, <1>5, StopTyped DEF Inv
  <1>6. CASE job' = j /\ pc' \in {"push", "lament"} /\ UNCHANGED <<run, expired>>
    BY <1>1, <1>3, <1>4, <1>6, PlainTyped DEF Inv, Plain
  <1> QED
    BY <1>2, <1>5, <1>6

LEMMA PushTyped == ASSUME Inv, PushAudit \/ RollbackPush PROVE Inv'
  <1>1. World /\ ProcessTypeOK /\ Control /\ job \in Job
    BY DEF Inv, ProcessTypeOK
  <1>2. pc \notin {"idle", "hung"} /\ pc' \in Plain /\ UNCHANGED <<job, run, expired>>
    BY DEF PushAudit, RollbackPush, Goto, Plain, RollbackPC
  <1>3. audit' \in Release \cup {None} /\ UNCHANGED <<environment, disk, baseline, before>>
    BY <1>1, <1>2 DEF PushAudit, RollbackPush, Control
  <1>4. World'
    BY <1>1, <1>3 DEF World, EnvironmentTypeOK, DurableTypeOK, environment, router
  <1> QED
    BY <1>1, <1>2, <1>4, PlainTyped DEF Inv

LEMMA ErrorTyped ==
    ASSUME Inv,
           \/ RemoteFailure \/ Unconfirmed \/ LocalFailure \/ CompleteFailure
           \/ RollbackPushFails \/ RollbackFails
    PROVE  Inv'
  <1>1. World /\ ProcessTypeOK /\ Control /\ job \in Job
    BY DEF Inv, ProcessTypeOK
  <1>2. pc \notin {"idle", "hung"} /\ pc' \in Plain /\ UNCHANGED <<job, run, expired>>
    BY DEF RemoteFailure, Unconfirmed, LocalFailure, CompleteFailure, RollbackPushFails,
       RollbackFails, At, Goto, Plain
  <1>3. World'
    <2>1. CASE Unconfirmed
      BY <1>1, <2>1, CommandTyped DEF Unconfirmed
    <2>2. CASE ~Unconfirmed
      BY <1>1, <2>2, FaultTyped DEF RemoteFailure, RemoteError, LocalFailure, CompleteFailure,
         RollbackPushFails, RollbackFails
    <2> QED
      BY <2>1, <2>2
  <1> QED
    BY <1>1, <1>2, <1>3, PlainTyped DEF Inv

(***************************************************************************)
(* The rollback.                                                           *)
(***************************************************************************)
LEMMA RollbackTyped == ASSUME Inv, RollbackStep PROVE Inv'
  <1>1. World /\ ProcessTypeOK /\ Control /\ job \in Job /\ run \in Run
    BY DEF Inv, ProcessTypeOK
  <1>2. ASSUME NEW p \in Package, RollbackUpload(p) PROVE Inv'
    <2>1. run.version \in Release /\ job' = job /\ pc \notin {"idle", "hung"} /\ UNCHANGED expired
      BY <1>1, <1>2 DEF RollbackUpload, Control, Goto
    <2>2. World'
      BY <1>1, <1>2, <2>1, UploadTyped DEF RollbackUpload
    <2>3. run' = [run EXCEPT !.todo = @ \ {p}]
      BY <1>2 DEF RollbackUpload
    <2>4. run.todo \ {p} \in SUBSET Package
      BY <1>1 DEF Run
    <2>5. run' \in Run /\ run'.version = run.version
      BY <1>1, <2>3, <2>4 DEF Run
    <2>6. pc' \in Plain
      BY <1>2 DEF RollbackUpload, Goto, Plain, RollbackPC
    <2> QED
      BY <1>1, <2>1, <2>2, <2>5, <2>6, ControlPlain DEF Inv, ProcessTypeOK
  <1>3. CASE RollbackMark
    <2> DEFINE j == [job EXCEPT !.stage = IF pc = "rollMarkReboot" THEN REBOOT
                                                               ELSE WAIT_FOR_RECONNECT]
    <2>1. j \in Job
      BY <1>1 DEF Job, REBOOT, WAIT_FOR_RECONNECT, DISCOVER, COMPLETE
    <2>2. job' = j /\ (Saved(j) \/ SaveError(j)) /\ UNCHANGED <<router, baseline, audit, before, run>>
      BY <1>3 DEF RollbackMark
    <2>3. pc \notin {"idle", "hung"} /\ pc' \in Plain /\ UNCHANGED expired
      BY <1>3 DEF RollbackMark, Goto, Plain, RollbackPC
    <2> HIDE DEF j
    <2>4. World'
      BY <1>1, <2>1, <2>2, SaveTyped
    <2> QED
      BY <1>1, <2>1, <2>2, <2>3, <2>4, PlainTyped DEF Inv
  <1>4. CASE RollbackReboot
    <2>1. World'
      BY <1>1, <1>4, CommandTyped DEF RollbackReboot
    <2> QED
      BY <1>1, <1>4, <2>1, PlainTyped DEF RollbackReboot, Goto, Inv, Plain, RollbackPC
  <1>5. CASE RollbackReconnect \/ RollbackMismatch
    <2>1. World'
      BY <1>1, <1>5, QuietTyped DEF RollbackReconnect, RollbackMismatch
    <2> QED
      BY <1>1, <1>5, <2>1, PlainTyped
         DEF RollbackReconnect, RollbackMismatch, Goto, Inv, Plain, RollbackPC
  <1>6. CASE RollbackVerified
    <2> DEFINE j == [job EXCEPT !.facts = installed, !.stage = COMPLETE]
    <2>1. j \in Job
      <3> DEFINE j1 == [job EXCEPT !.facts = installed]
      <3>1. j1 \in Job
        BY <1>1 DEF Job, World, EnvironmentTypeOK
      <3> HIDE DEF j1
      <3>2. [j1 EXCEPT !.stage = COMPLETE] \in Job
        BY <3>1 DEF Job, DISCOVER, COMPLETE
      <3> QED
        BY <3>2 DEF j1
    <2>2. UNCHANGED <<router, baseline, audit, before>> /\ (Saved(j) \/ SaveError(j))
      BY <1>6 DEF RollbackVerified
    <2>3. Stop \/ (job' = j /\ Goto("rollPush") /\ UNCHANGED run)
      BY <1>6 DEF RollbackVerified
    <2> HIDE DEF j
    <2>4. World'
      BY <1>1, <2>1, <2>2, SaveTyped
    <2>5. CASE Stop
      BY <2>4, <2>5, StopTyped DEF Inv
    <2>6. CASE job' = j /\ Goto("rollPush") /\ UNCHANGED run
      BY <1>1, <1>6, <2>1, <2>4, <2>6, PlainTyped
         DEF RollbackVerified, Goto, Inv, Plain, RollbackPC
    <2> QED
      BY <2>3, <2>5, <2>6
  <1>7. CASE RollbackPush
    BY <1>7, PushTyped
  <1>8. CASE RollbackSettle
    <2> DEFINE j == [job EXCEPT !.status = "complete"]
    <2>1. j \in Job
      BY <1>1 DEF Job, Status
    <2>2. World' /\ Stop
      BY <1>1, <1>8, <2>1, SaveTyped DEF RollbackSettle
    <2> QED
      BY <2>2, StopTyped DEF Inv
  <1>9. CASE RollbackPushFails \/ RollbackFails
    BY <1>9, ErrorTyped
  <1> QED
    BY <1>2, <1>3, <1>4, <1>5, <1>6, <1>7, <1>8, <1>9 DEF RollbackStep

(***************************************************************************)
(* The commands.                                                           *)
(***************************************************************************)
LEMMA OpenedTyped == ASSUME disk \in Job PROVE Opened \in Job
  <1>1. [NewJob EXCEPT !.facts = disk.facts] \in Job
    BY FreshTyped DEF Job
  <1> QED
    BY <1>1 DEF Opened

LEMMA StartUpgradeTyped ==
    ASSUME Inv, NEW v \in Release, NEW named, NEW resume \in BOOLEAN,
           StartUpgrade(v, named, resume)
    PROVE  Inv'
  <1>1. World /\ ProcessTypeOK /\ Control /\ disk \in Job
    BY DEF Inv, World, DurableTypeOK
  <1> DEFINE j == [Opened EXCEPT !.release = v, !.status = "in_progress"]
             start == StartIndex(j.stage, resume)
             validate == resume /\ j.stage \in DISCOVER + 1..COMPLETE - 1
  <1>2. j \in Job
    <2> DEFINE j1 == [Opened EXCEPT !.release = v]
    <2>1. j1 \in Job
      BY <1>1, OpenedTyped DEF Job
    <2> HIDE DEF j1
    <2>2. [j1 EXCEPT !.status = "in_progress"] \in Job
      BY <2>1 DEF Job, Status
    <2> QED
      BY <2>2 DEF j1
  <1>3. /\ pc' \in {"refresh", "loop"} /\ expired' = expired /\ job' = j
        /\ run' = [NoRun EXCEPT !.version = v, !.at = start, !.needsValidate = validate]
        /\ Saved(j) /\ audit' = None /\ UNCHANGED <<router, baseline>>
        /\ before' \in {before, TRUE, FALSE}
    BY DEF StartUpgrade, WasHealthy, Goto
  <1>4. start \in DISCOVER..COMPLETE /\ validate \in BOOLEAN
    <2>1. j.stage \in DISCOVER..COMPLETE
      BY <1>2 DEF Job
    <2> HIDE DEF j
    <2> QED
      BY <2>1 DEF StartIndex, WAIT_FOR_RECONNECT, DISCOVER, COMPLETE
  <1> HIDE DEF j, start, validate
  <1>5. run' \in Run /\ run'.version = v
    BY <1>3, <1>4 DEF NoRun, Run, DISCOVER, COMPLETE
  <1>6. World'
    <2>1. EnvironmentTypeOK'
      BY <1>1, <1>3, SpendTyped DEF World, Saved
    <2>2. before' \in BOOLEAN
      BY <1>1, <1>3 DEF World, DurableTypeOK, EnvironmentTypeOK
    <2> QED
      BY <1>1, <1>2, <1>3, <2>1, <2>2 DEF World, DurableTypeOK, Saved
  <1> QED
    BY <1>1, <1>2, <1>3, <1>5, <1>6, ControlPlain DEF Inv, ProcessTypeOK, Plain

LEMMA BlockedTyped ==
    ASSUME Inv, NEW v \in Release, NEW named, NEW resume,
           BlockedByDependency(v, named, resume)
    PROVE  Inv'
  <1>1. World /\ ProcessTypeOK /\ Control /\ disk \in Job
    BY DEF Inv, World, DurableTypeOK
  <1>2. World'
    <2>1. EnvironmentTypeOK'
      BY <1>1, SpendTyped DEF World, BlockedByDependency
    <2>2. before' \in {before, TRUE, FALSE}
      BY DEF BlockedByDependency, WasHealthy
    <2> QED
      BY <1>1, <2>1, <2>2 DEF BlockedByDependency, World, DurableTypeOK
  <1>3. job' \in Job
    BY <1>1, OpenedTyped DEF BlockedByDependency, Job
  <1>4. run' \in Run /\ run'.version = v
    BY FreshTyped DEF BlockedByDependency, Run
  <1>5. pc' = "failing" /\ expired' = expired
    BY DEF BlockedByDependency, Goto
  <1> QED
    BY <1>1, <1>2, <1>3, <1>4, <1>5, ControlPlain DEF Inv, ProcessTypeOK, Plain

LEMMA StartRollbackTyped ==
    ASSUME Inv, NEW v \in Release, StartRollback(v) PROVE Inv'
  <1>1. World /\ ProcessTypeOK /\ Control /\ installed \in Facts
    BY DEF Inv, World, EnvironmentTypeOK
  <1> DEFINE j == [status |-> "in_progress", release |-> v, stage |-> STAGE_PACKAGES,
                   abandoned |-> None, facts |-> installed]
  <1>2. j \in Job
    BY <1>1 DEF Job, Status, STAGE_PACKAGES, DISCOVER, COMPLETE
  <1>3. /\ pc' = "rollUpload" /\ expired' = expired /\ job' = j /\ Saved(j)
        /\ run' = [NoRun EXCEPT !.version = v, !.todo = Package]
        /\ audit' = None /\ before' = FALSE /\ UNCHANGED <<router, baseline>>
    BY DEF StartRollback, Goto
  <1> HIDE DEF j
  <1>4. run' \in Run /\ run'.version = v
    <2>1. run' = [version |-> v, at |-> DISCOVER, needsValidate |-> FALSE, skipRB |-> "unset",
                  backedUp |-> FALSE, todo |-> Package, captured |-> "none"]
      BY <1>3 DEF NoRun
    <2> QED
      BY <2>1 DEF Run, DISCOVER, COMPLETE
  <1>5. EnvironmentTypeOK'
    BY <1>1, <1>3, SpendTyped DEF World, Saved
  <1>6. World'
    BY <1>1, <1>2, <1>3, <1>5 DEF World, DurableTypeOK, EnvironmentTypeOK, Saved
  <1> QED
    BY <1>1, <1>2, <1>3, <1>4, <1>6, ControlPlain
       DEF Inv, ProcessTypeOK, Plain, RollbackPC

LEMMA OtherCommandTyped ==
    ASSUME Inv, DiscoverCommand \/ VerifySnapshot \/ VerifyFill \/ Crash \/ Hang
                \/ Interrupt \/ Deadline
    PROVE  Inv'
  <1>1. World /\ ProcessTypeOK /\ Control /\ disk \in Job /\ installed \in Facts
    BY DEF Inv, World, DurableTypeOK, EnvironmentTypeOK
  <1>2. CASE DiscoverCommand
    <2> DEFINE j == [disk EXCEPT !.facts = installed,
                                 !.status = IF @ = "" THEN "pending" ELSE @]
    <2>1. j \in Job
      <3> DEFINE j1 == [disk EXCEPT !.facts = installed]
      <3>1. j1 \in Job
        BY <1>1 DEF Job
      <3> HIDE DEF j1
      <3>2. [j1 EXCEPT !.status = IF @ = "" THEN "pending" ELSE @] \in Job
        BY <3>1 DEF Job, Status
      <3> QED
        BY <3>2 DEF j1
    <2>2. World'
      BY <1>1, <1>2, <2>1, SaveTyped DEF DiscoverCommand
    <2> QED
      BY <1>1, <1>2, <2>2 DEF DiscoverCommand, process, Inv, ProcessTypeOK, Control, Restoring
  <1>3. CASE VerifySnapshot
    <2>1. installed[System] \in Release
      BY <1>1 DEF Facts
    <2>2. RoleFacts \in Captured
      BY DEF RoleFacts, Captured
    <2>3. /\ run' = [NoRun EXCEPT !.version = installed[System], !.captured = RoleFacts]
          /\ pc' = "verifyFill" /\ UNCHANGED <<job, expired>>
      BY <1>3 DEF VerifySnapshot, Goto
    <2>4. World'
      BY <1>1, <1>3, <2>1, <2>2, BaselineTyped DEF VerifySnapshot
    <2> HIDE DEF RoleFacts
    <2>5. run' \in Run /\ run'.version = installed[System] /\ run'.captured = RoleFacts
      <3>1. run' = [version |-> installed[System], at |-> DISCOVER, needsValidate |-> FALSE,
                    skipRB |-> "unset", backedUp |-> FALSE, todo |-> {},
                    captured |-> RoleFacts]
        BY <2>3 DEF NoRun
      <3> QED
        BY <2>1, <2>2, <3>1 DEF Run, DISCOVER, COMPLETE
    <2> QED
      BY <1>1, <2>1, <2>2, <2>3, <2>4, <2>5 DEF Inv, ProcessTypeOK, Control, Restoring, PC
  <1>4. CASE VerifyFill
    <2>1. run.version \in Release /\ run.captured \in Captured
      BY <1>1, <1>4 DEF VerifyFill, Control
    <2>2. before' \in BOOLEAN
      BY <1>4 DEF VerifyFill
    <2>3. World'
      BY <1>1, <1>4, <2>1, <2>2 DEF VerifyFill, World, EnvironmentTypeOK, DurableTypeOK,
         environment, router, Fill, BaselineFile
    <2> QED
      BY <1>1, <1>4, <2>3, StopTyped DEF VerifyFill, Inv
  <1>5. CASE Crash \/ Hang
    BY <1>1, <1>5, FaultTyped, OverTyped DEF Crash, Hang, Stop, Inv
  <1>6. CASE Deadline
    <2>1. World'
      BY <1>1, <1>6, FaultTyped DEF Deadline
    <2> QED
      BY <1>1, <1>6, <2>1 DEF Deadline, Inv, ProcessTypeOK, Control, Previous
  <1>7. CASE Interrupt
    BY <1>1, <1>7, QuietTyped, StopTyped DEF Interrupt, Inv
  <1> QED
    BY <1>2, <1>3, <1>4, <1>5, <1>6, <1>7

LEMMA EnvironmentTyped ==
    ASSUME Inv, EnvironmentStep, UNCHANGED <<durable, process>> PROVE Inv'
  <1>1. EnvironmentTypeOK'
    BY DEF Inv, World, EnvironmentTypeOK, EnvironmentStep, GoDown, PowerCut, Boot, Spend,
           Facts, Firmware
  <1> QED
    BY <1>1 DEF Inv, World, DurableTypeOK, ProcessTypeOK, Control, Previous, Restoring,
                durable, process

(***************************************************************************)
(* The type invariant of the composed system.                              *)
(***************************************************************************)
LEMMA InitInv == Init => Inv
  <1> SUFFICES ASSUME Init PROVE Inv
    OBVIOUS
  <1>1. EnvironmentTypeOK
    BY DEF Init, EnvironmentInit, EnvironmentTypeOK, Facts, Firmware
  <1>2. DurableTypeOK
    BY <1>1, FreshTyped DEF Init, JobStoreInit, BaselinesInit, DurableTypeOK, BaselineFile, EnvironmentTypeOK
  <1> QED
    BY <1>1, <1>2, FreshTyped DEF Init, Inv, World, ProcessTypeOK, Control, Restoring, PC

LEMMA UpgradeStepTyped == ASSUME Inv, UpgradeStep PROVE Inv'
  BY LoopTyped, DiscoverTyped, QuietBodyTyped, BackupTyped, UploadFileTyped,
     SnapshotTyped, CommandBodyTyped, GiveUpTyped, RestoreTyped, RestoreDeviceTyped,
     RestoreBaselineTyped, RestoreSaveTyped, CompleteTyped, PushTyped, ErrorTyped
     DEF UpgradeStep

LEMMA NextInv == Inv /\ [Next]_vars => Inv'
  <1> SUFFICES ASSUME Inv, [Next]_vars PROVE Inv'
    OBVIOUS
  <1>1. CASE StartCommand
    BY <1>1, StartUpgradeTyped, BlockedTyped, StartRollbackTyped DEF StartCommand
  <1>2. CASE DiscoverCommand \/ VerifySnapshot \/ Crash \/ Hang \/ Interrupt \/ Deadline
    BY <1>2, OtherCommandTyped
  <1>3. CASE ProcessStep
    BY <1>3, UpgradeStepTyped, RollbackTyped, OtherCommandTyped DEF ProcessStep
  <1>4. CASE EnvironmentStep /\ UNCHANGED <<durable, process>>
    BY <1>4, EnvironmentTyped
  <1>5. CASE UNCHANGED vars
    BY <1>5, QuietTyped
       DEF vars, process, Inv, ProcessTypeOK, Control, Previous, Restoring
  <1> QED
    BY <1>1, <1>2, <1>3, <1>4, <1>5 DEF Next

\* Every variable keeps its type, whatever the releases, packages and faults.
THEOREM TypeCorrect == Spec => []TypeOK
  <1>1. Inv => TypeOK
    BY Parts DEF Inv
  <1> QED
    BY <1>1, InitInv, NextInv, PTL DEF Spec
=============================================================================
