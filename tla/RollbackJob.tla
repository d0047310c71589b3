---------------------------- MODULE RollbackJob ----------------------------
(***************************************************************************)
(* rosup rollback on one device (internal/upgrade/rollback.go).  It shares *)
(* the job file, the upload and the audit push with the upgrade, but it    *)
(* takes no baseline and checks package versions only, never the role.     *)
(***************************************************************************)
EXTENDS UpgradeJob

RollbackPC == {"rollUpload", "rollMarkReboot", "rollReboot", "rollMarkWait",
               "rollWait", "rollVerify", "rollPush", "rollSettle"}

\* Refused while a job is in progress; nothing to do when already complete.
StartRollback(v) ==
    /\ pc = "idle"
    /\ Connected
    /\ disk.status # "in_progress"
    /\ ~(disk.status = "complete" /\ disk.release = v)
    /\ LET j == [status |-> "in_progress", release |-> v, stage |-> STAGE_PACKAGES,
                 abandoned |-> None, facts |-> installed]
       IN Saved(j) /\ job' = j
    /\ run' = [NoRun EXCEPT !.version = v, !.todo = Package]
    /\ Goto("rollUpload")
    /\ audit' = None
    /\ before' = FALSE
    /\ UNCHANGED <<router, baseline>>

RollbackUpload(p) ==
    /\ pc = "rollUpload"
    /\ p \in run.todo
    /\ Connected
    /\ Upload(p, run.version)
    /\ run' = [run EXCEPT !.todo = @ \ {p}]
    /\ Goto(IF run.todo = {p} THEN "rollMarkReboot" ELSE "rollUpload")
    /\ UNCHANGED <<faults, durable, job>>

\* The stage is saved before and after the reboot; errors are ignored.
RollbackMark ==
    /\ pc \in {"rollMarkReboot", "rollMarkWait"}
    /\ LET j == [job EXCEPT !.stage = IF pc = "rollMarkReboot" THEN REBOOT
                                                         ELSE WAIT_FOR_RECONNECT]
       IN job' = j /\ (Saved(j) \/ SaveError(j))
    /\ Goto(IF pc = "rollMarkReboot" THEN "rollReboot" ELSE "rollWait")
    /\ UNCHANGED <<router, baseline, audit, before, run>>

RollbackReboot ==
    /\ pc = "rollReboot"
    /\ Connected
    /\ Reboot
    /\ Goto("rollMarkWait")
    /\ UNCHANGED <<faults, durable, job, run>>

RollbackReconnect ==
    /\ pc = "rollWait"
    /\ Connected
    /\ Goto("rollVerify")
    /\ UNCHANGED <<environment, durable, job, run>>

RollbackVerified ==
    /\ pc = "rollVerify"
    /\ Connected
    /\ AlreadyOnRelease(installed, run.version)
    /\ LET j == [job EXCEPT !.facts = installed, !.stage = COMPLETE]
       IN \/ Saved(j) /\ job' = j /\ Goto("rollPush") /\ UNCHANGED run
          \/ SaveError(j) /\ Stop
    /\ UNCHANGED <<router, baseline, audit, before>>

RollbackMismatch ==
    /\ pc = "rollVerify"
    /\ Connected
    /\ ~AlreadyOnRelease(installed, run.version)
    /\ Goto("failing")
    /\ UNCHANGED <<environment, durable, job, run>>

RollbackPush ==
    /\ pc = "rollPush"
    /\ ~expired
    /\ audit' = run.version
    /\ Goto("rollSettle")
    /\ UNCHANGED <<environment, disk, baseline, before, job, run>>

RollbackPushFails ==
    /\ pc = "rollPush"
    /\ IF expired THEN UNCHANGED faults ELSE Spend
    /\ Goto("lament")
    /\ UNCHANGED <<router, durable, job, run>>

RollbackSettle ==
    /\ pc = "rollSettle"
    /\ LET j == [job EXCEPT !.status = "complete"]
       IN Saved(j) \/ SaveError(j)
    /\ Stop
    /\ UNCHANGED <<router, baseline, audit, before>>

RollbackFails ==
    /\ pc \in {"rollUpload", "rollReboot", "rollWait", "rollVerify"}
    /\ RemoteError
    /\ Goto("failing")
    /\ UNCHANGED <<router, durable, job, run>>

RollbackStep ==
    \/ \E p \in Package : RollbackUpload(p)
    \/ RollbackMark \/ RollbackReboot \/ RollbackReconnect
    \/ RollbackVerified \/ RollbackMismatch
    \/ RollbackPush \/ RollbackPushFails \/ RollbackSettle \/ RollbackFails
=============================================================================
