------------------------------ MODULE JobStore ------------------------------
(***************************************************************************)
(* The durable job file of the device (internal/state).  Save writes a     *)
(* temporary file and renames it, so the file on disk is always a whole    *)
(* record: a crash or an I/O error leaves the previous one, or the new one *)
(* if only the final chmod failed.                                         *)
(*                                                                         *)
(* A status of "" stands for a missing file: loadOrNew answers a missing   *)
(* file with a fresh job whose status is "".  The counters, timestamps,    *)
(* paths and error texts of DeviceJob are left out.                        *)
(***************************************************************************)
EXTENDS Environment

VARIABLE disk   \* the job file

\* The stages of an upgrade, in order.  startIndex reads "" as the first.
DISCOVER == 0
PREFLIGHT == 1
EXPORT_TEXT == 2
SAVE_BINARY_BACKUP == 3
STAGE_PACKAGES == 4
REBOOT == 5
WAIT_FOR_RECONNECT == 6
VALIDATE_ROLE == 7
ROUTERBOOT_UPDATE == 8
REBOOT_ROUTERBOOT == 9
VALIDATE_ROLE_AFTER_ROUTERBOOT == 10
COMPLETE == 11

Status == {"", "pending", "in_progress", "complete", "failed"}

Job == [status    : Status,
        release   : Release \cup {None},
        stage     : DISCOVER..COMPLETE,
        abandoned : Release \cup {None},
        facts     : Facts \cup {None}]

NewJob == [status |-> "", release |-> None, stage |-> DISCOVER,
           abandoned |-> None, facts |-> None]

\* A complete job is not overwritten by an incomplete one of its release.
Refused(j) ==
    /\ disk.status = "complete"
    /\ j.status # "complete"
    /\ disk.release = None \/ j.release = None \/ disk.release = j.release

\* Save(j) returns nil.
Saved(j) ==
    /\ ~Refused(j)
    /\ disk' = j
    /\ UNCHANGED faults

\* Save(j) returns an error: ErrJobComplete, or a file operation failed,
\* which for the last of them (chmod) is after the rename.
SaveError(j) ==
    \/ Refused(j) /\ UNCHANGED <<disk, faults>>
    \/ ~Refused(j) /\ Spend /\ disk' \in {disk, j}

JobStoreTypeOK == disk \in Job

JobStoreInit == disk = NewJob
=============================================================================
