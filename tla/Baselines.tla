----------------------------- MODULE Baselines -----------------------------
(***************************************************************************)
(* The validation baselines of the device (internal/validate), one per     *)
(* release, and the check that compares the device with one.               *)
(*                                                                         *)
(* WriteBaseline is not atomic: it truncates the file and then writes it,  *)
(* so a crash in between leaves a file ReadBaseline cannot parse ("torn"). *)
(* Of a baseline's content the checks tell apart whether the role was      *)
(* healthy when it was captured; the package names in it are those of the  *)
(* device, whose set of packages does not change.                          *)
(***************************************************************************)
EXTENDS JobStore

VARIABLE baseline   \* baseline[r]: the file of release r

Captured == {"healthy", "broken"}
BaselineFile == {"missing", "torn"} \cup Captured

\* ReadBaseline of release r succeeds.
Readable(r) == baseline[r] \in Captured

\* CaptureRoleFacts: what a baseline taken now holds.
RoleFacts == IF role THEN "healthy" ELSE "broken"

\* The two steps of WriteBaseline.
Truncate(r) == baseline' = [baseline EXCEPT ![r] = "torn"]
Fill(r, content) == baseline' = [baseline EXCEPT ![r] = content]

\* The role is no worse than the baseline of r says it was.
RoleMatches(r) == baseline[r] = "healthy" => role

\* checkFirmware: enforced only on a pass that upgraded the firmware.
FirmwareMatches(upgrading) == upgrading => firmware \in {"none", "current"}

\* Mutant: the check trusts the role and never looks at the versions.
CheckPassesAnyVersion(r, upgrading) ==
    /\ Readable(r)
    /\ FirmwareMatches(upgrading)
    /\ RoleMatches(r)

\* validate.Check against release r, once connected.
CheckPasses(r, upgrading) ==
    /\ Readable(r)
    /\ AlreadyOnRelease(installed, r)
    /\ FirmwareMatches(upgrading)
    /\ RoleMatches(r)

BaselinesTypeOK == baseline \in [Release -> BaselineFile]

BaselinesInit == baseline = [r \in Release |-> "missing"]
=============================================================================
