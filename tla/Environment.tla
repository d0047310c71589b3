---------------------------- MODULE Environment ----------------------------
(***************************************************************************)
(* What rosup does not control: one RouterOS device behind SSH, and the    *)
(* budget of things that go wrong (crashes, failed saves, failed commands, *)
(* expired deadlines, power cuts).                                         *)
(*                                                                         *)
(* The device is external code.  It is modelled from the commands rosup    *)
(* sends it (upload, /system reboot, /system routerboard upgrade) and the  *)
(* answers rosup parses (package versions, firmware, role state).          *)
(*   - Uploading a package file puts it next to the files already there;   *)
(*     the next boot installs, per package, one of the files found or      *)
(*     keeps the version it had, and deletes the files.                    *)
(*   - An install may break the device's role (routes, sessions, radio     *)
(*     links) or repair it; RoleAfterInstall names the possible outcomes.  *)
(*   - With ShutdownLag the device still answers SSH for a while after it  *)
(*     has accepted a reboot.                                              *)
(***************************************************************************)
EXTENDS Integers, FiniteSets

CONSTANTS
    Release,            \* RouterOS releases that may be installed
    Package,            \* packages installed on the device
    System,             \* the package that carries the device's own version
    None,               \* no release, no facts
    MaxFaults,          \* how many things may go wrong in a behaviour
    ShutdownLag,        \* TRUE: SSH answers between the reboot and the shutdown
    SlowBoot,           \* TRUE: a boot may outlast the reconnect budget
    PowerCuts,          \* TRUE: the device may lose power at any time
    FirmwareAfterInstall,   \* RouterBOOT states an install may lead to
    InitialRole,            \* role states the device may be found in
    RoleAfterInstall        \* role states an install may lead to

\* No RouterBOARD; what Compare tells apart of current-firmware and
\* upgrade-firmware; and an upgrade that waits for a reboot.
Firmware == {"none", "current", "outdated", "ahead", "armed"}

ASSUME EnvironmentAssumption ==
    /\ System \in Package
    /\ None \notin Release
    /\ None \notin [Package -> Release]
    /\ MaxFaults \in Nat
    /\ ShutdownLag \in BOOLEAN
    /\ SlowBoot \in BOOLEAN
    /\ PowerCuts \in BOOLEAN
    /\ FirmwareAfterInstall \subseteq Firmware \ {"none", "armed"}
    /\ InitialRole \subseteq BOOLEAN
    /\ RoleAfterInstall \subseteq BOOLEAN

VARIABLES
    installed,  \* the version each package runs
    staged,     \* the package files waiting for the next boot
    phase,      \* "up", "going" (reboot accepted, still answering) or "down"
    firmware,   \* RouterBOOT firmware relative to the upgrade firmware
    role,       \* TRUE iff the device does its job
    faults      \* history: what has gone wrong so far

router == <<installed, staged, phase, firmware, role>>
environment == <<router, faults>>

Facts == [Package -> Release]

\* One more thing goes wrong.
Spend == faults < MaxFaults /\ faults' = faults + 1

\* Every package, system included, is on release r.
AlreadyOnRelease(facts, r) == \A p \in Package : facts[p] = r

Answering == phase # "down"

EnvironmentTypeOK ==
    /\ installed \in Facts
    /\ staged \in [Package -> SUBSET Release]
    /\ phase \in {"up", "going", "down"}
    /\ firmware \in Firmware
    /\ role \in BOOLEAN
    /\ faults \in 0..MaxFaults

EnvironmentInit ==
    /\ installed \in {[p \in Package |-> r] : r \in Release}
    /\ staged = [p \in Package |-> {}]
    /\ phase = "up"
    /\ firmware \in FirmwareAfterInstall \cup {"none"}
    /\ role \in InitialRole
    /\ faults = 0

(***************************************************************************)
(* What a command does to the device.                                      *)
(***************************************************************************)
Upload(p, r) ==
    /\ staged' = [staged EXCEPT ![p] = @ \cup {r}]
    /\ UNCHANGED <<installed, phase, firmware, role>>

Reboot ==
    /\ phase' = IF ShutdownLag THEN "going" ELSE "down"
    /\ UNCHANGED <<installed, staged, firmware, role>>

ArmFirmware ==
    /\ firmware' = "armed"
    /\ UNCHANGED <<installed, staged, phase, role>>

(***************************************************************************)
(* What the device does by itself.                                         *)
(***************************************************************************)
GoDown ==
    /\ phase = "going"
    /\ phase' = "down"
    /\ UNCHANGED <<installed, staged, firmware, role, faults>>

PowerCut ==
    /\ PowerCuts
    /\ phase # "down"
    /\ Spend
    /\ phase' = "down"
    /\ UNCHANGED <<installed, staged, firmware, role>>

Boot ==
    /\ phase = "down"
    /\ phase' = "up"
    /\ installed' \in {f \in Facts :
                         \A p \in Package : f[p] \in staged[p] \cup {installed[p]}}
    /\ staged' = [p \in Package |-> {}]
    /\ IF installed' = installed
       THEN /\ role' = role
            /\ firmware' = IF firmware = "armed" THEN "current" ELSE firmware
       ELSE /\ role' \in RoleAfterInstall
            /\ firmware' \in IF firmware = "none" THEN {"none"}
                                                  ELSE FirmwareAfterInstall
    /\ UNCHANGED faults

EnvironmentStep == GoDown \/ PowerCut \/ Boot
=============================================================================
