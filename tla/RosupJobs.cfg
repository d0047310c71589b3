\* All commands, two faults, a device that only reboots when told to.
SPECIFICATION Spec
CONSTANTS
  r1 = r1
  r2 = r2
  sys = sys
  ppp = ppp
  None = None
  Release = {r1, r2}
  Package = {sys, ppp}
  System = sys
  MaxFaults = 2
  ShutdownLag = FALSE
  SlowBoot = TRUE
  PowerCuts = FALSE
  FirmwareAfterInstall = {"current", "outdated", "ahead"}
  InitialRole = {TRUE, FALSE}
  RoleAfterInstall = {TRUE, FALSE}
  Commands = {"upgrade", "rollback", "discover", "verify"}
  Targets = {r1, r2}
SYMMETRY ReleaseSymmetry
INVARIANTS
  TypeOK
  RecordTrue
PROPERTIES
  CompletedOnRelease
  NoFalseGreen
  ImplementsLifecycle
