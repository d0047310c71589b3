\* Power cuts, slow shutdowns and slow boots; only the running command is fair.
SPECIFICATION FairSpec
CHECK_DEADLOCK FALSE
CONSTANTS
  r1 = r1
  r2 = r2
  sys = sys
  ppp = ppp
  None = None
  Release = {r1, r2}
  Package = {sys, ppp}
  System = sys
  MaxFaults = 1
  ShutdownLag = TRUE
  SlowBoot = TRUE
  PowerCuts = TRUE
  FirmwareAfterInstall = {"current", "outdated"}
  InitialRole = {TRUE}
  RoleAfterInstall = {FALSE}
  Commands = {"upgrade", "rollback", "discover"}
  Targets = {r2}
INVARIANTS
  AuditBeforeComplete
PROPERTIES
  NoInventedBaseline
  CommandEnds
