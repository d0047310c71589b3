\* An operator who retries by name, RouterBOOT included.
SPECIFICATION RetrySpec
CHECK_DEADLOCK FALSE
CONSTANTS
  r1 = r1
  r2 = r2
  sys = sys
  ppp = ppp
  None = None
  Release = {r1, r2}
  Package = {sys, ppp}
  System = sys
  MaxFaults = 1
  ShutdownLag = FALSE
  SlowBoot = FALSE
  PowerCuts = FALSE
  FirmwareAfterInstall = {"current", "outdated"}
  InitialRole = {TRUE}
  RoleAfterInstall = {TRUE}
  Commands = {"upgrade"}
  Targets = {r2}
PROPERTIES
  RetryConverges
