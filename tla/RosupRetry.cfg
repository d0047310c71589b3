\* An operator who retries by name; RouterBOOT is never out of date.
SPECIFICATION RetrySpec
CHECK_DEADLOCK FALSE
CONSTANTS
  r1 = r1
  r2 = r2
  sys = sys
  ppp = ppp
  None = None
  Release = {r1, r2}
  Package = {sys, ppp}
  System = sys
  MaxFaults = 2
  ShutdownLag = FALSE
  SlowBoot = FALSE
  PowerCuts = FALSE
  FirmwareAfterInstall = {"current"}
  InitialRole = {TRUE}
  RoleAfterInstall = {TRUE}
  Commands = {"upgrade"}
  Targets = {r2}
PROPERTIES
  RetryConverges
