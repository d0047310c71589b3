\* rosup verify between an interrupted upgrade and its resume.
SPECIFICATION Spec
CONSTANTS
  r1 = r1
  r2 = r2
  sys = sys
  ppp = ppp
  None = None
  Release = {r1, r2}
  Package = {sys, ppp}
  System = sys
  MaxFaults = 2
  ShutdownLag = FALSE
  SlowBoot = TRUE
  PowerCuts = TRUE
  FirmwareAfterInstall = {"current", "outdated", "ahead"}
  InitialRole = {TRUE, FALSE}
  RoleAfterInstall = {TRUE, FALSE}
  Commands = {"upgrade", "verify"}
  Targets = {r1, r2}
PROPERTIES
  NoInventedBaseline
