SPECIFICATION Spec
CONSTANTS
  Drvs = {d1}
  Hooks = {h1, h2}
  NoHook = NoHook
  NoDrv = NoDrv
  Predictions = {1}
  TtlFloor = 1
  MaxTries = 2
  MaxFaults = 0
PROPERTY AdmissionsAreAuthoritative
CHECK_DEADLOCK FALSE
