SPECIFICATION Spec
CONSTANTS
  Drvs = {d1}
  Hooks = {h1, h2}
  NoHook = NoHook
  NoDrv = NoDrv
  Predictions = {0}
  TtlFloor = 1
  MaxTries = 3
  MaxFaults = 1
SYMMETRY HookSymmetry
INVARIANTS TypeOK NoForgottenSentinel FirstTryIsGuarded
PROPERTIES FirstTryKeepsAdmission ImplementsLedger
CHECK_DEADLOCK FALSE
