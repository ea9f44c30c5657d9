SPECIFICATION FairSpec
CONSTANTS
  Drvs = {d1}
  Hooks = {h1, h2}
  NoHook = NoHook
  NoDrv = NoDrv
  Predictions = {0}
  TtlFloor = 0
  MaxTries = 2
  MaxFaults = 1
PROPERTIES OverdueRowsGo EveryTryAnswered DeadSentinelSwept FirstCrashSwept
CHECK_DEADLOCK FALSE
