SPECIFICATION TableSpec
CONSTANTS
  Word = 16
  TargetStates <- MCTargetStates
  Rows <- MCRows
  Estimates <- MCEstimates
  NumTargets = 2
  NumRows = 2
  UnknownP95 = 5
  Now = 10
  PollInterval = 1
  MinMem = 1
INVARIANTS FirstCheapestWins LoadOfLosersIsIrrelevant AdmissionWeighs
CHECK_DEADLOCK FALSE
