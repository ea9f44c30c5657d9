SPECIFICATION FairSpec
CONSTANTS
  Drvs = {d1}
  MaxSamples = 0
  MaxBuilds = 1
  MaxConns = 2
  MaxLost = 0
  MaxCrashes = 0
  MaxBreaks = 1
PROPERTY SpoolDrains
CHECK_DEADLOCK FALSE
