SPECIFICATION FairSpec
CONSTANTS
  Drvs = {d1}
  MaxSamples = 1
  MaxBuilds = 3
  MaxConns = 2
  MaxLost = 1
  MaxCrashes = 1
  MaxBreaks = 1
INVARIANTS TypeOK DurationIsExact ObservationsAreNewest LostByBreaksOnly WriterIsServed
PROPERTY DrainsWhileConnected
CHECK_DEADLOCK FALSE
