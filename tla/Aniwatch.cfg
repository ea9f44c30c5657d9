\* Two files, one fault, two weeks.
CONSTANTS
  Name = {f1, f2}
  Nobody = nobody
  MaxFaults = 1
  MaxExpiries = 1
SPECIFICATION FairSpec
INVARIANT CopiesAreTracked
PROPERTIES RemovedStaysRemoved ExpiredCopiesGo
CHECK_DEADLOCK FALSE
