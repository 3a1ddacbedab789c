SPECIFICATION FairSpec
CONSTANTS
  Jobs = {j1, j2, j3}
  Watched = {j1}
  MaxWorkers = 2
  Keep = 1
  MaxCrashes = 1
INVARIANTS ToldTheTruth GcDropsOldFinished
PROPERTIES  WorkAndWaitsEnd
CHECK_DEADLOCK FALSE
