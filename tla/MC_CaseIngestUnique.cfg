SPECIFICATION CaseSpec
CONSTANTS
  e1 = e1
  e2 = e2
  k1 = k1
  k2 = k2
  none = none
  Jobs = {e1, e2}
  Watched = {}
  MaxWorkers = 2
  Keep = 1
  MaxCrashes = 0
  Content <- TwoExports
  Unkeyed = none
  Packages = {e2}
  Batch = 2
  MaxFaults = 0
  Nothing = Nothing
CHECK_DEADLOCK FALSE
INVARIANT RecordsUnique
