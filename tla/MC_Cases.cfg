SPECIFICATION MCSpec
CONSTANTS
  e1 = e1
  e2 = e2
  k1 = k1
  k2 = k2
  none = none
  Jobs = {e1, e2}
  Watched = {}
  MaxWorkers = 2
  Keep = 1
  MaxCrashes = 1
  Content <- TwoExports
  Unkeyed = none
  Packages = {e2}
  Batch = 2
  MaxFaults = 1
  Nothing = Nothing
  BUILT_IN = "built-in"
  Page = {p1, p2}
  Demo <- MCDemo
  MaxCases = 3
  MaxWrites = 1
  MaxUses = 2
  MaxEnds = 1
  MaxFailures = 1
SYMMETRY MCSymmetry
CHECK_DEADLOCK FALSE
INVARIANTS IdsUnique EvidenceTellsOfRows  RestoredIsWhole NothingWithoutCase
