SPECIFICATION Spec
CONSTANTS
  Jobs = {j1, j2}
  Watched = {j1}
  MaxWorkers = 2
  Keep = 1
  MaxCrashes = 0
CHECK_DEADLOCK FALSE
INVARIANT DoneAnswerHasResult
