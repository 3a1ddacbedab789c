SPECIFICATION MCSpec
CONSTANTS
  Tab = {t1, t2}
  i1 = i1
  i2 = i2
  k1 = k1
  Import = {i1, i2}
  File <- MCFile
  NoKey = none
  BATCH = 1
  MaxClosings = 1
  MaxRemovals = 1
  MaxActive = 2
  x = x
  y = y
  Doc = {x, y}
  DocIs <- MCDocIs
  Drop = {d1, d2}
  BIG = 1
  CHUNK_ABOVE = 1
  Mode = "full"
  LIMIT = 1
  Local = FALSE
  MaxFaults = 1
  e1 = e1
  e2 = e2
  ra = ra
  rb = rb
  rc = rc
  h1 = h1
  h2 = h2
  rn = rn
  rq = rq
  Evidence = {e1, e2}
  RecordsOf <- MCRecordsOf
  HostOf <- MCHostOf
  Rule = {rn, rq}
  Matches <- MCMatches
  Noisy = {rn}
  Custom = {}
  Dropped = {rn}
  Failing = {rn}
  MIN_HOSTS = 2
  MaxImports = 2
  MaxDecisions = 1
  MaxRuns = 1
  MaxAtOnce = 2
  Logs = {e2}
  Decided = {ra}
  MaxMixed = 1
  Case = {"A", "B"}
  RowsOf <- MCAgentRows
  ParentOf <- MCParentOf
  LogonOf <- MCLogonOf
  ChainOf <- MCChainOf
  StoryOf <- MCStoryOf
  Matched <- MCMatched
  Baited = {3}
  MAX_ROWS = 2
  MAX_UP = 1
  MAX_STEPS = 2
  SAMPLE_ROWS = 1
  RESULT = 3
  KEEP_ROUNDS = 1
  Replies <- MCReplies
  Budget = 1
  Window = 8
  Schemas = 1
  MaxSends = 2
  MaxClicks = 2
SYMMETRY MCSymmetry
INVARIANTS NoticeRespected UploadWhole LiveRowsKept DoneIsComplete DerivedMatchesRows
  DecisionStands  VerifiedWasReturned ExposureIsMarked SentInRounds
PROPERTY DoneStaysDone
CHECK_DEADLOCK FALSE
