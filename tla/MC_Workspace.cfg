SPECIFICATION MCSpec
CONSTANTS
  Tabs = {t1}
  Worlds <- MCWorlds
  Engines <- MCEngines
  SevOf <- MCSev
  Verdicts = {"benign"}
  StepVerdicts = {"disputed"}
  StepRows = 1
  Reach = 3
  MaxPrinted = 1
  Links <- MCLinks
  Cheap = FALSE
  MaxChanges = 2
  MaxBuilds = 1
  LATE = 3
  MARK_TOLERANCE = 1
  BUFFER = 5
  STEP_REPORT = 1
  CLOCK_LOGS = 2
  SET_BACK_REPORT = 2
  EXPORT_CAPS = {8}
  Addresses <- MCAddresses
  CHECKED_ROWS = 2
  TIME_SLACK = 1
  MAX_NAMED = 2
  MAX_SCANS = 1
  Cases = {"a", "b"}
  Contents <- MCContents
  Blank <- MCBlank
  Pieces <- MCPieces
  CheckedFields <- MCChecked
  DraftOf <- MCDraftOf
  Edits <- MCEdits
  MAX_MOMENTS = 1
  MAX_STEP_ROWS = 1
  MAX_LIMITS = 2
  MaxTicks = 2
  MaxReads = 1
  Columns <- MCColumns
  Relates <- MCRelates
  ListField = {"to", "flags"}
  InSetting = {}
  InHours = {5}
  HARD_CAP = 3
  MAX_IDS = 2
  MAX_SCAN = 3
  MAX_GROUPS = 2
  BUCKET = 4
  Books = {"A", "B"}
  RowsIn <- MCRowsIn
  FoundIn <- MCFoundIn
  Entities <- MCEntities
  MAX_WORKERS = 2
  LIMIT_ROWS = 2
  ENTITY_ROWS = 1
  EXPORT_PAGE = 2
  EXPORT_MAX = 4
  FACET_ROWS = 2
  Facet <- MCFacet
  Texts = {50}
  Ranges <- MCRanges
  Stacked <- MCStacked
  Added <- MCAdded
  Searches <- MCSearches
  Asked <- MCAsked
  MaxActs = 2
INVARIANTS  StepsShownOnce DisputeOnlyLowers 
   GapsAccounted
PROPERTY DecidingKeepsTheRest
CHECK_DEADLOCK FALSE
