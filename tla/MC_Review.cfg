SPECIFICATION MCSpec
CONSTANTS
  f1 = f1
  f2 = f2
  u = u
  c = c
  Fnd = {f1, f2}
  Entity = {u}
  Chain = {c}
  NoChain = NoChain
  About <- MCAbout
  StepOf <- MCStepOf
  Offers <- MCOffers
  MaxProposals = 2
  MaxClicks = 1
  MaxAppends = 1
  Rules <- MCRules
  Beside <- MCBeside
  RowOf <- MCRowOf
  Within <- MCWithin
  Lists <- MCLists
  ListField = {}
  Heavy <- MCHeavy
  BodyField = {}
  GroupableField = {"user"}
  MAX_REFS = 3
  MaxRows = 3
  Internal <- MCInternal
  SubdomainOf <- MCSubdomainOf
  FirstLabel <- MCFirstLabel
  Gap = 20
  MAX_MEMBER_REFS = 3
  Window = 30
  Trust <- MCTrust
  Remembered = {}
  Facts <- MCFacts
  ChainSet <- MCChainSet
  Files <- MCFiles
  StorySet <- MCStories
  Settings <- MCSettings
  PUA = {"pua"}
  UserRuns = {}
  Filters <- MCFilters
  Unsupported = {3}
  Deciders = {"analyst"}
  Targets = {"low", "none"}
  MaxDecisions = 2
INVARIANTS LedgerIntact WrittenIsAccepted  EachFindingOnce DismissalOnlyLowers
  ConfirmedStaysConfirmed 
PROPERTY UndoRestores
CHECK_DEADLOCK FALSE
