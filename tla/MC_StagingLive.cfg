SPECIFICATION FairSpec
CONSTANTS
  Uploads = {u1, u2}
  Handlers = {h1, h2}
  Sizes = {2}
  Lens = {2}
  Budget = 3
  MaxCrashes = 1
  MaxRequests = 3
  Nobody = Nobody
PROPERTIES StagedFilesCleared InitAnswered
CHECK_DEADLOCK FALSE
