SPECIFICATION Spec
CONSTANTS
  Uploads = {u1, u2}
  Handlers = {h1, h2}
  Sizes = {2}
  Lens = {2}
  Budget = 3
  MaxCrashes = 0
  MaxRequests = 5
  Nobody = Nobody
CHECK_DEADLOCK FALSE
PROPERTY SweepSparesWanted
