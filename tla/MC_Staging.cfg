SPECIFICATION Spec
CONSTANTS
  Uploads = {u1, u2}
  Handlers = {h1, h2}
  Sizes = {2}
  Lens = {1, 2}
  Budget = 3
  MaxCrashes = 1
  MaxRequests = 5
  Nobody = Nobody
SYMMETRY Symmetry
INVARIANTS ReceivedOnDisk DigestOfWhole NoReservationUncounted
CHECK_DEADLOCK FALSE
