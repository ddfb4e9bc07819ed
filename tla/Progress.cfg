SPECIFICATION ProgressSpec
CONSTANTS
  Runs = {r1, r2}
  None = None
  MaxAttempts = 1
  Happens = {}
  MaxEvents = 3
  MaxBatch = 2
  MaxPosts = 2
  MaxShown = 1
  Faults = {"net", "server"}
CHECK_DEADLOCK FALSE
INVARIANTS
  ViewTypeOK
  FlushedBeforeCallback
  LastPollShowsAll
PROPERTIES
  LogSpec
  LockReleased
  CallbackReturns
