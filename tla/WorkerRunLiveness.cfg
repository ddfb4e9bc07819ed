SPECIFICATION ProfiledSpec
CONSTANTS
  Runs = {r1}
  MaxAttempts = 1
  Faults <- AllFaults
  DispatchWithinGrace = FALSE
CHECK_DEADLOCK FALSE
INVARIANT
  CalmCleansVault
PROPERTIES
  EveryRunEnds
  CalmReclaims
