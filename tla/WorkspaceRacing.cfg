SPECIFICATION Spec
CONSTANTS
  r1 = r1
  r2 = r2
  Runs = {r1, r2}
  None = None
  MaxAttempts = 1
  Happens = {"idle"}
SYMMETRY RunSymmetry
CHECK_DEADLOCK FALSE
INVARIANT
  RacingTurnKeepsMachine
