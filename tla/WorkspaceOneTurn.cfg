SPECIFICATION Spec
CONSTANTS
  r1 = r1
  r2 = r2
  Runs = {r1, r2}
  None = None
  MaxAttempts = 2
  Happens = {"retry"}
SYMMETRY RunSymmetry
CHECK_DEADLOCK FALSE
INVARIANT
  OneTurnAtATime
