SPECIFICATION ProfiledSpec
CONSTANTS
  r1 = r1
  r2 = r2
  Runs = {r1, r2}
  None = None
  MaxAttempts = 2
  Happens = {"fly", "reaper fly", "idle"}
SYMMETRY RunSymmetry
CHECK_DEADLOCK FALSE
INVARIANTS
  TypeOK
  ParkedIsFree
  NoWedge
