SPECIFICATION Spec
CONSTANTS
  Paths = {p1, p2}
  Contents = {v1}
  Large = {}
  Absent = Absent
  MaxCommits = 3
  Handlers = {h1, h2}
  Happens <- AllKinds
CHECK_DEADLOCK FALSE
SYMMETRY HandlerSymmetry
VIEW Unstamped
INVARIANTS
  TypeOK
  HeadShowsItsCommit
  RecordShowsItsCommit
  ContentMirrored
  CaughtUp
PROPERTY
  MirrorSpec
