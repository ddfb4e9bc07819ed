SPECIFICATION SyncSpec
CONSTANTS
  f1 = f1
  Transcripts = {f1}
  Parts <- TwoParts
  Syncs = {y1}
  MaxTime = 2
  SyncFaults = {"refused"}
CHECK_DEADLOCK FALSE
INVARIANT
  PartialIsResent
