SPECIFICATION PersistSpec
CONSTANTS
  MaxUploads = 2
  MaxCallbacks = 1
  PersistFaults = {"lost answer"}
CHECK_DEADLOCK FALSE
INVARIANT
  OneSessionPerRun
