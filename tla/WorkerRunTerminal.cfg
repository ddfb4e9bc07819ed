SPECIFICATION Spec
CONSTANTS
  Runs = {r1}
  MaxAttempts = 2
  Faults <- NoFaults
  DispatchWithinGrace = TRUE
CHECK_DEADLOCK FALSE
PROPERTY
  TerminalIsFinal
