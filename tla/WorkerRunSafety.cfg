SPECIFICATION Spec
CONSTANTS
  Runs = {r1}
  MaxAttempts = 2
  Faults <- AllFaults
  DispatchWithinGrace = FALSE
CHECK_DEADLOCK FALSE
INVARIANTS
  TypeOK
  AtMostOneLanding
  PushingHasOwner
  CompletedHasBranch
  LiveRunCanReport
PROPERTY
  LifecycleSpec
VIEW
  SafetyView
