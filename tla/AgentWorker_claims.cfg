\* Each of these is violated (README, section 3): keep the one to look at.
SPECIFICATION Spec
CONSTANTS
  Settings <- FrontEnds
INVARIANTS
  SessionIsTheWorkers
  NoStaleInterrupt
  BusyHasWork
  FailureIsReported
CHECK_DEADLOCK FALSE
