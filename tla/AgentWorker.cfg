SPECIFICATION LiveSpec
CONSTANTS
  Settings <- FrontEnds
INVARIANTS
  OneUserOfTheSession
  PromptsKept
PROPERTIES
  InterruptEndsTurn
  ShutsDown
CHECK_DEADLOCK FALSE
