SPECIFICATION RetrySpec
CONSTANTS
  NHops = 2
  Conns = 2
  Tokens = {"a", "b"}
  EvalTokens = {"a"}
  ChunkCap = 1
  Window = 2
  MaxLen = 4
  Settings <- Both
INVARIANTS
  CallsExact
PROPERTIES
  CallsReturn
  RetrySucceeds
