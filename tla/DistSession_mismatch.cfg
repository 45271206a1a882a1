SPECIFICATION Spec
CONSTANTS
  NHops = 1
  Conns = 2
  Tokens = {"a", "b"}
  EvalTokens = {"a"}
  ChunkCap = 1
  Window = 2
  MaxLen = 4
  Settings <- LongPipe
INVARIANTS
  CalmCallSucceeds
