SPECIFICATION LivePairSpec
CONSTANTS
  s1 = s1
  s2 = s2
  Sessions = {s1, s2}
  Token = {"a", "b", "c"}
  Settings <- Pairs
INVARIANTS
  LogitsAgree
  PairInStep
PROPERTIES
  LeaderReturns
CHECK_DEADLOCK FALSE
