SPECIFICATION PairSpec
CONSTANTS
  s1 = s1
  s2 = s2
  Sessions = {s1, s2}
  Token = {"a", "b", "c"}
  Settings <- EvalPairs
INVARIANTS
  LogitsAgree
CHECK_DEADLOCK FALSE
