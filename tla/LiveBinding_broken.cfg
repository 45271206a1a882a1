SPECIFICATION BindingSpec
CONSTANTS
  a = a
  b = b
  Letter = {a, b}
  Thought = Thought
  Noise = Noise
  None = None
  Settings <- CrossingOnly
INVARIANTS
  LiveFrontierIsExact
CHECK_DEADLOCK FALSE
