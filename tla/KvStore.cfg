SPECIFICATION Spec
CONSTANTS
  a = a
  b = b
  Letter = {a, b}
  Thought = Thought
  None = None
  History <- TwoHistories
  Prompt <- OnePrompt
  Engine <- Engines
  Budget = 12
  MaxTrailer = 1
  MaxCrashes = 1
INVARIANTS
  HitAnswersPrompt
PROPERTIES
  RewriteKeepsPayload
  ImplementsPrefixCache
