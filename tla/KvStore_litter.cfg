SPECIFICATION Spec
CONSTANTS
  a = a
  b = b
  Letter = {a, b}
  Thought = Thought
  None = None
  History <- Histories
  Prompt <- Prompts
  Engine <- OneEngine
  Budget = 12
  MaxTrailer = 0
  MaxCrashes = 2
INVARIANTS
  DiskWithinBudget
