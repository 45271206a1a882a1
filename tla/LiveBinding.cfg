SPECIFICATION BindingSpec
CONSTANTS
  a = a
  b = b
  Letter = {a, b}
  Thought = Thought
  Noise = Noise
  None = None
  Settings <- Both
INVARIANTS
  AnswersItsRequest
  BindingFollowsSession
PROPERTIES
  AnswerIsContinuable
CHECK_DEADLOCK FALSE
