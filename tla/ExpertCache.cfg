SPECIFICATION LiveSpec
CONSTANTS
  NLayers = 2
  NIds = 3
  Used = 2
  Extras = 1
  MaxTokens = 2
  Settings <- Schedules
INVARIANTS
  BuffersHold
  TokenIsExact
PROPERTIES
  TokensEnd
