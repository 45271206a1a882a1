SPECIFICATION LiveSpec
CONSTANTS
  NLayers = 2
  NIds = 3
  Used = 2
  Extras = 2
  MaxTokens = 2
  Settings <- BelowOneToken
PROPERTIES
  EveryTokenEnds
