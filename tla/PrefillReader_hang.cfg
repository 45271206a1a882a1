SPECIFICATION LiveSpec
CONSTANTS
  Lanes = {"a", "b"}
  Experts = {1, 2}
  Ranked <- MCRanked
  Chosen <- MCAnything
  Waves = 0
  MaxJobs = 2
  ReadsFail = {}
  GpuFails = {}
PROPERTIES
  EveryStageEnds
CHECK_DEADLOCK FALSE
