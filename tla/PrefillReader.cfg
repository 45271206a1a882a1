SPECIFICATION LiveSpec
CONSTANTS
  Lanes = {"a", "b"}
  Experts = {1, 2}
  Ranked <- MCRankedOne
  Chosen <- MCChosen
  Waves = 1
  MaxJobs = 3
  ReadsFail = {1}
  GpuFails = {2}
INVARIANTS
  KernelsReadTheirLayer
PROPERTIES
  ReadOnce
  StageEnds
CHECK_DEADLOCK FALSE
