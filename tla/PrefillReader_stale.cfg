SPECIFICATION Spec
CONSTANTS
  Lanes = {"a", "b"}
  Experts = {1, 2}
  Ranked <- MCRanked
  Chosen <- MCAnything
  Waves = 0
  MaxJobs = 3
  ReadsFail = {}
  GpuFails = {}
INVARIANTS
  StaleStaysOld
CHECK_DEADLOCK FALSE
