SPECIFICATION Spec
CONSTANTS
  Lanes = {"a", "b"}
  Experts = {1, 2}
  Ranked <- MCRanked
  Chosen <- MCAnything
  Waves = 1
  MaxJobs = 2
  ReadsFail = {}
  GpuFails = {1, 2, 3}
INVARIANTS
  SweepClosesItsStage
CHECK_DEADLOCK FALSE
