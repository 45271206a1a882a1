\* Liveness and refinement, a request and its continuation on two slots.
SPECIFICATION FairSpec
CONSTANTS
  j1 = j1
  j2 = j2
  j3 = j3
  Job = {j1, j3}
  Slot = {s1, s2}
  NoJob = NoJob
  Main = Main
  Nobody = Nobody
  Continues <- MCContinues
  BatchedMode = TRUE
PROPERTIES
  ShutdownCompletes
  ImplementsJobService
