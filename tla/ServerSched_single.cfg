\* Two requests, the single worker of unbatched mode.
SPECIFICATION FairSpec
CONSTANTS
  j1 = j1
  j2 = j2
  j3 = j3
  Job = {j1, j2}
  Slot = {s1}
  NoJob = NoJob
  Main = Main
  Nobody = Nobody
  Continues <- MCContinues
  BatchedMode = FALSE
PROPERTIES
  EveryClientLeaves
