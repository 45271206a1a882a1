\* Three requests, two slots, batched: safety of the scheduler.
SPECIFICATION Spec
CONSTANTS
  j1 = j1
  j2 = j2
  j3 = j3
  Job = {j1, j2, j3}
  Slot = {s1, s2}
  NoJob = NoJob
  Main = Main
  Nobody = Nobody
  Continues <- MCContinues
  BatchedMode = TRUE
SYMMETRY SlotSymmetry
INVARIANTS
  OneOwner
  NoDanglingJob
  CompletedOnce
  IdleSlotIsQuiet
  NoStrandedWork
  ContinuationOnItsSlot
PROPERTIES
  FifoAmongRunnable
