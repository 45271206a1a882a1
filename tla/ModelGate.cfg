\* Two slots, an image encoder, two units of work per job.
SPECIFICATION FairSpec
CONSTANTS
  SlotCount = 2
  MaxWork = 2
  Decoder = Decoder
  Encoders = {e1}
  Free = Free
INVARIANTS
  OneExecutor
  TokenInOnePlace
  BatchOwnsItsSessions
PROPERTIES
  CancelledJobRunsNothingNew
  NoSlotPassedTwice
  EveryJobEnds
