SPECIFICATION FairSpec
CONSTANTS
  tab = tab
  mic = mic
  mixed = mixed
  Channel <- OneChannel
  Device <- OneChannel
  MaxSamples = 3
  StoreFaults = TRUE
  OtherTab = TRUE
INVARIANTS
  GapsAreExplained
  AudioAccounted
  ReassemblyInOrder
  CrashTakesTheTail
  HandedOverIsDurable
PROPERTIES
  DurableIsKept
  ImplementsDurableAudio
  StopFlushes
  StopReturns
  RotationCompletes
  StoredIsHandedOver
CHECK_DEADLOCK FALSE
