SPECIFICATION Spec
CONSTANTS
  MaxRecordings = 3
  MaxTime = 3
  MaxChunks = 2
  StoreFaults = TRUE
INVARIANTS
  LiveIsControlled
  CompletedIsStopped
  OffsetIsActiveTime
  ChunksTile
