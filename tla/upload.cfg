SPECIFICATION FairSpec
CONSTANTS
  h1 = h1
  h2 = h2
  h3 = h3
  Key <- TwoChunks
  Handler <- TwoHandlers
  AtomicPut = TRUE
  Verify = FALSE
  ServerFaults = TRUE
  Chunks = 2
  MaxAttempts = 2
  CommitField = "recordingId"
  NetFaults = TRUE
  PageMayDie = TRUE
  MayRemove = TRUE
INVARIANTS
  LocalOrCloud
  UploadedInOrder
  GivenUpIsKept
  UploadInv
  UploadedIsSafe
PROPERTIES
  ImplementsCustody
  EnqueuedSettles
CHECK_DEADLOCK FALSE
