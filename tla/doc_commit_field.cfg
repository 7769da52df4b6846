SPECIFICATION Spec
CONSTANTS
  h1 = h1
  h2 = h2
  h3 = h3
  Key <- TwoChunks
  Handler <- TwoHandlers
  AtomicPut = TRUE
  Verify = TRUE
  ServerFaults = FALSE
  Chunks = 2
  MaxAttempts = 8
  CommitField = "sessionId"
  NetFaults = FALSE
  PageMayDie = FALSE
  MayRemove = FALSE
SYMMETRY Symmetry
INVARIANTS
  NothingGivenUp
CHECK_DEADLOCK FALSE
