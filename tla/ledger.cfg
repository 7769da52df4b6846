SPECIFICATION LedgerSpec
CONSTANTS
  c1 = c1
  c2 = c2
  h1 = h1
  h2 = h2
  h3 = h3
  Key <- TwoChunks
  Handler <- TwoHandlers
  AtomicPut = FALSE
  Verify = TRUE
  ServerFaults = TRUE
SYMMETRY Symmetry
INVARIANTS
  CountedArrived
  AckedIsCommitted
  RemovedLeavesNoRows
CHECK_DEADLOCK FALSE
