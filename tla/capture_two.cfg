SPECIFICATION Spec
CONSTANTS
  tab = tab
  mic = mic
  mixed = mixed
  Channel <- TwoChannels
  Device <- OneChannel
  MaxSamples = 2
  StoreFaults = TRUE
  OtherTab = FALSE
INVARIANTS
  CrashedSessionIsOffered
  InductiveInv
CHECK_DEADLOCK FALSE
