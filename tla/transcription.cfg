SPECIFICATION FairTranscription
CONSTANTS
  tab = tab
  Job <- TwoJobs
  Channel = {tab}
  MaxChunks = 1
  Attempts = 3
  DbFaults = TRUE
  QueueFaults = TRUE
  ServerDies = TRUE
INVARIANTS
  QuietIsSettled
  CompletedHasText
PROPERTIES
  ImplementsLifecycle
  JobsEnd
CHECK_DEADLOCK FALSE
