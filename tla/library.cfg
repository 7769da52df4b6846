SPECIFICATION FairSpec
CONSTANTS
  Call = {1, 2}
  MaxRuns = 2
  Retries = 1
  NetFaults = TRUE
  ServerFaults = TRUE
  MayDelete = TRUE
PROPERTIES
  SpinnerEnds
