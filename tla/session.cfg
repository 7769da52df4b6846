SPECIFICATION FairSpec
CONSTANTS
  Call = {1, 2}
  Shapes = {"flat", "nested"}
  MaxSecond = 2
  MaxRows = 2
  AccessTtl = 1
  RefreshTtl = 2
INVARIANTS
  SessionSurvives
PROPERTIES
  CallsEnd
