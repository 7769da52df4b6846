SPECIFICATION FairSpec
CONSTANTS
  Call = {1}
  Shapes = {"flat"}
  MaxSecond = 2
  MaxRows = 2
  AccessTtl = 1
  RefreshTtl = 2
INVARIANTS
  RefreshIsTransparent
