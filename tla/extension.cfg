SPECIFICATION Spec
CONSTANTS
  Toggle = {click, poll}
  MaxRecordings = 2
  MaxWrites = 1
SYMMETRY Exchanges
INVARIANTS
  RecordingCanBeStopped
  NothingIsCut
