SPECIFICATION Spec
CONSTANTS
  tab = tab
  mic = mic
  Channel = {tab, mic}
  Preferred <- PreferTab
  MaxChunks = 2
  Title <- OddTitle
  Written <- OddNotes
  Raw <- Texts
  MaxRuns = 2
  Ffmpeg = TRUE
  Faults = TRUE
  GapMs = 1500
  MaxSpeakers = 2
  MaxChars = 8
  MaxLines = 4
INVARIANTS
  ExportsAreWhole
  CaptionsReadBack
  PdfReadsBack
  BlocksAreTurns
