SPECIFICATION Spec
CONSTANTS
  Files = {f1}
  Modes <- OneMode
  MaxVersion = 1
  BatchSize = 1
  Transcoded = {}
  HasStatusColumn = TRUE
  DbMayFail = FALSE
  Scanners = {s1}
  Requests = {}
  NoFile = NoFile
  InitialConfig <- SingleModeConfig
  Reconfigurable = FALSE
  StatMayFail = FALSE
  MaxCrashes = 0
INVARIANTS DoneHasResult
