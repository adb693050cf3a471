SPECIFICATION FairSpec
CONSTANTS
  Files = {f1, f2}
  Modes <- OneMode
  MaxVersion = 2
  BatchSize = 1
  Transcoded = {f1}
  HasStatusColumn = TRUE
  DbMayFail = FALSE
  Scanners = {s1, s2}
  Requests = {}
  NoFile = NoFile
  InitialConfig <- SingleModeConfig
  Reconfigurable = FALSE
  StatMayFail = FALSE
  MaxCrashes = 1
INVARIANTS BatchBounded
PROPERTIES Converges
