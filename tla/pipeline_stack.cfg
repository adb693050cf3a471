SPECIFICATION Spec
CONSTANTS
  Files = {f1, f2}
  Modes <- TwoModes
  MaxVersion = 1
  BatchSize = 2
  Transcoded = {f1, f2}
  HasStatusColumn = TRUE
  DbMayFail = FALSE
  Scanners = {s1}
  Requests = {r1}
  NoFile = NoFile
  InitialConfig <- StackConfig
  Reconfigurable = FALSE
  StatMayFail = TRUE
  MaxCrashes = 1
INVARIANTS InProgressHeld ListedOnce
PROPERTIES SettledReopens
