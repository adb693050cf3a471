SPECIFICATION Spec
CONSTANTS
  Files = {f1, f2}
  Modes <- TwoModes
  MaxVersion = 1
  BatchSize = 2
  Transcoded = {}
  HasStatusColumn = TRUE
  DbMayFail = TRUE
  Scanners = {s1}
  Requests = {}
  NoFile = NoFile
  InitialConfig <- SingleModeConfig
  Reconfigurable = TRUE
  StatMayFail = TRUE
  MaxCrashes = 1
SYMMETRY FileSymmetry
INVARIANTS TypeOK
PROPERTIES KeepsLedger
