SPECIFICATION FairSpec
CONSTANTS
  Sources = {f1, f2}
  Requests = {r1}
  NoFile = NoFile
  Limits = {0, 2}
  Cleanups = TRUE
  MaxVersion = 2
  MaxFailures = 1
  MaxEnds = 1
INVARIANTS TypeOK OrphansExplained DoneIsWhole
PROPERTIES SettledKept Served StopReturns KeepsJobQueue
CHECK_DEADLOCK FALSE
