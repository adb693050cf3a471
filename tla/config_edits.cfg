SPECIFICATION FairSpec
CONSTANTS
  Keys = {k1}
  Values = {v1, v2}
  Callers = {c1, c2}
  OwnFile = "local"
  Broken = Broken
  Bulk = TRUE
  Edits = TRUE
  BootEdits = FALSE
  SaveMayFail = FALSE
INVARIANTS TypeOK Reconciling
PROPERTIES EditsLoaded
