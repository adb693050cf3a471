SPECIFICATION Spec
CONSTANTS
  Keys = {k1, k2}
  Values = {v1, v2}
  Callers = {c1, c2}
  OwnFile = "local"
  Broken = Broken
  Bulk = FALSE
  Edits = FALSE
  BootEdits = FALSE
  SaveMayFail = FALSE
INVARIANTS ObserversFollow SavedOnceReturned
CHECK_DEADLOCK FALSE
