SPECIFICATION Spec
CONSTANTS
  Files = {f1, f2}
  Modes = {fast}
  Hashes = {a, b}
  NoHash = NoHash
  Nothing = Nothing
  InitialMode = fast
  FullRescanInterval = 1
  MaxResults = 3
  MaxWrites = 1
  MaxFailures = 0
  MaxCrashes = 0
INVARIANTS LinksRight
