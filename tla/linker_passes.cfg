SPECIFICATION FairSpec
CONSTANTS
  Files = {f1, f2}
  Modes = {fast, balanced}
  Hashes = {a}
  NoHash = NoHash
  Nothing = Nothing
  InitialMode = fast
  FullRescanInterval = 1
  MaxResults = 2
  MaxWrites = 1
  MaxFailures = 1
  MaxCrashes = 1
INVARIANTS TypeOK SkippedOnlyIfLinked
PROPERTIES ComesToRest
