SPECIFICATION FairSpec
CONSTANTS
  Files = {f1, f2}
  Modes = {1, 2}
  BatchSize = 2
  Raw = {f1}
  Stacks = {TRUE, FALSE}
  Passes = {p1, p2}
  Claimers = {c1}
  NoFile = NoFile
  MaxClaims = 2
  MaxTroubles = 1
INVARIANTS TypeOK Exclusive NothingStranded EveryFileReported
PROPERTIES StopReturns
CHECK_DEADLOCK FALSE
