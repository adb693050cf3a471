SPECIFICATION FairSpec
CONSTANTS
  Procs = {p1, p2}
  NoProc = NoProc
  StopOrder <- TwoComponents
  MaxStarts = 2
  MaxIncidents = 1
INVARIANTS TypeOK OneServer UsersGone
PROPERTIES ShutdownCompletes
CHECK_DEADLOCK FALSE
