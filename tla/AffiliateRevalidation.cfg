SPECIFICATION FairSpec
CONSTANTS
  Rows = {1, 2, 3}
  Cycles = {"first", "second"}
  Installations <- BothInstallations
  MaxFaults = 1
CHECK_DEADLOCK FALSE
INVARIANTS
  RouteReady
  EnabledAsAudited
PROPERTIES
  StaysWhileListed
  DailyRotation
