\* Two operators who may overlap; five runs, of whose backups two are kept.
CONSTANTS
  x = x
  y = y
  None = None
  Operators <- MCOperators
  RETENTION_COUNT = 2
  MaxVersions = 1
  MaxRuns = 5
  MaxFaults = 1

SPECIFICATION Spec
SYMMETRY MCSymmetry
INVARIANT CommitInv
INVARIANT NothingLost
CHECK_DEADLOCK FALSE
