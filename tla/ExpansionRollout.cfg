\* Two runs over two new rows, beside rechecks and another import.
CONSTANTS
  x = x
  y = y
  None = None
  Rows <- MCRows
  Candidate <- MCCandidate
  SameContent = {}
  Openings <- MCOpenings
  Expected <- MCExpected
  Executors <- MCExecutors
  BatchSize = 2
  MaxRechecks = 1
  MaxFaults = 1

SPECIFICATION Spec
SYMMETRY MCSymmetry
INVARIANT RolloutInv
PROPERTY RecheckPrevails
CHECK_DEADLOCK FALSE
