SPECIFICATION StoreSpec
CONSTANTS
  Workers = {w1, w2}
  Contents = {c1, c2}
  Absent = Absent
  MaxCalls = 3
  MaxErrors = 0
CHECK_DEADLOCK FALSE
SYMMETRY WorkersAndContents
INVARIANT
  OneContentAcknowledged
