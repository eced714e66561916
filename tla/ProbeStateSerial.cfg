SPECIFICATION SerialSpec
CONSTANTS
  Workers = {w1, w2}
  Contents = {c1, c2}
  Absent = Absent
  MaxCalls = 4
  MaxErrors = 3
CHECK_DEADLOCK FALSE
SYMMETRY WorkersAndContents
INVARIANTS
  OneContentAcknowledged
  AcknowledgedStays
