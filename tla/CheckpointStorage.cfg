SPECIFICATION Spec
CONSTANTS
  Workers = {w1, w2, w3}
  Ids = {i1, i2}
  MaxFaults = 2
CHECK_DEADLOCK FALSE
SYMMETRY WorkersAndIds
INVARIANTS
  StorageInv
PROPERTIES
  ResidueBlocks
  ImplementsObjects
