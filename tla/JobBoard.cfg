SPECIFICATION MCSpec
CONSTANTS
  gate = gate
  fetch = fetch
  merge = merge
  Jobs <- MCJobs
  Contract <- MCContract
CHECK_DEADLOCK FALSE
INVARIANTS
  BoardInv
  BlockedProofSound
PROPERTIES
  BlockedUntilLifted
