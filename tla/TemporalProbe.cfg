\* Four runs, each at any time again or anew, and one error or death.
CONSTANTS
  i1 = i1
  i2 = i2
  None = None
  Plan <- MCPlan
  Items <- MCItems
  Responses <- MCResponses
  MinInterval = 1
  MaxInterval = 1
  ReviewHistory = 2
  MaxSpread = 20
  HotAge = 0
  AnchorAges <- MCAnchorAges
  MaxTime = 2
  MaxRuns = 4
  MaxFaults = 1

SPECIFICATION Spec
INVARIANTS
  ProbeInv
  PromotionEarned
  RotationInvisible
CHECK_DEADLOCK FALSE
