SPECIFICATION Spec
CONSTANTS
  g1 = g1
  g2 = g2
  c1 = c1
  c2 = c2
  m1 = m1
  m2 = m2
  r1 = r1
  r2 = r2
  r3 = r3
  None = None
  Agents = {a1, a2}
  Gates = {g1, g2}
  Approving <- ApprovingGates
  Checkpoints = {c1, c2}
  Tiers = {"FAST", "FULL"}
  Commits = {m1, m2}
  Runs = {r1, r2, r3}
  Requests = {q1, q2}
  MadeFrom <- MadeFromWorld
  HeadOf <- HeadOfWorld
  Passes <- PassesWorld
  Green <- GreenWorld
  Snapshots <- SnapshotsWorld
  Capacity = 2
  MaxFaults = 2
CHECK_DEADLOCK FALSE
INVARIANTS
  GatesInv
PROPERTIES
  LostForGood
  ImplementsLedger
