CONSTANTS
  c1 = c1
  c2 = c2
  CPUs <- MC_CPUs
  Body <- MC_BodyHistGuarded
  RecursionCheck = TRUE
  MaxFires = 2
  MaxDepth = 2
  RingCap = 1
SPECIFICATION Spec
INVARIANTS
  GuardExclusive
CHECK_DEADLOCK FALSE
