SPECIFICATION Spec
CONSTANTS
  Tickets = {t1, t2, t3}
  Partitions = {p1, p2}
  MaxRetries = 1
  MaxNow = 3
  Ttl = 0
  SweepInterval = 2
  SizeThreshold = 1
  Window = 2
  BucketCount = 1
  Scale = 2
  Ratio = 1
  Floor = 1
  Reset = 2
  PauseFor = 2
  Refill = 1
SYMMETRY Symmetry
CHECK_DEADLOCK FALSE
INVARIANTS
  TypeOK
  HeldIsLive
  EvictionForgetsNothing
PROPERTIES
  RetriesFollowBudget
