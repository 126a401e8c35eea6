CONSTANTS
  p = p
  q = q
  a1 = a1
  a2 = a2
  a3 = a3
  b1 = b1
  b2 = b2
  f = f
  Attempts <- MCAttempts
  Partitions = {p, q}
  PartitionOf <- MCPartitionOf
  Limited <- MCLimited
  Concurrency = 1
  MaxQueueSize = 2
  Permits = 2
  GlobalQueueSize = 1
SPECIFICATION FairSpec
INVARIANT TypeOK
INVARIANT CapacityConserved
PROPERTY RefusedOnlyWhenSaturated
PROPERTY EveryQueuedAttemptLeaves
