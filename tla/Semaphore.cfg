CONSTANTS
  Callers = {c1, c2, c3, c4, c5, c6}
  Permits = 2
  MaxQueueSize = 3
SPECIFICATION FairSpec
INVARIANT TypeOK
INVARIANT PermitsConserved
INVARIANT NoIdlePermit
PROPERTY ImplementsPool
PROPERTY EveryWaiterServed
