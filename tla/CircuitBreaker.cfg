CONSTANTS
  Callers = {c1, c2, c3}
  Generations <- MCGenerations
  FailureThreshold = 2
  MinimumRequests = 3
  FailureRatePercent = 50
  WindowCapacity = 4
  ResetTimeout = 2
  HalfOpenMaxAttempts = 2
SPECIFICATION FairSpec
INVARIANT TypeOK
INVARIANT SlotAccounting
PROPERTY TripsOnFreshEvidence
PROPERTY ImplementsEpisodes
PROPERTY Recovers
