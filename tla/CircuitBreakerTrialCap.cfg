CONSTANTS
  Callers = {c1, c2, c3}
  Generations <- MCGenerations
  FailureThreshold = 1
  MinimumRequests = 1
  FailureRatePercent = 50
  WindowCapacity = 1
  ResetTimeout = 1
  HalfOpenMaxAttempts = 2
SPECIFICATION Spec
INVARIANT TrialsInFlightCapped
