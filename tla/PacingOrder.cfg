CONSTANTS
  a1 = a1
  a2 = a2
  a3 = a3
  Attempts = {a1, a2, a3}
  TokenTime = 2
  Burst = 1
  MaxWait = 7
  MaxPause = 3
  RetryAfters = {1, 2, 4}
SPECIFICATION Spec
INVARIANT ArrivalOrder
