SPECIFICATION Spec
CONSTANTS
  NaN = NaN
  Infinity = Infinity
  Half = Half
  Undefined = Undefined
  Off = Off
  MaxTimer = 2
  Layers <- AllLayers
  MaxRetries = 1
  MaxNow = 8
  Faults <- AllFaults
  RetryAfters <- Headers
  DefaultBase = 1
  DefaultCap = 3
CHECK_DEADLOCK FALSE
INVARIANTS
  TypeOK
  AcceptedIsUsable
  BodiesBounded
  SafeToRepeat
  SleepKept
PROPERTIES
  OutcomeFollowsAbort
  EveryBoundedRequestEnds
