SPECIFICATION Spec
CONSTANTS
  Streams = {s}
  Users = {u}
  Tracer = Tracer
  MaxRetries = 1
  MaxListeners = 1
CHECK_DEADLOCK FALSE
INVARIANTS
  StopEndsSpans
