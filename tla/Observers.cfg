SPECIFICATION Spec
CONSTANTS
  Streams = {s}
  Users = {u}
  Tracer = Tracer
  MaxRetries = 2
  MaxListeners = 2
CHECK_DEADLOCK FALSE
INVARIANTS
  TypeOK
  SettledOnce
  StreamsComplete
  TelemetryAgrees
PROPERTIES
  WaitEnds
