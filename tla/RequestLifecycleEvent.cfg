CONSTANTS
  bounded = bounded
  unbounded = unbounded
  Tickets = {bounded, unbounded}
  Bounded = {bounded}
  MaxRetries = 1
  ListenersCallBack = FALSE
SPECIFICATION Spec
CHECK_DEADLOCK FALSE
INVARIANT EndsWithItsEvent
