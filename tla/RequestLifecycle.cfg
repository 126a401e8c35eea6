CONSTANTS
  bounded = bounded
  unbounded = unbounded
  Tickets = {bounded, unbounded}
  Bounded = {bounded}
  MaxRetries = 2
  ListenersCallBack = TRUE
SPECIFICATION FairSpec
CHECK_DEADLOCK FALSE
INVARIANT TypeOK
INVARIANT EndingAgrees
INVARIANT NothingLeftBehind
INVARIANT AttemptsReported
PROPERTY EveryTicketLetsGo
