CONSTANTS
  w1 = w1  w2 = w2  NoEvent = NoEvent  e1 = e1  e2 = e2  e3 = e3
  Workers = {w1, w2}
  Events = {e1, e2, e3}
  Faults = {"producer", "consumer", "broker"}
  ExchangeExists = FALSE
SPECIFICATION FairSpec
CHECK_DEADLOCK FALSE
INVARIANTS TypeOK SubscribedIsBound TwiceOnlyIfOverlapped
PROPERTIES ImplementsLossyFifo KeptWhileCalm QueuedIsLogged
