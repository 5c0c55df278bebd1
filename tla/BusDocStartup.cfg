CONSTANTS
  w1 = w1  w2 = w2  NoEvent = NoEvent  e1 = e1  e2 = e2  e3 = e3
  Workers = {w1}
  Events = {e1}
  Faults = {}
  ExchangeExists = FALSE
SPECIFICATION FairSpec
CHECK_DEADLOCK FALSE
PROPERTY ProcessingResumes
