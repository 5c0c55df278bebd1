CONSTANTS
  u1 = u1  u2 = u2  w1 = w1  w2 = w2  NoArg = NoArg  NotANumber = NotANumber
  Users = {u1, u2}
  Workers = {w1, w2}
  Deliveries <- ThreeDeliveries
  MaxStops = 2
SPECIFICATION FairSpec
INVARIANTS TypeOK NobodyWaitsInACircle ClientsOutliveRequests
PROPERTIES EventuallyServes StopEnds
