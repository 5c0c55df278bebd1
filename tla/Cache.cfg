CONSTANTS
  u1 = u1  u2 = u2  w1 = w1  w2 = w2  w3 = w3
  Users = {u1, u2}
  Workers = {w1, w2}
  MaxParcels = 2
  ParcelColumns <- WithFullName
  TickSeconds = 150
  Faults = {"redis", "postgres", "crash"}
  AfterDelete = "respond"
SPECIFICATION FairSpec
INVARIANTS TypeOK ListsArePast StaleExplained
PROPERTIES EventuallyListed ListedForGood
