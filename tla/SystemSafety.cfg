CONSTANTS
  u1 = u1  u2 = u2  w1 = w1  w2 = w2
  Users = {u1}
  Workers = {w1, w2}
  MaxParcels = 2
  ParcelColumns <- WithFullName
  TickSeconds = 300
  Faults = {"redis", "postgres", "crash"}
  AfterDelete = "publish"
  BusFaults = {"consumer", "broker"}
  ExchangeExists = FALSE
SPECIFICATION SysSpec
SYMMETRY Symmetry
INVARIANTS AnnouncedIsListed PublisherMatchesRequest PublishedOnce
PROPERTY ImplementsLab5
