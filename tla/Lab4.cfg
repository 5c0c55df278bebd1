CONSTANTS
  w1 = w1  w2 = w2  l1 = l1  p1 = p1  p2 = p2  c1 = c1
  Workers = {w1, w2}
  Logins = {l1}
  Passwords = {p1, p2}
  Life = 1
  MaxTime = 2
  MaxUsers = 2
  MaxTokens = 2
  UniqueIndex = FALSE
  Faults = {"mongo", "crash"}
  Clients = {c1}
  MaxParcels = 1
  ParcelColumns <- WithFullName
SPECIFICATION SystemSpec
SYMMETRY Symmetry
INVARIANTS TypeOK SystemTypeOK CreatedIsOwn AcceptedIsBacked SendersAreUsers
PROPERTY RefusedOnlyIfDoubled
