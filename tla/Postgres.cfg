CONSTANTS
  w1 = w1  w2 = w2  l1 = l1  l2 = l2  e1 = e1  e2 = e2  p1 = p1  p2 = p2
  Workers = {w1, w2}
  Logins = {l1, l2}
  Emails = {e1, e2}
  Passwords = {p1, p2}
  MaxUsers = 2
  MaxParcels = 1
  Faults = {"timeout", "crash"}
SPECIFICATION Spec
INVARIANTS TypeOK ParcelsAreBacked
PROPERTY ImplementsDirectory
SYMMETRY Symmetric
