CONSTANTS
  w1 = w1  w2 = w2  l1 = l1  p1 = p1  p2 = p2
  Workers = {w1}
  Logins = {l1}
  Passwords = {p1, p2}
  Life = 1
  MaxTime = 2
  MaxUsers = 2
  MaxTokens = 1
  UniqueIndex = FALSE
  Faults = {}
SPECIFICATION Spec
PROPERTY ExistingUserIsRefused
