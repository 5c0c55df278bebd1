CONSTANTS
  w1 = w1  w2 = w2  l1 = l1  p1 = p1
  Workers = {w1, w2}
  Limit = 1
  Window = 2
  MaxTime = 3
  MaxRequests = 2
  Faults = {"redis", "crash", "redis_data"}
  Logins = {l1}
  Passwords = {p1}
  Life = 4
  MaxUsers = 1
  MaxTokens = 2
  MongoFails = TRUE
SPECIFICATION ServiceSpec
SYMMETRY Symmetry
CHECK_DEADLOCK FALSE
INVARIANTS TypeOK AdmittedAtMostLimit AdmittedPerCounter RejectedOnlyAtLimit TokensAreAdmitted
