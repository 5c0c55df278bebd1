CONSTANTS
  w1 = w1  w2 = w2  w3 = w3  v1 = v1  v2 = v2
  Workers = {w1, w2}
  Values = {v1, v2}
  Serves <- ServesAll
  MaxRows = 2
  Faults = {}
SPECIFICATION Spec
PROPERTY CreatedIsReturned
