SPECIFICATION Spec
CONSTANTS
  c1 = c1
  c2 = c2
  w1 = w1
  w2 = w2
  k1 = k1
  k2 = k2
  Clients = {c1, c2}
  Workers = {w1, w2}
  Keys = {k1, k2}
  MaxState = 1
  Budget = 3
  Reserve = 2
  Used = 1
  MaxAttempts = 2
  Provider = TRUE
INVARIANTS RunsAgreeWithReport 
 
SYMMETRY Alike
CHECK_DEADLOCK FALSE
