SPECIFICATION Spec
CONSTANTS
  c1 = c1
  c2 = c2
  w = w
  k1 = k1
  k2 = k2
  Clients = {c1, c2}
  Worker = w
  MaxState = 2
  Detecting = {1}
  Provider = TRUE
  MaxAttempts = 2
  Keys = {k1, k2}
  MaxVersion = 4
INVARIANTS SnapshotIsOfItsState QueuedRunHasJob
PROPERTIES DecisionIsFinal
SYMMETRY Alike
