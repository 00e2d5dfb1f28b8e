SPECIFICATION Spec
CONSTANTS
  j1 = j1
  j2 = j2
  r1 = r1
  w1 = w1
  w2 = w2
  None = None
  Runs = {r1}
  Jobs = {j1}
  Workers = {w1, w2}
  RunOf <- SingleJob
  LeaseSeconds = 2
  MaxAttempts = 2
  MaxCrashes = 0
PROPERTY NoStaleCommit
