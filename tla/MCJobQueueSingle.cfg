\* one worker process, as with SQLite
SPECIFICATION FairSpec
CONSTANTS
  j1 = j1
  j2 = j2
  r1 = r1
  w1 = w1
  w2 = w2
  None = None
  Runs = {r1}
  Jobs = {j1, j2}
  Workers = {w1}
  RunOf <- SharedRun
  LeaseSeconds = 2
  MaxAttempts = 2
  MaxCrashes = 2
PROPERTY JobSettles
