SPECIFICATION Spec
CONSTANTS
  good = good
  fine = fine
  bad = bad
  now = now
  late = late
  v1 = v1
  v2 = v2
  p1 = p1
  s1 = s1
  s2 = s2
  None = None
  Versions = {v1}
  Proposals = {p1}
  Sessions = {s1, s2}
  Bodies = {good, fine}
  Facts = {now}
  Sound <- GoodSound
  MaxRowVersion = 3
SYMMETRY SessionSymmetry
PROPERTIES RegeneratedOnBaseline BaselineHolds
CHECK_DEADLOCK FALSE
