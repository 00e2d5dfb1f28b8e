SPECIFICATION Spec
CONSTANTS
  good = good
  fine = fine
  bad = bad
  now = now
  late = late
  v1 = v1
  v2 = v2
  p1 = p1
  s1 = s1
  s2 = s2
  None = None
  Versions = {v1}
  Proposals = {}
  Sessions = {s1, s2}
  Bodies = {good, fine}
  Facts = {now, late}
  Sound <- SomeSound
  MaxRowVersion = 4
SYMMETRY SessionSymmetry
INVARIANTS ActiveWasShown ReviewCanEnd
PROPERTIES ActivatedPlanPasses NoLostUpdate
CHECK_DEADLOCK FALSE
