SPECIFICATION Spec
CONSTANTS
  t1 = t1
  t2 = t2
  k1 = k1
  k2 = k2
  k3 = k3
  p1 = p1
  p2 = p2
  c1 = c1
  c2 = c2
  None = None
  NumPlans = 2
  Tasks = {t1, t2}
  Preds <- TwoPlans
  Keys = {k1, k2, k3}
  Clients = {c1, c2}
  Full = 2
  MaxEffort = 1
  Reports <- SomeReports
  ReportKeys = {p1, p2}
SYMMETRY RequestSymmetry
INVARIANTS HistoryExplainsStatus KeyAppliedOnce RowsAgree
PROPERTIES RecordsKept FollowsWorkOrder
CHECK_DEADLOCK FALSE
