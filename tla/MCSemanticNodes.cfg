SPECIFICATION Spec
CONSTANTS
  Requirements = {2, 3}
  Excluded = {4}
  Others = {1}
  Unknown = 0
  FastTarget = 2
  RefLimit = 2
  ModuleLimit = 3
  TaskLimit = 8
  BatchSize = 1
  GroupSize = 2
  Attempts = 2
  Budget = 2
  Costs = {0, 2, 3}
  MaxCrashes = 1
  Cites <- SomeCites
  MaxItems <- FewItems
INVARIANTS PlanIsLinked NothingLost GateAgrees SpendBounded
