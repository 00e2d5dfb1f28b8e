-------------------------- MODULE MCSemanticNodes --------------------------
(* TLC instances of SemanticNodes: two requirements (2, 3), a constraint (1)  *)
(* and an excluded requirement (4); 0 names nothing.                          *)
EXTENDS SemanticNodes

SomeCites ==
  [gaps |-> {{2}, {4}}, analysis |-> {{4}},
   modules |-> {{2}, {1, 3}, {0, 2}}, milestones |-> {{}, {0}},
   tasks |-> {{1}, {2, 4}}, acceptance |-> {{}, {0}},
   dependencies |-> {{1, 2}, {0}}, risks |-> {{2}, {0}}, gate |-> {}]

FewItems ==
  [gaps |-> 1, analysis |-> 1, modules |-> 2, milestones |-> 2, tasks |-> 1,
   acceptance |-> 1, dependencies |-> 1, risks |-> 1, gate |-> 0]
=============================================================================
