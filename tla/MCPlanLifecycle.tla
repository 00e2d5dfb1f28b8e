-------------------------- MODULE MCPlanLifecycle --------------------------
(* TLC instances of PlanLifecycle. *)
EXTENDS PlanLifecycle, TLC

CONSTANTS good, fine, bad, now, late, v1, v2, p1, s1, s2

\* good always passes, fine only before the deadline moves, bad never
SomeSound == {<<good, now>>, <<good, late>>, <<fine, now>>}
GoodSound == {<<good, now>>, <<fine, now>>}

SessionSymmetry == Permutations(Sessions)
VersionSymmetry == Permutations(Versions)
BothSymmetry == SessionSymmetry \cup VersionSymmetry
=============================================================================
