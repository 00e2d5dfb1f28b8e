-------------------------- MODULE MCTaskExecution --------------------------
(* TLC instances of TaskExecution. *)
EXTENDS TaskExecution, TLC

CONSTANTS t1, t2, k1, k2, k3, p1, p2, c1, c2

\* the second plan turns the dependencies round
TwoPlans == <<(t1 :> {}) @@ (t2 :> {t1}),
              (t1 :> {t2}) @@ (t2 :> {})>>

SomeReports == {<<1, 0>>, <<1, 1>>, <<2, 1>>}

RequestSymmetry ==
  Permutations(Keys) \cup Permutations(ReportKeys) \cup Permutations(Clients)
=============================================================================
