------------------------------ MODULE TaskRules -----------------------------
(* The statuses of a task, the legal steps between them and the readiness   *)
(* rule: services/execution.py and project_readiness of domain/graph.py.    *)

Statuses == {"pending", "ready", "in_progress", "blocked", "completed", "cancelled"}

\* LEGAL_TRANSITIONS
Legal ==
  [pending |-> {"ready", "cancelled"},
   ready |-> {"in_progress", "blocked", "cancelled"},
   in_progress |-> {"blocked", "completed", "cancelled"},
   blocked |-> {"ready", "in_progress", "cancelled"},
   completed |-> {},
   cancelled |-> {}]

\* projected_status of a task, given whether its prerequisites are satisfied
Readiness(status, satisfied) ==
  CASE status = "pending" /\ satisfied -> "ready"
    [] status = "ready" /\ ~satisfied -> "pending"
    [] OTHER -> status
=============================================================================
