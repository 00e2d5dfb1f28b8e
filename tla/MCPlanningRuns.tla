--------------------------- MODULE MCPlanningRuns ---------------------------
(* TLC instances of PlanningRuns: subsequences of PLANNING_SEQUENCE. *)
EXTENDS PlanningRuns, TLC

CONSTANTS good, fine, bad, q1, q2, yes, no, w1, w2

\* a node that rewrites its own input
TaskSequence ==
  <<"draft_tasks", "strengthen_acceptance", "quality_gate", "persist_draft", "await_approval">>

\* both nodes that may ask
QuestionSequence ==
  <<"detect_gaps", "wait_or_assume", "analyze_project", "quality_gate", "persist_draft",
    "await_approval">>

TwoQuestions == (q1 :> "analyze_project") @@ (q2 :> "detect_gaps")
NoQuestions == <<>>

DraftSequence == <<"draft_tasks", "quality_gate", "persist_draft", "await_approval">>
=============================================================================
