-------------------------- MODULE ApprovedBaseline --------------------------
(***************************************************************************)
(* What the plan lifecycle promises to the parts that execute, monitor and *)
(* report on a plan: at any time at most one version is current, and the   *)
(* content under which a version became current never changes.             *)
(***************************************************************************)
CONSTANTS
  Versions,
  Content,
  NoContent,      \* the baseline of a version that was never approved
  None            \* no current version yet

VARIABLES
  baseline,       \* version -> the content it was approved with
  current         \* the version in execution, or None

Init ==
  /\ baseline = [v \in Versions |-> NoContent]
  /\ current = None

\* The owner approves a version that was not approved before.
Activate(v) ==
  /\ baseline[v] = NoContent
  /\ current' = v
  /\ \E c \in Content \ {NoContent} : baseline' = [baseline EXCEPT ![v] = c]

Next == \E v \in Versions : Activate(v)

Spec == Init /\ [][Next]_<<baseline, current>>
=============================================================================
