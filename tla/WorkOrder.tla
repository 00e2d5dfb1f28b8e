----------------------------- MODULE WorkOrder -----------------------------
(***************************************************************************)
(* What task execution promises about the order of the work: a task of the *)
(* active plan is begun only when every task it depends on is done, is     *)
(* done only after it was begun, and what is done stays done until a new   *)
(* plan replaces the old one.  A dropped task holds its successors back.   *)
(***************************************************************************)
EXTENDS Naturals

CONSTANTS Plans, Tasks, Preds

VARIABLES
  plan,     \* the active plan
  begun,    \* its tasks that were worked on
  done,     \* its completed tasks
  dropped   \* its cancelled tasks

work == <<plan, begun, done, dropped>>

Init == plan = 1 /\ begun = {} /\ done = {} /\ dropped = {}

Pursued(t) == t \notin done \cup dropped

Begin(t) ==
  /\ Pursued(t)
  /\ Preds[plan][t] \subseteq done
  /\ begun' = begun \cup {t}
  /\ UNCHANGED <<plan, done, dropped>>

Finish(t) ==
  /\ Pursued(t)
  /\ t \in begun
  /\ done' = done \cup {t}
  /\ UNCHANGED <<plan, begun, dropped>>

Drop(t) ==
  /\ Pursued(t)
  /\ dropped' = dropped \cup {t}
  /\ UNCHANGED <<plan, begun, done>>

Replan ==
  /\ plan' = plan + 1
  /\ begun' = {} /\ done' = {} /\ dropped' = {}

Next == Replan \/ \E t \in Tasks : Begin(t) \/ Finish(t) \/ Drop(t)

Spec == Init /\ [][Next]_work
=============================================================================
