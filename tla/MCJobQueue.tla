----------------------------- MODULE MCJobQueue -----------------------------
(* TLC instances of JobQueue. *)
EXTENDS JobQueue, TLC

CONSTANTS j1, j2, r1, w1, w2

\* both jobs resume the same run
SharedRun == (j1 :> r1) @@ (j2 :> r1)
SingleJob == (j1 :> r1)
=============================================================================
