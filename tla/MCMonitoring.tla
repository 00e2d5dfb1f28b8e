---------------------------- MODULE MCMonitoring ----------------------------
(* TLC instances of Monitoring. *)
EXTENDS Monitoring, TLC

CONSTANTS c1, c2, w, k1, k2

Alike == Permutations(Clients) \cup Permutations(Keys)
=============================================================================
