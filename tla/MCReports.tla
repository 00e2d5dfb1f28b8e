------------------------------ MODULE MCReports ------------------------------
(* TLC instances of Reports. *)
EXTENDS Reports, TLC

CONSTANTS c1, c2, w1, w2, k1, k2

Alike == Permutations(Clients) \cup Permutations(Workers) \cup Permutations(Keys)
=============================================================================
