------------------------------- MODULE MCAuth -------------------------------
(* Auth on a small instance: two attempts of one source at a time, over a  *)
(* worker whose clock may be ahead of Redis's and whose commands are late. *)
EXTENDS Auth, TLC

CONSTANTS r1, r2, k1

OneWorker == [r \in Requests |-> k1]
Slots == Permutations(Requests)

=============================================================================
