-------------------------- MODULE MCCircuitBreaker --------------------------
(* CircuitBreaker on a small instance.  Every run checks liveness, so none *)
(* uses symmetry.                                                          *)
EXTENDS CircuitBreaker

CONSTANTS c1, c2, c3, c4

TwoCallers == {c1, c2}
FourCallers == {c1, c2, c3, c4}

=============================================================================
