--------------------------- MODULE MCWorkerThreads ---------------------------
(* WorkerThreads with fewer threads than requests, so that jobs queue up   *)
(* behind orphans.                                                         *)
EXTENDS WorkerThreads

CONSTANTS r1, r2, r3, t1, t2

=============================================================================
