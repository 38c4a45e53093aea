---------------------------- MODULE MCRateLimiter ----------------------------
(* RateLimiter on a small instance: up to two requests on one key.  Every  *)
(* command carries a clock reading of its own, so one worker stands for    *)
(* many; only its cached sha is the worker's.                              *)
EXTENDS RateLimiter

CONSTANTS r1, r2, k1

OneWorker == [r \in Requests |-> k1]

=============================================================================
