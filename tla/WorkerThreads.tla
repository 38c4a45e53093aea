---------------------------- MODULE WorkerThreads ----------------------------
(***************************************************************************)
(* The event loop's default thread pool, which everything in the gateway   *)
(* that blocks is sent to with asyncio.to_thread():                        *)
(*     detect   the injection classifier      guardrails.py    timeout     *)
(*     lookup   the embedding of a lookup     semantic_cache.py  timeout   *)
(*     agent    an agent without async methods  agent.py                   *)
(*     store    the embedding of a store      semantic_cache.py            *)
(* A request waits for one job at a time.  Giving up on a job (a timeout,  *)
(* or a client that leaves while its body is made) withdraws it from the   *)
(* queue, but a job that a thread has begun runs on with nobody waiting,   *)
(* and the thread is not free before it ends, if it ever does.             *)
(***************************************************************************)
EXTENDS Integers, Sequences, SequencesExt, FiniteSets

CONSTANTS
    Requests,       \* concurrent requests of one worker process
    Threads,        \* the threads of the pool
    InjectionMode   \* prompt_injection_mode: "off", "flag" or "block"

(* The pool is bounded (the executor's max_workers).                       *)
ASSUME ThreadsAssumption ==
    /\ InjectionMode \in {"off", "flag", "block"}
    /\ IsFiniteSet(Threads)
    /\ "nobody" \notin Requests

VARIABLES
    stage,      \* the job each request waits for, or "idle"
    eligible,   \* whether its request may use the cache
    queue,      \* jobs no thread has begun, oldest first
    running,    \* the job each thread is busy with
    posted      \* whether the result of the job has reached the event loop

vars == <<stage, eligible, queue, running, posted>>

Stages == {"detect", "lookup", "agent", "store"}
Job(r, s) == [req |-> r, stage |-> s]
Jobs == [req : Requests, stage : Stages]
NoJob == [req |-> "nobody", stage |-> "none"]
Orphan == [req |-> "nobody", stage |-> "given up"]

Init ==
    /\ stage = [r \in Requests |-> "idle"]
    /\ eligible = [r \in Requests |-> FALSE]
    /\ queue = <<>>
    /\ running = [t \in Threads |-> NoJob]
    /\ posted = [r \in Requests |-> FALSE]

-----------------------------------------------------------------------------
(* The pool.  Its queue is first in, first out.                            *)

Take(t) ==
    /\ running[t] = NoJob /\ queue # <<>>
    /\ running' = [running EXCEPT ![t] = Head(queue)]
    /\ queue' = Tail(queue)
    /\ UNCHANGED <<stage, eligible, posted>>

(* The job returns or raises.  call_soon_threadsafe() hands the result to  *)
(* the loop, where whoever still waits will find it; the result of a job   *)
(* that was given up is dropped.                                           *)
Finish(t) ==
    /\ running[t] # NoJob
    /\ running' = [running EXCEPT ![t] = NoJob]
    /\ posted' = [r \in Requests |->
                     posted[r] \/ running[t].req = r]
    /\ UNCHANGED <<stage, eligible, queue>>

(* Where a request goes on, once its job is over one way or another.       *)
Entry ==
    IF InjectionMode = "off" THEN {"lookup", "agent", "idle"} ELSE {"detect"}

(* A vendor's stream needs no thread, so "store" may follow "lookup"; a    *)
(* request the limiter, the breaker or the detector refuses, a hit, or a   *)
(* stream that fails, ends.                                                *)
After(r, s) ==
    CASE s = "detect" -> IF eligible[r] THEN {"lookup", "idle"} ELSE {"agent", "idle"}
      [] s = "lookup" -> {"agent", "store", "idle"}
      [] s = "agent" -> IF eligible[r] THEN {"store", "idle"} ELSE {"idle"}
      [] s = "store" -> {"idle"}

(* Faulty: a classifier's job overtakes the others.                        *)
Faulty_Submit(r, s, q) ==
    /\ stage' = [stage EXCEPT ![r] = s]
    /\ queue' = IF s = "idle" THEN q ELSE IF s = "detect" THEN <<Job(r, s)>> \o q
                ELSE Append(q, Job(r, s))

(* to_thread(), unless the request has ended.                              *)
Submit(r, s, q) ==
    /\ stage' = [stage EXCEPT ![r] = s]
    /\ queue' = IF s = "idle" THEN q ELSE Append(q, Job(r, s))

-----------------------------------------------------------------------------
(* The requests.                                                           *)

Arrive(r) ==
    /\ stage[r] = "idle"
    /\ \E c \in BOOLEAN : eligible' = [eligible EXCEPT ![r] = c]
    /\ \E s \in Entry \ {"idle"} :
          /\ s = "lookup" => eligible'[r]
          /\ s = "agent" => ~eligible'[r]
          /\ Submit(r, s, queue)
    /\ UNCHANGED <<running, posted>>

(* The result reaches the request: a verdict, an embedding and what Redis  *)
(* says to it, an answer, or an exception.                                 *)
Resume(r) ==
    /\ posted[r]
    /\ posted' = [posted EXCEPT ![r] = FALSE]
    /\ \E s \in After(r, stage[r]) : Submit(r, s, queue)
    /\ UNCHANGED <<eligible, running>>

(* Faulty: a job in a thread is still taken for the request's.             *)
Faulty_Disowned(r) == running

(* Cancelling the wait: its job is out of the queue, or orphaned.          *)
Withdrawn(r) == RemoveFirstMatch(queue, LAMBDA j : j.req = r)
Disowned(r) ==
    [t \in Threads |->
        IF running[t].req = r THEN Orphan ELSE running[t]]

(* Faulty: only the classifier is given a timeout.                         *)
Faulty_Timed == {"detect"}

Timed == {"detect", "lookup"}

(* wait_for() gives up, even if the result arrived in the same moment.     *)
(* Detection fails open and a lookup misses: the request always goes on.   *)
Timeout(r) ==
    /\ stage[r] \in Timed
    /\ running' = Disowned(r)
    /\ posted' = [posted EXCEPT ![r] = FALSE]
    /\ \E s \in After(r, stage[r]) : Submit(r, s, Withdrawn(r))
    /\ UNCHANGED eligible

(* The client leaves while its body is made.  Before that nobody looks.    *)
Disconnect(r) ==
    /\ stage[r] \in {"agent", "store"}
    /\ running' = Disowned(r)
    /\ posted' = [posted EXCEPT ![r] = FALSE]
    /\ Submit(r, "idle", Withdrawn(r))
    /\ UNCHANGED eligible

Next ==
    \/ \E t \in Threads : Take(t) \/ Finish(t)
    \/ \E r \in Requests : Arrive(r) \/ Resume(r) \/ Timeout(r) \/ Disconnect(r)

Spec == Init /\ [][Next]_vars

(* Free threads take jobs, the loop delivers results, and its timers fire. *)
(* Nothing says that a job ends.                                           *)
FairSpec ==
    /\ Spec
    /\ \A t \in Threads : WF_vars(Take(t))
    /\ \A r \in Requests : WF_vars(Resume(r)) /\ WF_vars(Timeout(r))

-----------------------------------------------------------------------------
(* The places where a job of r is: in the queue, in a thread, posted.      *)
Places(r) ==
    Cardinality({i \in DOMAIN queue : queue[i].req = r})
        + Cardinality({t \in Threads : running[t].req = r})
        + (IF posted[r] THEN 1 ELSE 0)

(* A waiting request has exactly one job and a request that does not wait  *)
(* has none, and the job is the one it waits for: however timeouts,        *)
(* disconnects and finishing threads fall together, no request waits for a *)
(* job nobody will do, and no result of a job that was given up is taken   *)
(* for the result of the next one.                                         *)
OneJobPerWait ==
    \A r \in Requests :
        /\ Places(r) = (IF stage[r] = "idle" THEN 0 ELSE 1)
        /\ \A i \in DOMAIN queue : queue[i].req = r => queue[i].stage = stage[r]
        /\ \A t \in Threads :
              running[t].req = r => running[t].stage = stage[r]

(* guardrails.py:90, semantic_cache.py:85: no job that hangs, of whatever  *)
(* request, keeps a request in detection or lookup.                        *)
TimedWaitsEnd ==
    \A r \in Requests : stage[r] \in {"detect", "lookup"} ~> stage[r] \in {"agent", "store", "idle"}

(* semantic_cache.py:118, agent.py:324: the waits without a timeout end as *)
(* well, if the threads do not hang: detections that come and go forever   *)
(* do not starve them.                                                     *)
PatientWaitsEnd ==
    (\A t \in Threads : []<>(running[t] = NoJob)) =>
        \A r \in Requests : stage[r] \in {"agent", "store"} ~> stage[r] = "idle"

=============================================================================
