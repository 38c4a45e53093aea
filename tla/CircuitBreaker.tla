--------------------------- MODULE CircuitBreaker ---------------------------
(***************************************************************************)
(* The per-worker, per-provider breaker of circuit_breaker.py, driven by   *)
(* the requests of one worker.  A request asks allow_request() once; if it *)
(* was let through it later calls record_success() or record_failure(), or *)
(* leaves without calling either (a cache hit, a client that disconnects). *)
(* The event loop is single threaded and the breaker never awaits, so each *)
(* of its methods is one atomic step; what interleaves is requests.        *)
(*                                                                         *)
(* Time.  The code compares now() - _opened_at with _reset_timeout_s and   *)
(* nothing else, so the breaker carries that difference, `age', saturated  *)
(* at ResetTimeout (any larger difference is treated alike).               *)
(***************************************************************************)
EXTENDS Naturals, FiniteSets

CONSTANTS
    Callers,            \* concurrent request slots of one worker
    FailureThreshold,   \* circuit_breaker_failure_threshold
    ResetTimeout,       \* circuit_breaker_reset_timeout_s, in clock ticks
    HalfOpenMaxCalls    \* half_open_max_calls; app.py leaves it at 1

ASSUME BreakerAssumption ==
    /\ IsFiniteSet(Callers)
    /\ FailureThreshold \in Nat \ {0}
    /\ ResetTimeout \in Nat
    /\ HalfOpenMaxCalls \in Nat \ {0}

VARIABLES
    breaker,    \* the fields of one CircuitBreaker object
    role,       \* what each caller is doing, and how it was let in
    streak,     \* history: failures recorded since the last success
    quiet,      \* history: ticks since the last recorded failure
    leaked      \* history: trial slots whose holder left without a result

vars == <<breaker, role, streak, quiet, leaked>>

CircuitState == {"CLOSED", "OPEN", "HALF_OPEN"}

Breaker == [state : CircuitState,
            failureCount : 0..FailureThreshold,
            age : 0..ResetTimeout,
            halfOpenCalls : 0..HalfOpenMaxCalls]

(* "trial": let in by the current HALF_OPEN episode; "late": let in by an  *)
(* earlier one that was decided by somebody else; "regular": let in while  *)
(* the circuit was CLOSED.  The code draws none of these distinctions.     *)
Role == {"idle", "regular", "trial", "late"}

Trials == {c \in Callers : role[c] = "trial"}

-----------------------------------------------------------------------------
(* The methods of the class, as functions of the object's fields.          *)

NewBreaker == [state |-> "CLOSED", failureCount |-> 0,
               age |-> 0, halfOpenCalls |-> 0]

HalfOpened(b) == [state |-> "HALF_OPEN", failureCount |-> b.failureCount,
                  age |-> b.age, halfOpenCalls |-> 0]

(* Faulty: a HALF_OPEN breaker whose timeout is over is reset again.       *)
Faulty_CurrentState(b) ==
    IF b.state # "CLOSED" /\ b.age >= ResetTimeout
    THEN HalfOpened(b)
    ELSE b

(* The `state' property: reading it moves OPEN to HALF_OPEN once due.      *)
CurrentState(b) ==
    IF b.state = "OPEN" /\ b.age >= ResetTimeout
    THEN HalfOpened(b)
    ELSE b

(* Faulty: no bound on the trial calls.                                    *)
Faulty_Admits(b) == CurrentState(b).state # "OPEN"

Admits(b) ==
    \/ CurrentState(b).state = "CLOSED"
    \/ /\ CurrentState(b).state = "HALF_OPEN"
       /\ CurrentState(b).halfOpenCalls < HalfOpenMaxCalls

(* Faulty: every rejection re-arms the timer.                              *)
Faulty_AfterAllow(b) ==
    LET cur == CurrentState(b) IN
    IF cur.state = "HALF_OPEN" /\ Admits(b)
    THEN [cur EXCEPT !.halfOpenCalls = @ + 1]
    ELSE [cur EXCEPT !.age = 0]

AfterAllow(b) ==
    LET cur == CurrentState(b) IN
    IF cur.state = "HALF_OPEN" /\ Admits(b)
    THEN [cur EXCEPT !.halfOpenCalls = @ + 1]
    ELSE cur

Tripped == [state |-> "OPEN", failureCount |-> FailureThreshold,
            age |-> 0, halfOpenCalls |-> 0]

(* Faulty: a success closes the circuit but keeps the count.               *)
Faulty_AfterSuccess(b) == [NewBreaker EXCEPT !.failureCount = b.failureCount]

AfterSuccess(b) == NewBreaker

(* Faulty: a failure of a breaker already OPEN does not re-arm the timer.  *)
Faulty_AfterFailure(b) ==
    LET cur == CurrentState(b) IN
    IF cur.state = "HALF_OPEN" \/ cur.failureCount + 1 >= FailureThreshold
    THEN [Tripped EXCEPT !.age = IF cur.state = "OPEN" THEN cur.age ELSE 0]
    ELSE [cur EXCEPT !.failureCount = @ + 1]

(* Faulty: a failure in HALF_OPEN is not recorded.                         *)
Deaf_AfterFailure(b) ==
    LET cur == CurrentState(b) IN
    IF cur.state = "HALF_OPEN" THEN cur
    ELSE IF cur.failureCount + 1 >= FailureThreshold THEN Tripped
    ELSE [cur EXCEPT !.failureCount = @ + 1]

AfterFailure(b) ==
    LET cur == CurrentState(b) IN
    IF cur.state = "HALF_OPEN" \/ cur.failureCount + 1 >= FailureThreshold
    THEN Tripped
    ELSE [cur EXCEPT !.failureCount = @ + 1]

-----------------------------------------------------------------------------
Init ==
    /\ breaker = NewBreaker
    /\ role = [c \in Callers |-> "idle"]
    /\ streak = 0
    /\ quiet = ResetTimeout
    /\ leaked = 0

(* generate.py asks before it prunes or looks up the cache.                *)
Admit(c) ==
    /\ role[c] = "idle"
    /\ Admits(breaker)
    /\ breaker' = AfterAllow(breaker)
    /\ role' = [role EXCEPT ![c] =
                  IF breaker'.state = "CLOSED" THEN "regular" ELSE "trial"]
    /\ UNCHANGED <<streak, quiet, leaked>>

(* CircuitOpenError, a 503.  allow_request() still reads `state'.          *)
Reject(c) ==
    /\ role[c] = "idle"
    /\ ~Admits(breaker)
    /\ breaker' = AfterAllow(breaker)
    /\ UNCHANGED <<role, streak, quiet, leaked>>

(* c is done; a HALF_OPEN episode is over once somebody records a result.  *)
Leave(c) ==
    role' = [d \in Callers |->
               IF d = c THEN "idle"
               ELSE IF role[d] = "trial" THEN "late" ELSE role[d]]

RecordSuccess(c) ==
    /\ role[c] # "idle"
    /\ breaker' = AfterSuccess(breaker)
    /\ Leave(c)
    /\ streak' = 0
    /\ leaked' = 0
    /\ UNCHANGED quiet

RecordFailure(c) ==
    /\ role[c] # "idle"
    /\ breaker' = AfterFailure(breaker)
    /\ Leave(c)
    /\ streak' = IF streak < FailureThreshold THEN streak + 1 ELSE streak
    /\ quiet' = 0
    /\ leaked' = 0

(* A cache hit returns before the code that records; a disconnect closes   *)
(* _stream_and_finalize at its yield, so what follows its loop never runs. *)
Abandon(c) ==
    /\ role[c] # "idle"
    /\ role' = [role EXCEPT ![c] = "idle"]
    /\ leaked' = IF role[c] = "trial" THEN leaked + 1 ELSE leaked
    /\ UNCHANGED <<breaker, streak, quiet>>

(* Only a breaker that is OPEN looks at the clock.                         *)
Tick ==
    /\ quiet < ResetTimeout \/ (breaker.state = "OPEN" /\ breaker.age < ResetTimeout)
    /\ quiet' = IF quiet < ResetTimeout THEN quiet + 1 ELSE quiet
    /\ breaker' = IF breaker.state = "OPEN" /\ breaker.age < ResetTimeout
                  THEN [breaker EXCEPT !.age = @ + 1]
                  ELSE breaker
    /\ UNCHANGED <<role, streak, leaked>>

Finish(c) == RecordSuccess(c) \/ RecordFailure(c) \/ Abandon(c)

Next == Tick \/ \E c \in Callers : Admit(c) \/ Reject(c) \/ Finish(c)

Spec == Init /\ [][Next]_vars

(* Time passes, an admitted request ends in some way (httpx bounds every   *)
(* read), and clients keep sending requests.                               *)
Fairness ==
    /\ WF_vars(Tick)
    /\ \A c \in Callers : WF_vars(Finish(c)) /\ WF_vars(Admit(c))

FairSpec == Spec /\ Fairness

-----------------------------------------------------------------------------
(* Every field keeps its type and every counter its bound.                 *)
TypeOK ==
    /\ breaker \in Breaker
    /\ role \in [Callers -> Role]
    /\ streak \in 0..FailureThreshold
    /\ quiet \in 0..ResetTimeout
    /\ leaked \in 0..HalfOpenMaxCalls

(* Seen from outside, without naming the breaker's own state: it never     *)
(* turns a request away unless FailureThreshold results in a row, in the   *)
(* order they were recorded, were failures (no false alarm) ...            *)
NoFalseAlarm == streak < FailureThreshold => Admits(breaker)

(* ... and once they were, it turns every request away until a whole       *)
(* ResetTimeout has passed since the last recorded failure.                *)
FailsFast ==
    streak = FailureThreshold /\ quiet < ResetTimeout => ~Admits(breaker)

(* Every slot _half_open_calls counts is held by a request this HALF_OPEN  *)
(* episode let in, or was held by one that left without a result: a full   *)
(* breaker with no leak is waiting for somebody.                           *)
SlotAccounting ==
    IF breaker.state = "HALF_OPEN"
    THEN breaker.halfOpenCalls = Cardinality(Trials) + leaked
    ELSE Trials = {} /\ leaked = 0 /\ breaker.halfOpenCalls = 0

(* What each state of the machine says of the fields and of the history.   *)
(* The count is the streak; an OPEN breaker's timer runs from the last     *)
(* failure, whoever reported it; a HALF_OPEN one has let somebody in.      *)
StateMeaning ==
    /\ breaker.failureCount = streak
    /\ breaker.state = "CLOSED" <=> streak < FailureThreshold
    /\ breaker.state = "OPEN" => breaker.age = quiet
    /\ breaker.state = "HALF_OPEN" => quiet = ResetTimeout /\ breaker.halfOpenCalls > 0

(* The inductive invariant behind the four above.                          *)
IInv == TypeOK /\ StateMeaning /\ SlotAccounting

(* A reset timeout that has elapsed is noticed: an OPEN breaker is probed  *)
(* or closed, however often stragglers' failures re-arm its timer.         *)
OpenIsProbed == breaker.state = "OPEN" ~> breaker.state # "OPEN"

(* A HALF_OPEN breaker is decided, or every one of its slots has leaked.   *)
HalfOpenDecidedOrLeaked ==
    breaker.state = "HALF_OPEN"
        ~> (breaker.state # "HALF_OPEN" \/ leaked = HalfOpenMaxCalls)

(* tutorial/circuit-breaker.md: the trial's success closes the circuit, its *)
(* failure reopens it, so HALF_OPEN is a state the breaker always leaves.  *)
HalfOpenIsDecided == breaker.state = "HALF_OPEN" ~> breaker.state # "HALF_OPEN"

=============================================================================
