------------------------ MODULE CircuitBreakerProofs ------------------------
(***************************************************************************)
(* The safety properties of CircuitBreaker hold for any number of callers, *)
(* any threshold, timeout and number of trial slots.  They all follow from *)
(* the inductive invariant IInv.  The step that needs an argument is how   *)
(* the trials in flight, a set, and _half_open_calls, a counter nothing in *)
(* the code ties to them, move together.                                   *)
(***************************************************************************)
EXTENDS CircuitBreaker, FiniteSetTheorems, TLAPS

USE DEF CircuitState, Breaker, Role, HalfOpened

(* The trials in flight are finitely many, so they can be counted.         *)
LEMMA TrialsFinite ==
    ASSUME BreakerAssumption
    PROVE  /\ IsFiniteSet(Trials)
           /\ Cardinality(Trials) \in Nat
<1>1. Trials \subseteq Callers
  BY DEF Trials
<1> QED
  BY <1>1, FS_Subset, FS_CardinalityType DEF BreakerAssumption

(* The breaker the lazy `state' property leaves behind is well typed.      *)
LEMMA CurrentStateType ==
    ASSUME BreakerAssumption, NEW b \in Breaker
    PROVE  CurrentState(b) \in Breaker
BY DEF BreakerAssumption, CurrentState

LEMMA InitIInv == BreakerAssumption /\ Init => IInv
<1> SUFFICES ASSUME BreakerAssumption, Init PROVE IInv
  OBVIOUS
<1>1. TypeOK
  BY DEF BreakerAssumption, Init, TypeOK, NewBreaker
<1>2. StateMeaning
  BY DEF BreakerAssumption, Init, StateMeaning, NewBreaker
<1>3. SlotAccounting
  BY DEF Init, SlotAccounting, NewBreaker, Trials
<1> QED
  BY <1>1, <1>2, <1>3 DEF IInv

(* A request let through by a CLOSED breaker changes no counter.           *)
LEMMA AdmitIInv ==
    ASSUME BreakerAssumption, IInv, NEW c \in Callers, Admit(c)
    PROVE  IInv'
<1> DEFINE cur == CurrentState(breaker)
<1> USE DEF TypeOK, StateMeaning, SlotAccounting, IInv
<1>1. CASE breaker.state = "CLOSED"
  <2>1. breaker' = breaker
    BY <1>1 DEF Admit, AfterAllow, CurrentState
  <2>2. Trials' = Trials
    BY <1>1, <2>1 DEF Admit, Trials
  <2> QED
    BY <1>1, <2>1, <2>2 DEF Admit
<1>2. CASE breaker.state # "CLOSED"
  <2>1. cur.state = "HALF_OPEN" /\ cur.halfOpenCalls < HalfOpenMaxCalls
    BY <1>2 DEF Admit, Admits, CurrentState
  <2>2. /\ cur \in Breaker
        /\ cur.failureCount = breaker.failureCount
    BY CurrentStateType DEF CurrentState
  <2>3. breaker' = [cur EXCEPT !.halfOpenCalls = @ + 1]
    BY <2>1 DEF Admit, AfterAllow
  <2>4. /\ breaker' \in Breaker
        /\ breaker'.state = "HALF_OPEN"
        /\ breaker'.failureCount = breaker.failureCount
        /\ breaker'.halfOpenCalls = cur.halfOpenCalls + 1
    BY <2>1, <2>2, <2>3 DEF BreakerAssumption
  <2>5. role' = [role EXCEPT ![c] = "trial"]
    BY <2>4 DEF Admit
  <2>6. c \notin Trials /\ Trials' = Trials \cup {c}
    BY <2>5 DEF Admit, Trials
  <2>7. Cardinality(Trials') = Cardinality(Trials) + 1
    BY <2>6, TrialsFinite, FS_AddElement
  <2>8. cur.halfOpenCalls = Cardinality(Trials) + leaked
    <3>1. CASE breaker.state = "HALF_OPEN"
      BY <3>1 DEF CurrentState
    <3>2. CASE breaker.state = "OPEN"
      BY <3>2, <2>1, FS_EmptySet DEF CurrentState
    <3> QED
      BY <1>2, <3>1, <3>2
  <2>9. quiet = ResetTimeout
    <3>1. CASE breaker.state = "HALF_OPEN"
      BY <3>1
    <3>2. CASE breaker.state = "OPEN"
      BY <3>2, <2>1 DEF CurrentState, BreakerAssumption
    <3> QED
      BY <1>2, <3>1, <3>2
  <2>10. TypeOK'
    BY <2>4, <2>5 DEF Admit
  <2>11. StateMeaning'
    BY <1>2, <2>1, <2>2, <2>4, <2>9 DEF Admit
  <2>12. SlotAccounting'
    BY <2>2, <2>4, <2>7, <2>8, TrialsFinite DEF Admit
  <2> QED
    BY <2>10, <2>11, <2>12
<1> QED
  BY <1>1, <1>2

(* A rejection leaves the breaker as it is: the lazy transition would have *)
(* freed a slot, and then the request would have been let in.              *)
LEMMA RejectIInv ==
    ASSUME BreakerAssumption, IInv, NEW c \in Callers, Reject(c)
    PROVE  IInv'
<1>1. CurrentState(breaker) = breaker
  BY DEF Reject, Admits, CurrentState, BreakerAssumption, IInv, TypeOK
<1>2. breaker' = breaker
  BY <1>1 DEF Reject, AfterAllow
<1> QED
  BY <1>2 DEF Reject, IInv, TypeOK, StateMeaning, SlotAccounting, Trials

(* Once a result is recorded nobody is a trial any more.                   *)
LEMMA LeaveEmptiesTrials ==
    ASSUME TypeOK, NEW c \in Callers, Leave(c)
    PROVE  Trials' = {} /\ role' \in [Callers -> Role]
BY DEF TypeOK, Leave, Trials

LEMMA RecordSuccessIInv ==
    ASSUME BreakerAssumption, IInv, NEW c \in Callers, RecordSuccess(c)
    PROVE  IInv'
<1>1. Trials' = {} /\ role' \in [Callers -> Role]
  BY LeaveEmptiesTrials DEF RecordSuccess, IInv
<1> QED
  BY <1>1 DEF BreakerAssumption, RecordSuccess, AfterSuccess, NewBreaker,
              IInv, TypeOK, StateMeaning, SlotAccounting

LEMMA RecordFailureIInv ==
    ASSUME BreakerAssumption, IInv, NEW c \in Callers, RecordFailure(c)
    PROVE  IInv'
<1> USE DEF TypeOK, StateMeaning, SlotAccounting, IInv
<1>1. Trials' = {} /\ role' \in [Callers -> Role]
  BY LeaveEmptiesTrials DEF RecordFailure
<1>2. streak' = breaker'.failureCount /\ breaker' \in Breaker
  <2>1. CASE breaker.state = "CLOSED"
    BY <2>1 DEF RecordFailure, AfterFailure, CurrentState, Tripped, BreakerAssumption
  <2>2. CASE breaker.state # "CLOSED"
    BY <2>2 DEF RecordFailure, AfterFailure, CurrentState, Tripped, BreakerAssumption
  <2> QED
    BY <2>1, <2>2
<1>3. /\ breaker'.state \in {"CLOSED", "OPEN"}
      /\ breaker'.state = "CLOSED" <=> streak' < FailureThreshold
      /\ breaker'.state = "OPEN" => breaker'.age = 0
      /\ breaker'.halfOpenCalls = 0
  <2>1. CASE breaker.state = "CLOSED"
    BY <2>1 DEF RecordFailure, AfterFailure, CurrentState, Tripped, BreakerAssumption
  <2>2. CASE breaker.state # "CLOSED"
    BY <2>2 DEF RecordFailure, AfterFailure, CurrentState, Tripped, BreakerAssumption
  <2> QED
    BY <2>1, <2>2
<1> QED
  BY <1>1, <1>2, <1>3 DEF RecordFailure, BreakerAssumption

LEMMA AbandonIInv ==
    ASSUME BreakerAssumption, IInv, NEW c \in Callers, Abandon(c)
    PROVE  IInv'
<1> USE DEF TypeOK, StateMeaning, SlotAccounting, IInv
<1>1. breaker' = breaker /\ role' = [role EXCEPT ![c] = "idle"]
  BY DEF Abandon
<1>2. CASE role[c] = "trial"
  <2>1. c \in Trials /\ Trials' = Trials \ {c}
    BY <1>1, <1>2 DEF Trials
  <2>2. Cardinality(Trials') = Cardinality(Trials) - 1 /\ Cardinality(Trials) > 0
    BY <2>1, TrialsFinite, FS_RemoveElement, FS_EmptySet
  <2>3. breaker.state = "HALF_OPEN"
    BY <2>1
  <2> QED
    BY <1>1, <1>2, <2>2, <2>3, TrialsFinite DEF Abandon, BreakerAssumption
<1>3. CASE role[c] # "trial"
  <2>1. Trials' = Trials
    BY <1>1, <1>3 DEF Trials
  <2> QED
    BY <1>1, <1>3, <2>1 DEF Abandon
<1> QED
  BY <1>2, <1>3

LEMMA TickIInv ==
    ASSUME BreakerAssumption, IInv, Tick
    PROVE  IInv'
<1> USE DEF TypeOK, StateMeaning, SlotAccounting, IInv
<1>1. Trials' = Trials
  BY DEF Tick, Trials
<1>2. CASE breaker.state = "OPEN"
  BY <1>1, <1>2 DEF Tick, BreakerAssumption
<1>3. CASE breaker.state # "OPEN"
  BY <1>1, <1>3 DEF Tick, BreakerAssumption
<1> QED
  BY <1>2, <1>3

LEMMA NextIInv == BreakerAssumption /\ IInv /\ [Next]_vars => IInv'
<1> SUFFICES ASSUME BreakerAssumption, IInv, [Next]_vars PROVE IInv'
  OBVIOUS
<1>1. CASE Tick
  BY <1>1, TickIInv
<1>2. ASSUME NEW c \in Callers, Admit(c) \/ Reject(c) \/ Finish(c)
      PROVE  IInv'
  BY <1>2, AdmitIInv, RejectIInv, RecordSuccessIInv, RecordFailureIInv, AbandonIInv
     DEF Finish
<1>3. CASE UNCHANGED vars
  BY <1>3 DEF vars, IInv, TypeOK, StateMeaning, SlotAccounting, Trials
<1> QED
  BY <1>1, <1>2, <1>3 DEF Next

(* IInv is an invariant of the breaker, whatever the constants.            *)
THEOREM Inductive == ASSUME BreakerAssumption PROVE Spec => []IInv
<1>1. Init => IInv
  BY InitIInv
<1>2. IInv /\ [Next]_vars => IInv'
  BY NextIInv
<1> QED
  BY <1>1, <1>2, PTL DEF Spec

(* The breaker's fields stay in range: _failure_count never passes the     *)
(* threshold and _half_open_calls never passes its maximum.                *)
THEOREM TypeCorrect == ASSUME BreakerAssumption PROVE Spec => []TypeOK
<1>1. IInv => TypeOK
  BY DEF IInv
<1> QED
  BY <1>1, Inductive, PTL

(* No request is turned away before FailureThreshold failures in a row.    *)
THEOREM NeverFalseAlarm == ASSUME BreakerAssumption PROVE Spec => []NoFalseAlarm
<1>1. IInv => NoFalseAlarm
  BY DEF IInv, StateMeaning, NoFalseAlarm, Admits, CurrentState
<1> QED
  BY <1>1, Inductive, PTL

(* After them, none is let in for a whole ResetTimeout.                    *)
THEOREM AlwaysFailsFast == ASSUME BreakerAssumption PROVE Spec => []FailsFast
<1>1. BreakerAssumption /\ IInv => FailsFast
  BY DEF BreakerAssumption, IInv, TypeOK, StateMeaning, FailsFast, Admits, CurrentState
<1> QED
  BY <1>1, Inductive, PTL

(* _half_open_calls is exactly the trials in flight and the leaked slots.  *)
THEOREM SlotsAccounted == ASSUME BreakerAssumption PROVE Spec => []SlotAccounting
<1>1. IInv => SlotAccounting
  BY DEF IInv
<1> QED
  BY <1>1, Inductive, PTL

=============================================================================
