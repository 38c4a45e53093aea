---------------------------- MODULE GatewayProofs ----------------------------
(***************************************************************************)
(* For any number of requests, tenants, providers and registrations: each  *)
(* breaker object of a worker implements CircuitBreaker, an outage refuses *)
(* nobody another provider, no provider meets its predecessor's breaker,   *)
(* and a cache hit never leaves its partition.                             *)
(*                                                                         *)
(* Each lemma below takes one action, or a group that touches the same     *)
(* variables, and shows two things of it: IInv', and for every breaker     *)
(* object the step of CircuitBreaker it amounts to.                        *)
(***************************************************************************)
EXTENDS Gateway, TLAPS

(* What CircuitBreaker makes of one step, for the object o.                *)
Implements(o) == UNCHANGED B(o)!vars \/ B(o)!Next

LEMMA NothingIsNoObject == Nothing \notin Objects
BY DEF Nothing, Objects

(* The steps in which a request only moves on: it keeps the breaker it     *)
(* holds, or has no role with any.                                         *)
LEMMA MovesOn ==
    ASSUME Shape, NEW r \in Requests, NEW new \in Request, Become(r, new),
           role[r] = "idle" \/ new.breaker = req[r].breaker,
           UNCHANGED <<breaker, hist, role>>,
           NEW o \in Objects
    PROVE  UNCHANGED B(o)!vars
<1>1. RoleFor(o)' = RoleFor(o)
  BY DEF RoleFor, Become, Shape
<1> QED
  BY <1>1 DEF B!vars

LEMMA InitIInv == GatewayAssumption /\ Init => IInv
<1> SUFFICES ASSUME GatewayAssumption, Init PROVE IInv
  OBVIOUS
<1> USE DEF Init, NoRequest
<1>1. Shape
  BY DEF GatewayAssumption, Shape, Generation, Objects, NewHist, Request, Await,
         B!NewBreaker, B!Breaker, B!CircuitState, B!Role
<1>2. Captured /\ OnlyProvenStored /\ HitsStayInPartition
  BY DEF Captured, OnlyProvenStored, HitsStayInPartition
<1>3. Blameless
  BY DEF Blameless, B!NewBreaker
<1>4. NeverJudgedByPredecessor
  BY DEF NeverJudgedByPredecessor
<1> QED
  BY <1>1, <1>2, <1>3, <1>4 DEF IInv

(* At the start no request holds a breaker, so every object starts anew.   *)
LEMMA InitImplements == Init => \A o \in Objects : B(o)!Init
BY NothingIsNoObject DEF Init, RoleFor, NewHist, NoRequest, B!Init, B!NewBreaker

-----------------------------------------------------------------------------
(* The steps of one request that reach neither its breaker nor the cache.  *)

LEMMA ArriveStep ==
    ASSUME GatewayAssumption, IInv, NEW r \in Requests, Arrive(r)
    PROVE  IInv' /\ \A o \in Objects : UNCHANGED B(o)!vars
<1> USE DEF IInv, app, seen
<1>1. PICK c \in Clients, p \in Providers :
        Become(r, [pc |-> "resolving", client |-> c,
                   provider |-> ProviderFor(p), breaker |-> Nothing,
                   caching |-> FALSE, hit |-> Nothing])
  BY DEF Arrive
<1> DEFINE new == [pc |-> "resolving", client |-> c,
                   provider |-> ProviderFor(p), breaker |-> Nothing,
                   caching |-> FALSE, hit |-> Nothing]
<1>2. new \in Request /\ ProviderFor(p) \in Objects
  BY DEF Shape, Request, Await, ProviderFor, Objects
<1>3. req[r].pc = "idle" /\ req' = [req EXCEPT ![r] = new]
      /\ UNCHANGED <<current, cache, breaker, hist, role, blamed, proven>>
  BY <1>1 DEF Arrive, Become
<1>4. Shape'
  BY <1>2, <1>3 DEF Shape
<1>5. Captured'
  BY <1>2, <1>3 DEF Captured, Shape, ProviderFor, Generation
<1>6. Blameless' /\ OnlyProvenStored'
  BY <1>2, <1>3 DEF Blameless, OnlyProvenStored, Shape
<1>7. NeverJudgedByPredecessor' /\ HitsStayInPartition'
  BY <1>2, <1>3 DEF NeverJudgedByPredecessor, HitsStayInPartition, Shape
<1>8. role[r] = "idle"
  BY <1>3 DEF Captured
<1> HIDE DEF new
<1>9. \A o \in Objects : UNCHANGED B(o)!vars
  BY <1>1, <1>2, <1>3, <1>8, MovesOn DEF new
<1> QED
  BY <1>4, <1>5, <1>6, <1>7, <1>9

LEMMA BindStep ==
    ASSUME GatewayAssumption, IInv, NEW r \in Requests, Bind(r)
    PROVE  IInv' /\ \A o \in Objects : UNCHANGED B(o)!vars
<1> USE DEF IInv, app, seen
<1> DEFINE p == req[r].provider[1]
           new == [pc |-> IF InjectionMode = "off" THEN "checking" ELSE "guarding",
                   client |-> req[r].client, provider |-> req[r].provider,
                   breaker |-> BreakerFor(p), caching |-> FALSE, hit |-> Nothing]
<1>1. /\ req[r].pc = "resolving" /\ Become(r, new)
      /\ req' = [req EXCEPT ![r] = new]
      /\ UNCHANGED <<current, cache, breaker, hist, role, blamed, proven>>
  BY DEF Bind, Become
<1>2. req[r].client \in Clients /\ req[r].provider \in Objects
  BY <1>1 DEF Captured
<1>3. /\ p \in Providers /\ BreakerFor(p) \in Objects
      /\ BreakerFor(p)[1] = p /\ BreakerFor(p)[2] = current[p]
  BY <1>2 DEF Shape, BreakerFor, Objects
<1>4. req[r].provider[2] <= current[p]
  BY <1>1 DEF Captured
<1>5. new \in Request
  BY <1>2, <1>3 DEF Request, Await
<1>6. role[r] = "idle"
  BY <1>1 DEF Captured
<1> HIDE DEF p
<1>7. Shape'
  BY <1>1, <1>5 DEF Shape
<1>8. Captured'
  BY <1>1, <1>2, <1>3, <1>6 DEF Captured, Shape
<1>9. Blameless' /\ OnlyProvenStored'
  BY <1>1 DEF Blameless, OnlyProvenStored, Shape
<1>10. NeverJudgedByPredecessor' /\ HitsStayInPartition'
  BY <1>1, <1>3, <1>4 DEF NeverJudgedByPredecessor, HitsStayInPartition, Shape, p
<1> HIDE DEF new
<1>11. \A o \in Objects : UNCHANGED B(o)!vars
  BY <1>1, <1>5, <1>6, MovesOn
<1> QED
  BY <1>7, <1>8, <1>9, <1>10, <1>11

(* A request that goes on to its next await with what it holds.            *)
LEMMA GotoStep ==
    ASSUME GatewayAssumption, IInv, NEW r \in Requests, NEW pc \in Await, Goto(r, pc),
           \/ req[r].pc = "guarding" /\ pc = "checking"
           \/ req[r].pc = "looking" /\ pc = "streaming"
           \/ req[r].pc = "reconciling" /\ pc = "storing",
           UNCHANGED <<current, cache, breaker, hist, role, blamed, proven>>
    PROVE  IInv' /\ \A o \in Objects : UNCHANGED B(o)!vars
<1> USE DEF IInv
<1> DEFINE new == [req[r] EXCEPT !.pc = pc]
<1>1. /\ Become(r, new) /\ req' = [req EXCEPT ![r] = new]
      /\ req[r] \in Request
  BY DEF Goto, Become, Shape
<1>2. /\ new \in Request /\ new.pc = pc
      /\ new.client = req[r].client /\ new.provider = req[r].provider
      /\ new.breaker = req[r].breaker
  BY <1>1 DEF Request
<1> HIDE DEF new
<1>3. Shape'
  BY <1>1, <1>2 DEF Shape
<1>4. Captured'
  BY <1>1, <1>2 DEF Captured, Shape
<1>5. Blameless' /\ OnlyProvenStored'
  BY <1>1, <1>2 DEF Blameless, OnlyProvenStored, Shape
<1>6. NeverJudgedByPredecessor' /\ HitsStayInPartition'
  BY <1>1, <1>2 DEF NeverJudgedByPredecessor, HitsStayInPartition, Shape
<1>7. \A o \in Objects : UNCHANGED B(o)!vars
  BY <1>1, <1>2, MovesOn
<1> QED
  BY <1>3, <1>4, <1>5, <1>6, <1>7

LEMMA NoRequestType == NoRequest \in Request
BY DEF NoRequest, Request, Await

LEMMA DoneStep ==
    ASSUME GatewayAssumption, IInv, NEW r \in Requests, Done(r),
           req[r].pc \in {"guarding", "checking", "reconciling", "storing", "replaying"},
           cache' \subseteq proven,
           UNCHANGED <<current, breaker, hist, role, blamed, proven>>
    PROVE  IInv' /\ \A o \in Objects : UNCHANGED B(o)!vars
<1> USE DEF IInv
<1>1. Become(r, NoRequest) /\ req' = [req EXCEPT ![r] = NoRequest]
  BY DEF Done, Become
<1>2. role[r] = "idle"
  BY DEF Captured
<1>3. Shape'
  BY <1>1, NoRequestType DEF Shape
<1>4. Captured'
  BY <1>1, <1>2 DEF Captured, Shape, NoRequest
<1>5. Blameless' /\ OnlyProvenStored'
  BY <1>1 DEF Blameless, OnlyProvenStored, Shape, NoRequest
<1>6. NeverJudgedByPredecessor' /\ HitsStayInPartition'
  BY <1>1 DEF NeverJudgedByPredecessor, HitsStayInPartition, Shape, NoRequest
<1>7. \A o \in Objects : UNCHANGED B(o)!vars
  BY <1>1, <1>2, NoRequestType, MovesOn
<1> QED
  BY <1>3, <1>4, <1>5, <1>6, <1>7

-----------------------------------------------------------------------------
(* The methods of a breaker keep its type, and a CLOSED one stays CLOSED   *)
(* unless a failure is recorded.                                           *)
LEMMA AfterAllowType ==
    ASSUME GatewayAssumption, NEW o \in Objects, NEW b \in B(Nothing)!Breaker
    PROVE  /\ B(o)!AfterAllow(b) \in B(Nothing)!Breaker
           /\ b.state = "CLOSED" => B(o)!AfterAllow(b) = b /\ B(o)!Admits(b)
<1> USE DEF B!AfterAllow, B!CurrentState, B!HalfOpened, B!Admits, B!Breaker,
            B!CircuitState, GatewayAssumption
<1>1. CASE b.state = "OPEN" /\ b.age >= ResetTimeout
  BY <1>1
<1>2. CASE ~(b.state = "OPEN" /\ b.age >= ResetTimeout)
  <2>1. B(o)!CurrentState(b) = b
    BY <1>2
  <2>2. CASE b.state = "HALF_OPEN" /\ b.halfOpenCalls < 1
    <3>1. B(o)!AfterAllow(b) = [b EXCEPT !.halfOpenCalls = @ + 1]
      BY <2>1, <2>2
    <3>2. b.halfOpenCalls + 1 \in 0..1
      BY <2>2
    <3> HIDE DEF B!AfterAllow
    <3> QED
      BY <2>2, <3>1, <3>2
  <2>3. CASE ~(b.state = "HALF_OPEN" /\ b.halfOpenCalls < 1)
    BY <2>1, <2>3
  <2> QED
    BY <2>2, <2>3
<1> QED
  BY <1>1, <1>2

LEMMA AfterResultType ==
    ASSUME GatewayAssumption, NEW o \in Objects, NEW b \in B(Nothing)!Breaker
    PROVE  /\ B(o)!AfterSuccess(b) \in B(Nothing)!Breaker
           /\ B(o)!AfterSuccess(b).state = "CLOSED"
           /\ B(o)!AfterFailure(b) \in B(Nothing)!Breaker
<1> USE DEF B!Breaker, B!CircuitState, GatewayAssumption
<1>1. B(o)!AfterSuccess(b) \in B(Nothing)!Breaker /\ B(o)!AfterSuccess(b).state = "CLOSED"
  BY DEF B!AfterSuccess, B!NewBreaker
<1> DEFINE cur == B(o)!CurrentState(b)
<1>2. cur \in B(Nothing)!Breaker
  BY DEF B!CurrentState, B!HalfOpened
<1>3. CASE cur.state = "HALF_OPEN" \/ cur.failureCount + 1 >= FailureThreshold
  BY <1>1, <1>3 DEF B!AfterFailure, B!Tripped
<1>4. CASE ~(cur.state = "HALF_OPEN" \/ cur.failureCount + 1 >= FailureThreshold)
  <2>1. B(o)!AfterFailure(b) = [cur EXCEPT !.failureCount = @ + 1]
    BY <1>4 DEF B!AfterFailure
  <2> HIDE DEF cur
  <2>2. cur.failureCount + 1 \in 0..FailureThreshold
    BY <1>2, <1>4
  <2> QED
    BY <1>1, <1>2, <2>1, <2>2
<1> QED
  BY <1>3, <1>4

(* What r does with the breaker it holds no other object notices.          *)
LEMMA OthersUnmoved ==
    ASSUME Shape, Shape', NEW r \in Requests, NEW new \in Request,
           req' = [req EXCEPT ![r] = new],
           new.breaker \in {req[r].breaker, Nothing},
           \A q \in Requests :
               q # r /\ req[q].breaker # req[r].breaker => role'[q] = role[q],
           NEW o \in Objects, o # req[r].breaker,
           breaker'[o] = breaker[o], hist'[o] = hist[o]
    PROVE  UNCHANGED B(o)!vars
<1>1. o # Nothing
  BY NothingIsNoObject
<1>2. RoleFor(o)' = RoleFor(o)
  BY <1>1 DEF RoleFor, Shape
<1> QED
  BY <1>2 DEF B!vars

LEMMA RefuseStep ==
    ASSUME GatewayAssumption, IInv, NEW r \in Requests, Refuse(r)
    PROVE  IInv' /\ \A o \in Objects : Implements(o)
<1> USE DEF IInv, app, seen
<1> DEFINE b == req[r].breaker
<1>1. /\ req[r].pc = "checking" /\ req' = [req EXCEPT ![r] = NoRequest]
      /\ breaker' = [breaker EXCEPT ![b] = B(b)!AfterAllow(breaker[b])]
      /\ UNCHANGED <<current, cache, hist, role, blamed, proven>>
      /\ ~B(b)!Admits(breaker[b])
  BY DEF Refuse, Done, Become, Asked, MayPass
<1>2. b \in Objects /\ role[r] = "idle"
  BY <1>1 DEF Captured
<1>3. breaker[b] \in B(Nothing)!Breaker
  BY <1>2 DEF Shape
<1>4. /\ B(b)!AfterAllow(breaker[b]) \in B(Nothing)!Breaker
      /\ breaker[b].state # "CLOSED"
  BY <1>1, <1>2, <1>3, AfterAllowType
<1>5. Shape'
  BY <1>1, <1>2, <1>4, NoRequestType DEF Shape
<1>6. Captured'
  BY <1>1, <1>2 DEF Captured, Shape, NoRequest
<1>7. Blameless'
  BY <1>1, <1>2, <1>4 DEF Blameless, Shape
<1>8. OnlyProvenStored' /\ NeverJudgedByPredecessor' /\ HitsStayInPartition'
  BY <1>1 DEF OnlyProvenStored, NeverJudgedByPredecessor, HitsStayInPartition,
              Shape, NoRequest
<1>9. ASSUME NEW o \in Objects PROVE Implements(o)
  <2>1. CASE o # b
    <3>1. breaker'[o] = breaker[o] /\ hist'[o] = hist[o]
      BY <1>1, <1>2, <2>1 DEF Shape
    <3>2. NoRequest.breaker = Nothing
      BY DEF NoRequest
    <3> QED
      BY <1>1, <1>5, <2>1, <3>1, <3>2, NoRequestType, OthersUnmoved DEF Implements
  <2>2. CASE o = b
    <3>1. RoleFor(o)' = RoleFor(o) /\ RoleFor(o)[r] = "idle"
      BY <1>1, <1>2, <2>2, NothingIsNoObject DEF RoleFor, Shape, NoRequest
    <3>2. breaker'[o] = B(o)!AfterAllow(breaker[o]) /\ ~B(o)!Admits(breaker[o])
      BY <1>1, <1>2, <2>2 DEF Shape
    <3>3. B(o)!Reject(r)
      BY <1>1, <3>1, <3>2 DEF B!Reject
    <3> QED
      BY <3>3 DEF Implements, B!Next
  <2> QED
    BY <2>1, <2>2
<1> QED
  BY <1>5, <1>6, <1>7, <1>8, <1>9

LEMMA AdmitStep ==
    ASSUME GatewayAssumption, IInv, NEW r \in Requests, Admit(r)
    PROVE  IInv' /\ \A o \in Objects : Implements(o)
<1> USE DEF IInv, app, seen
<1> DEFINE b == req[r].breaker
<1>1. PICK eligible \in BOOLEAN :
        Become(r, [pc |-> IF eligible THEN "looking" ELSE "streaming",
                   client |-> req[r].client, provider |-> req[r].provider,
                   breaker |-> req[r].breaker,
                   caching |-> eligible, hit |-> Nothing])
  BY DEF Admit
<1> DEFINE new == [pc |-> IF eligible THEN "looking" ELSE "streaming",
                   client |-> req[r].client, provider |-> req[r].provider,
                   breaker |-> req[r].breaker,
                   caching |-> eligible, hit |-> Nothing]
           way == IF B(b)!AfterAllow(breaker[b]).state = "CLOSED"
                  THEN "regular" ELSE "trial"
<1>2. /\ req[r].pc = "checking" /\ req' = [req EXCEPT ![r] = new]
      /\ breaker' = [breaker EXCEPT ![b] = B(b)!AfterAllow(breaker[b])]
      /\ UNCHANGED <<current, cache, hist, blamed, proven>>
      /\ B(b)!Admits(breaker[b])
  BY <1>1 DEF Admit, Become, Asked, MayPass
<1>3. b \in Objects /\ role[r] = "idle"
  BY <1>2 DEF Captured
<1>4. /\ breaker[b] \in B(Nothing)!Breaker
      /\ breaker'[b] = B(b)!AfterAllow(breaker[b])
  BY <1>2, <1>3 DEF Shape
<1>5. role' = [role EXCEPT ![r] = way] /\ way \in {"regular", "trial"}
  BY <1>4 DEF Admit
<1>6. /\ B(b)!AfterAllow(breaker[b]) \in B(Nothing)!Breaker
      /\ breaker[b].state = "CLOSED" => B(b)!AfterAllow(breaker[b]) = breaker[b]
  BY <1>3, <1>4, AfterAllowType
<1>7. req[r].client \in Clients /\ req[r].provider \in Objects
  BY <1>2 DEF Captured
<1>8. new \in Request
  BY <1>3, <1>7 DEF Request, Await
<1>9. Shape'
  <2>1. role' \in [Requests -> B(Nothing)!Role]
    BY <1>5 DEF Shape, B!Role
  <2> HIDE DEF new, way
  <2> QED
    BY <1>2, <1>3, <1>6, <1>8, <2>1 DEF Shape
<1> HIDE DEF way
<1>10. Captured'
  BY <1>2, <1>3, <1>5, <1>7 DEF Captured, Shape
<1>11. Blameless'
  BY <1>2, <1>3, <1>6 DEF Blameless, Shape
<1>12. OnlyProvenStored' /\ NeverJudgedByPredecessor' /\ HitsStayInPartition'
  BY <1>2 DEF OnlyProvenStored, NeverJudgedByPredecessor, HitsStayInPartition, Shape
<1>13. ASSUME NEW o \in Objects PROVE Implements(o)
  <2>1. CASE o # b
    <3>1. breaker'[o] = breaker[o] /\ hist'[o] = hist[o]
      BY <1>2, <1>3, <2>1 DEF Shape
    <3>2. \A q \in Requests : q # r => role'[q] = role[q]
      BY <1>5 DEF Shape
    <3>3. new.breaker = b
      OBVIOUS
    <3> HIDE DEF new
    <3> QED
      BY <1>2, <1>8, <1>9, <2>1, <3>1, <3>2, <3>3, OthersUnmoved DEF Implements
  <2>2. CASE o = b
    <3>1. RoleFor(o)' = [RoleFor(o) EXCEPT ![r] = way] /\ RoleFor(o)[r] = "idle"
      BY <1>2, <1>3, <1>5, <2>2 DEF RoleFor, Shape
    <3>2. breaker'[o] = B(o)!AfterAllow(breaker[o]) /\ B(o)!Admits(breaker[o])
      BY <1>2, <1>4, <2>2
    <3>3. way = IF breaker'[o].state = "CLOSED" THEN "regular" ELSE "trial"
      BY <2>2, <3>2 DEF way
    <3>4. B(o)!Admit(r)
      BY <1>2, <3>1, <3>2, <3>3 DEF B!Admit
    <3> QED
      BY <3>4 DEF Implements, B!Next
  <2> QED
    BY <2>1, <2>2
<1> QED
  BY <1>9, <1>10, <1>11, <1>12, <1>13

(* A request that leaves without a result, whether or not it still owed    *)
(* one, is CircuitBreaker's Abandon or nothing.                            *)
LEMMA AbandonedStep ==
    ASSUME Shape, Captured, NEW r \in Requests, req[r].breaker \in Objects,
           NEW new \in Request, req' = [req EXCEPT ![r] = new],
           new.breaker \in {req[r].breaker, Nothing},
           Abandoned(r), UNCHANGED breaker
    PROVE  /\ hist' \in [Objects -> [streak : 0..FailureThreshold,
                                     quiet : 0..ResetTimeout, leaked : Nat]]
           /\ role' = [role EXCEPT ![r] = "idle"]
           /\ role' \in [Requests -> B(Nothing)!Role]
           /\ Shape' => \A o \in Objects : Implements(o)
<1> DEFINE b == req[r].breaker
<1>1. role' = [role EXCEPT ![r] = "idle"]
  BY DEF Abandoned
<1>2. role' \in [Requests -> B(Nothing)!Role]
  BY <1>1 DEF Shape, B!Role
<1>3. hist[b] \in [streak : 0..FailureThreshold, quiet : 0..ResetTimeout, leaked : Nat]
  BY DEF Shape
<1> DEFINE more == [streak |-> hist[b].streak, quiet |-> hist[b].quiet,
                    leaked |-> hist[b].leaked + 1]
<1>4. more \in [streak : 0..FailureThreshold, quiet : 0..ResetTimeout, leaked : Nat]
  BY <1>3
<1>5. hist' = IF role[r] = "trial" THEN [hist EXCEPT ![b] = more] ELSE hist
  BY DEF Abandoned
<1>6. hist' \in [Objects -> [streak : 0..FailureThreshold,
                             quiet : 0..ResetTimeout, leaked : Nat]]
  <2> HIDE DEF more
  <2> QED
    BY <1>4, <1>5 DEF Shape
<1>7. ASSUME Shape', NEW o \in Objects PROVE Implements(o)
  <2>1. CASE o # b
    <3>1. hist'[o] = hist[o]
      BY <1>5, <2>1 DEF Shape
    <3>2. \A q \in Requests : q # r => role'[q] = role[q]
      BY <1>1 DEF Shape
    <3> QED
      BY <1>7, <2>1, <3>1, <3>2, OthersUnmoved DEF Implements
  <2>2. CASE o = b
    <3>1. /\ RoleFor(o)' = [RoleFor(o) EXCEPT ![r] = "idle"]
          /\ RoleFor(o)[r] = role[r]
      BY <1>1, <2>2, NothingIsNoObject DEF RoleFor, Shape
    <3>2. CASE role[r] = "idle"
      <4>1. RoleFor(o)' = RoleFor(o)
        BY <3>1, <3>2 DEF RoleFor
      <4>2. hist' = hist
        BY <1>5, <3>2
      <4> QED
        BY <4>1, <4>2 DEF Implements, B!vars
    <3>3. CASE role[r] # "idle"
      <4>1. /\ hist'[o].streak = hist[o].streak /\ hist'[o].quiet = hist[o].quiet
            /\ hist'[o].leaked = IF role[r] = "trial" THEN hist[o].leaked + 1
                                 ELSE hist[o].leaked
        BY <1>3, <1>5, <2>2 DEF Shape
      <4>2. B(o)!Abandon(r)
        BY <3>1, <3>3, <4>1 DEF B!Abandon
      <4> QED
        BY <4>2 DEF Implements, B!Next, B!Finish
    <3> QED
      BY <3>2, <3>3
  <2> QED
    BY <2>1, <2>2
<1> QED
  BY <1>1, <1>2, <1>6, <1>7

LEMMA HitStep ==
    ASSUME GatewayAssumption, IInv, NEW r \in Requests, Hit(r)
    PROVE  IInv' /\ \A o \in Objects : Implements(o)
<1> USE DEF IInv, app, seen
<1>1. PICK e \in Findable(req[r].client) :
        Become(r, [pc |-> "replaying",
                   client |-> req[r].client, provider |-> req[r].provider,
                   breaker |-> req[r].breaker,
                   caching |-> req[r].caching, hit |-> e])
  BY DEF Hit
<1> DEFINE new == [pc |-> "replaying",
                   client |-> req[r].client, provider |-> req[r].provider,
                   breaker |-> req[r].breaker,
                   caching |-> req[r].caching, hit |-> e]
<1>2. /\ req[r].pc = "looking" /\ req' = [req EXCEPT ![r] = new]
      /\ Abandoned(r)
      /\ UNCHANGED <<current, cache, breaker, blamed, proven>>
  BY <1>1 DEF Hit, Become
<1>3. /\ req[r].client \in Clients /\ req[r].provider \in Objects
      /\ req[r].breaker \in Objects /\ req[r].caching \in BOOLEAN
  BY <1>2 DEF Captured, Shape, Request
<1>4. e = req[r].client /\ e \in Clients /\ e \in proven
  BY <1>3 DEF Findable, Shape, OnlyProvenStored, GatewayAssumption
<1>5. new \in Request /\ new.breaker = req[r].breaker
  BY <1>3, <1>4 DEF Request, Await
<1>6. /\ hist' \in [Objects -> [streak : 0..FailureThreshold,
                                quiet : 0..ResetTimeout, leaked : Nat]]
      /\ role' = [role EXCEPT ![r] = "idle"]
      /\ role' \in [Requests -> B(Nothing)!Role]
      /\ Shape' => \A o \in Objects : Implements(o)
  <2> HIDE DEF new
  <2> QED
    BY <1>2, <1>3, <1>5, AbandonedStep
<1>7. Shape'
  <2> HIDE DEF new
  <2> QED
    BY <1>2, <1>5, <1>6 DEF Shape
<1>8. Captured'
  BY <1>2, <1>3, <1>6 DEF Captured, Shape
<1>9. Blameless' /\ OnlyProvenStored' /\ NeverJudgedByPredecessor'
  BY <1>2 DEF Blameless, OnlyProvenStored, NeverJudgedByPredecessor, Shape
<1>10. HitsStayInPartition'
  BY <1>2, <1>4 DEF HitsStayInPartition, Shape
<1> QED
  BY <1>6, <1>7, <1>8, <1>9, <1>10

LEMMA DisconnectStep ==
    ASSUME GatewayAssumption, IInv, NEW r \in Requests, Disconnect(r)
    PROVE  IInv' /\ \A o \in Objects : Implements(o)
<1> USE DEF IInv, app, seen
<1>1. /\ req[r].pc \notin {"idle", "resolving"}
      /\ req' = [req EXCEPT ![r] = NoRequest] /\ Abandoned(r)
      /\ UNCHANGED <<current, cache, breaker, blamed, proven>>
  BY DEF Disconnect, Done, Become
<1>2. req[r].breaker \in Objects
  BY <1>1 DEF Captured
<1>3. /\ hist' \in [Objects -> [streak : 0..FailureThreshold,
                                quiet : 0..ResetTimeout, leaked : Nat]]
      /\ role' = [role EXCEPT ![r] = "idle"]
      /\ role' \in [Requests -> B(Nothing)!Role]
      /\ Shape' => \A o \in Objects : Implements(o)
  <2>1. NoRequest.breaker = Nothing
    BY DEF NoRequest
  <2> QED
    BY <1>1, <1>2, <2>1, NoRequestType, AbandonedStep
<1>4. Shape'
  BY <1>1, <1>3, NoRequestType DEF Shape
<1>5. Captured'
  BY <1>1, <1>3 DEF Captured, Shape, NoRequest
<1>6. Blameless' /\ OnlyProvenStored' /\ NeverJudgedByPredecessor' /\ HitsStayInPartition'
  BY <1>1 DEF Blameless, OnlyProvenStored, NeverJudgedByPredecessor,
              HitsStayInPartition, Shape, NoRequest
<1> QED
  BY <1>3, <1>4, <1>5, <1>6

-----------------------------------------------------------------------------
(* A recorded result, whichever it is: what Succeed and Fail have in       *)
(* common, with the fields after it as m and the history as h.             *)
LEMMA DecidedStep ==
    ASSUME Shape, Captured, NEW r \in Requests, req[r].pc = "streaming",
           NEW new \in Request, req' = [req EXCEPT ![r] = new],
           new.breaker \in {req[r].breaker, Nothing},
           NEW m \in B(Nothing)!Breaker,
           NEW h \in [streak : 0..FailureThreshold,
                      quiet : 0..ResetTimeout, leaked : Nat],
           breaker' = [breaker EXCEPT ![req[r].breaker] = m],
           hist' = [hist EXCEPT ![req[r].breaker] = h],
           Decided(r)
    PROVE  /\ breaker' \in [Objects -> B(Nothing)!Breaker]
           /\ hist' \in [Objects -> [streak : 0..FailureThreshold,
                                     quiet : 0..ResetTimeout, leaked : Nat]]
           /\ role' \in [Requests -> B(Nothing)!Role]
           /\ \A q \in Requests : role'[q] = "idle" <=> q = r \/ role[q] = "idle"
           /\ Shape' =>
                \A o \in Objects :
                   IF o = req[r].breaker
                   THEN /\ breaker'[o] = m /\ hist'[o] = h
                        /\ B(o)!Leave(r) /\ RoleFor(o)[r] # "idle"
                   ELSE Implements(o)
<1> DEFINE b == req[r].breaker
<1>1. b \in Objects /\ role[r] # "idle"
  BY DEF Captured
<1>2. breaker' \in [Objects -> B(Nothing)!Breaker]
      /\ hist' \in [Objects -> [streak : 0..FailureThreshold,
                                quiet : 0..ResetTimeout, leaked : Nat]]
  BY DEF Shape
<1>3. role' = [q \in Requests |->
                 IF q = r THEN "idle"
                 ELSE IF req[q].breaker = b /\ role[q] = "trial"
                      THEN "late" ELSE role[q]]
  BY DEF Decided
<1>4. role' \in [Requests -> B(Nothing)!Role]
      /\ \A q \in Requests : role'[q] = "idle" <=> q = r \/ role[q] = "idle"
  BY <1>3 DEF Shape, B!Role
<1>5. ASSUME Shape', NEW o \in Objects, o # b PROVE Implements(o)
  <2>1. breaker'[o] = breaker[o] /\ hist'[o] = hist[o]
    BY <1>5 DEF Shape
  <2>2. \A q \in Requests : q # r /\ req[q].breaker # b => role'[q] = role[q]
    BY <1>3
  <2> QED
    BY <1>5, <2>1, <2>2, OthersUnmoved DEF Implements
<1>6. ASSUME Shape', NEW o \in Objects, o = b
      PROVE  /\ breaker'[o] = m /\ hist'[o] = h
             /\ B(o)!Leave(r) /\ RoleFor(o)[r] # "idle"
  <2>1. breaker'[o] = m /\ hist'[o] = h
    BY <1>1, <1>6 DEF Shape
  <2>2. RoleFor(o)[r] # "idle"
    BY <1>1, <1>6 DEF RoleFor
  <2>3. \A q \in Requests : q # r => req'[q] = req[q]
    BY DEF Shape
  <2>4. RoleFor(o)' =
          [q \in Requests |->
             IF q = r THEN "idle"
             ELSE IF RoleFor(o)[q] = "trial" THEN "late" ELSE RoleFor(o)[q]]
    BY <1>3, <1>6, <2>3 DEF RoleFor
  <2> QED
    BY <2>1, <2>2, <2>4 DEF B!Leave
<1> QED
  BY <1>2, <1>4, <1>5, <1>6

LEMMA SucceedStep ==
    ASSUME GatewayAssumption, IInv, NEW r \in Requests, Succeed(r)
    PROVE  IInv' /\ \A o \in Objects : Implements(o)
<1> USE DEF IInv, app, seen
<1> DEFINE b == req[r].breaker
           m == B(b)!AfterSuccess(breaker[b])
           h == [streak |-> 0, quiet |-> hist[b].quiet, leaked |-> 0]
           At(pc) == [req[r] EXCEPT !.pc = pc]
<1>1. /\ req[r].pc = "streaming"
      /\ breaker' = [breaker EXCEPT ![b] = m]
      /\ hist' = [hist EXCEPT ![b] = h]
      /\ Decided(r)
      /\ proven' = proven \cup {req[r].client}
      /\ UNCHANGED <<current, cache, blamed>>
  BY DEF Succeed, Judge
<1>2. PICK new \in {At("reconciling"), At("storing"), NoRequest} :
        req' = [req EXCEPT ![r] = new]
  BY DEF Succeed, StoreNext, Goto, Done, Become
<1>3. /\ b \in Objects /\ req[r].client \in Clients /\ req[r].provider \in Objects
      /\ req[r] \in Request
  BY <1>1 DEF Captured, Shape
<1>4. /\ new \in Request
      /\ new.breaker \in {b, Nothing}
      /\ new = NoRequest \/ ( /\ new.pc \in {"reconciling", "storing"}
                              /\ new.breaker = b
                              /\ new.client = req[r].client
                              /\ new.provider = req[r].provider)
  <2>1. At("reconciling") \in Request /\ At("storing") \in Request
    BY <1>3 DEF Request, Await
  <2>2. /\ At("reconciling").pc = "reconciling" /\ At("storing").pc = "storing"
        /\ \A pc : At(pc).breaker = b /\ At(pc).client = req[r].client
                   /\ At(pc).provider = req[r].provider
    BY <1>3 DEF Request
  <2>3. NoRequest \in Request /\ NoRequest.breaker = Nothing
    BY NoRequestType DEF NoRequest
  <2> HIDE DEF At
  <2> QED
    BY <2>1, <2>2, <2>3
<1>5. m \in B(Nothing)!Breaker /\ m.state = "CLOSED"
  BY <1>3, AfterResultType DEF Shape
<1>6. h \in [streak : 0..FailureThreshold, quiet : 0..ResetTimeout, leaked : Nat]
  BY <1>3 DEF Shape, GatewayAssumption
<1> HIDE DEF m, h, At
<1>7. /\ breaker' \in [Objects -> B(Nothing)!Breaker]
      /\ hist' \in [Objects -> [streak : 0..FailureThreshold,
                                quiet : 0..ResetTimeout, leaked : Nat]]
      /\ role' \in [Requests -> B(Nothing)!Role]
      /\ \A q \in Requests : role'[q] = "idle" <=> q = r \/ role[q] = "idle"
      /\ Shape' =>
           \A o \in Objects :
              IF o = req[r].breaker
              THEN /\ breaker'[o] = m /\ hist'[o] = h
                   /\ B(o)!Leave(r) /\ RoleFor(o)[r] # "idle"
              ELSE Implements(o)
  BY <1>1, <1>2, <1>4, <1>5, <1>6, DecidedStep
<1>8. Shape'
  BY <1>1, <1>2, <1>3, <1>4, <1>7 DEF Shape
<1>9. Captured'
  <2> SUFFICES ASSUME NEW q \in Requests
               PROVE  (/\ role[q] # "idle" <=> req[q].pc \in {"looking", "streaming"}
                       /\ req[q].pc = "idle" => req[q] = NoRequest
                       /\ req[q].pc # "idle" =>
                            req[q].client \in Clients /\ req[q].provider \in Objects
                       /\ req[q].pc = "resolving" =>
                            /\ req[q].breaker = Nothing
                            /\ req[q].provider[2] <= current[req[q].provider[1]]
                       /\ req[q].pc \notin {"idle", "resolving"} =>
                            req[q].breaker \in Objects)'
    BY DEF Captured
  <2>1. CASE q = r
    <3>1. req'[q] = new /\ role'[q] = "idle"
      BY <1>2, <1>7, <2>1 DEF Shape
    <3>2. CASE new = NoRequest
      BY <3>1, <3>2 DEF NoRequest
    <3>3. CASE new # NoRequest
      BY <1>3, <1>4, <3>1, <3>3
    <3> QED
      BY <3>2, <3>3
  <2>2. CASE q # r
    <3>1. req'[q] = req[q] /\ current' = current
          /\ (role'[q] = "idle" <=> role[q] = "idle")
      BY <1>1, <1>2, <1>7, <2>2 DEF Shape
    <3> QED
      BY <3>1 DEF Captured
  <2> QED
    BY <2>1, <2>2
<1>10. Blameless'
  BY <1>1, <1>3, <1>5 DEF Blameless, Shape
<1>11. OnlyProvenStored'
  BY <1>1, <1>2, <1>4 DEF OnlyProvenStored, Shape, NoRequest
<1>12. NeverJudgedByPredecessor' /\ HitsStayInPartition'
  BY <1>1, <1>2, <1>4 DEF NeverJudgedByPredecessor, HitsStayInPartition, Shape, NoRequest
<1>13. ASSUME NEW o \in Objects PROVE Implements(o)
  <2>1. CASE o = b
    <3>1. /\ breaker'[o] = B(o)!AfterSuccess(breaker[o])
          /\ hist'[o].streak = 0 /\ hist'[o].quiet = hist[o].quiet
          /\ hist'[o].leaked = 0
      BY <1>7, <1>8, <2>1 DEF m, h
    <3>2. B(o)!RecordSuccess(r)
      BY <1>7, <1>8, <2>1, <3>1 DEF B!RecordSuccess
    <3> QED
      BY <3>2 DEF Implements, B!Next, B!Finish
  <2> QED
    BY <1>7, <1>8, <2>1
<1> QED
  BY <1>8, <1>9, <1>10, <1>11, <1>12, <1>13

LEMMA FailStep ==
    ASSUME GatewayAssumption, IInv, NEW r \in Requests, Fail(r)
    PROVE  IInv' /\ \A o \in Objects : Implements(o)
<1> USE DEF IInv, app, seen
<1> DEFINE b == req[r].breaker
           m == B(b)!AfterFailure(breaker[b])
           h == [streak |-> IF hist[b].streak < FailureThreshold
                            THEN hist[b].streak + 1 ELSE hist[b].streak,
                 quiet |-> 0, leaked |-> 0]
<1>1. /\ req[r].pc = "streaming" /\ req' = [req EXCEPT ![r] = NoRequest]
      /\ breaker' = [breaker EXCEPT ![b] = m]
      /\ hist' = [hist EXCEPT ![b] = h]
      /\ Decided(r)
      /\ blamed' = blamed \cup {req[r].provider[1]}
      /\ UNCHANGED <<current, cache, proven>>
  BY DEF Fail, Failed, Judge, Done, Become
<1>2. b \in Objects /\ req[r].provider \in Objects
  BY <1>1 DEF Captured
<1>3. b[1] = req[r].provider[1] /\ req[r].provider[1] \in Providers
  BY <1>2, NothingIsNoObject DEF NeverJudgedByPredecessor, Objects
<1>4. m \in B(Nothing)!Breaker
  BY <1>2, AfterResultType DEF Shape
<1>5. h \in [streak : 0..FailureThreshold, quiet : 0..ResetTimeout, leaked : Nat]
  <2>1. hist[b].streak \in 0..FailureThreshold
    BY <1>2 DEF Shape
  <2> QED
    BY <2>1 DEF GatewayAssumption
<1>6. NoRequest.breaker = Nothing
  BY DEF NoRequest
<1> HIDE DEF m, h
<1>7. /\ breaker' \in [Objects -> B(Nothing)!Breaker]
      /\ hist' \in [Objects -> [streak : 0..FailureThreshold,
                                quiet : 0..ResetTimeout, leaked : Nat]]
      /\ role' \in [Requests -> B(Nothing)!Role]
      /\ \A q \in Requests : role'[q] = "idle" <=> q = r \/ role[q] = "idle"
      /\ Shape' =>
           \A o \in Objects :
              IF o = req[r].breaker
              THEN /\ breaker'[o] = m /\ hist'[o] = h
                   /\ B(o)!Leave(r) /\ RoleFor(o)[r] # "idle"
              ELSE Implements(o)
  BY <1>1, <1>2, <1>4, <1>5, <1>6, NoRequestType, DecidedStep
<1>8. Shape'
  BY <1>1, <1>3, <1>7, NoRequestType DEF Shape
<1>9. Captured'
  BY <1>1, <1>7 DEF Captured, Shape, NoRequest
<1>10. Blameless'
  BY <1>1, <1>2, <1>3 DEF Blameless, Shape
<1>11. OnlyProvenStored' /\ NeverJudgedByPredecessor' /\ HitsStayInPartition'
  BY <1>1 DEF OnlyProvenStored, NeverJudgedByPredecessor, HitsStayInPartition,
              Shape, NoRequest
<1>12. ASSUME NEW o \in Objects PROVE Implements(o)
  <2>1. CASE o = b
    <3>1. /\ breaker'[o] = B(o)!AfterFailure(breaker[o])
          /\ hist'[o].streak = IF hist[o].streak < FailureThreshold
                               THEN hist[o].streak + 1 ELSE hist[o].streak
          /\ hist'[o].quiet = 0 /\ hist'[o].leaked = 0
      BY <1>7, <1>8, <2>1 DEF m, h
    <3>2. B(o)!RecordFailure(r)
      BY <1>7, <1>8, <2>1, <3>1 DEF B!RecordFailure
    <3> QED
      BY <3>2 DEF Implements, B!Next, B!Finish
  <2> QED
    BY <1>7, <1>8, <2>1
<1> QED
  BY <1>8, <1>9, <1>10, <1>11, <1>12

-----------------------------------------------------------------------------
(* The steps of the application and of time.                               *)

LEMMA RegisterStep ==
    ASSUME GatewayAssumption, IInv, NEW p \in Registrable, Register(p)
    PROVE  IInv' /\ \A o \in Objects : UNCHANGED B(o)!vars
<1> USE DEF IInv, seen
<1>1. /\ p \in Providers /\ current[p] < MaxGenerations
      /\ current' = [current EXCEPT ![p] = current[p] + 1]
      /\ UNCHANGED <<breaker, hist, role, req, cache, blamed, proven>>
  BY DEF Register, GatewayAssumption
<1>2. current[p] + 1 \in Generation
  BY <1>1 DEF Shape, Generation, GatewayAssumption
<1>3. Shape'
  BY <1>1, <1>2 DEF Shape
<1>4. Captured'
  BY <1>1 DEF Captured, Shape, Generation, Objects, GatewayAssumption
<1>5. Blameless' /\ OnlyProvenStored' /\ NeverJudgedByPredecessor' /\ HitsStayInPartition'
  BY <1>1 DEF Blameless, OnlyProvenStored, NeverJudgedByPredecessor, HitsStayInPartition
<1>6. \A o \in Objects : UNCHANGED B(o)!vars
  BY <1>1 DEF B!vars, RoleFor
<1> QED
  BY <1>3, <1>4, <1>5, <1>6

LEMMA ExpireStep ==
    ASSUME IInv, Expire
    PROVE  IInv' /\ \A o \in Objects : UNCHANGED B(o)!vars
<1> USE DEF IInv, seen
<1>1. /\ cache' \subseteq cache
      /\ UNCHANGED <<current, breaker, hist, role, req, blamed, proven>>
  BY DEF Expire
<1>2. Shape' /\ Captured' /\ Blameless'
  BY <1>1 DEF Shape, Captured, Blameless
<1>3. OnlyProvenStored' /\ NeverJudgedByPredecessor' /\ HitsStayInPartition'
  BY <1>1 DEF OnlyProvenStored, NeverJudgedByPredecessor, HitsStayInPartition
<1>4. \A o \in Objects : UNCHANGED B(o)!vars
  BY <1>1 DEF B!vars, RoleFor
<1> QED
  BY <1>2, <1>3, <1>4

(* Time passes for every breaker object at once.                           *)
LEMMA TickStep ==
    ASSUME GatewayAssumption, IInv, Tick
    PROVE  IInv' /\ \A o \in Objects : Implements(o)
<1> USE DEF IInv, app, seen
<1> DEFINE Later(o) == [streak |-> hist[o].streak, leaked |-> hist[o].leaked,
                        quiet |-> IF hist[o].quiet < ResetTimeout
                                  THEN hist[o].quiet + 1 ELSE hist[o].quiet]
<1>1. /\ breaker' = [o \in Objects |-> Aged(breaker[o])]
      /\ hist' = [o \in Objects |-> Later(o)]
      /\ UNCHANGED <<current, cache, role, req, blamed, proven>>
  BY DEF Tick
<1>2. ASSUME NEW x \in B(Nothing)!Breaker
      PROVE  Aged(x) \in B(Nothing)!Breaker /\ Aged(x).state = x.state
  BY <1>2 DEF Aged, B!Breaker, GatewayAssumption
<1>3. ASSUME NEW o \in Objects
      PROVE  Later(o) \in [streak : 0..FailureThreshold,
                           quiet : 0..ResetTimeout, leaked : Nat]
  <2>1. hist[o] \in [streak : 0..FailureThreshold, quiet : 0..ResetTimeout, leaked : Nat]
    BY DEF Shape
  <2>2. IF hist[o].quiet < ResetTimeout
        THEN hist[o].quiet + 1 \in 0..ResetTimeout
        ELSE hist[o].quiet \in 0..ResetTimeout
    BY <2>1 DEF GatewayAssumption
  <2> QED
    BY <2>1, <2>2
<1> HIDE DEF Later
<1>4. Shape'
  BY <1>1, <1>2, <1>3 DEF Shape
<1>5. Captured' /\ OnlyProvenStored' /\ NeverJudgedByPredecessor' /\ HitsStayInPartition'
  BY <1>1 DEF Captured, OnlyProvenStored, NeverJudgedByPredecessor, HitsStayInPartition
<1>6. Blameless'
  BY <1>1, <1>2 DEF Blameless, Shape
<1>7. ASSUME NEW o \in Objects PROVE Implements(o)
  <2>1. RoleFor(o)' = RoleFor(o)
    BY <1>1 DEF RoleFor
  <2>2. /\ breaker'[o] = Aged(breaker[o])
        /\ hist'[o].streak = hist[o].streak /\ hist'[o].leaked = hist[o].leaked
        /\ hist'[o].quiet = IF hist[o].quiet < ResetTimeout
                            THEN hist[o].quiet + 1 ELSE hist[o].quiet
    BY <1>1 DEF Later
  <2>3. CASE hist[o].quiet < ResetTimeout
              \/ (breaker[o].state = "OPEN" /\ breaker[o].age < ResetTimeout)
    <3>1. B(o)!Tick
      BY <2>1, <2>2, <2>3 DEF B!Tick, Aged
    <3> QED
      BY <3>1 DEF Implements, B!Next
  <2>4. CASE ~(hist[o].quiet < ResetTimeout
                \/ (breaker[o].state = "OPEN" /\ breaker[o].age < ResetTimeout))
    BY <2>1, <2>2, <2>4 DEF Aged, Implements, B!vars
  <2> QED
    BY <2>3, <2>4
<1> QED
  BY <1>4, <1>5, <1>6, <1>7

-----------------------------------------------------------------------------
LEMMA StepIInv ==
    ASSUME GatewayAssumption, IInv, [Next]_vars
    PROVE  IInv' /\ \A o \in Objects : Implements(o)
<1>1. CASE UNCHANGED vars
  <2>1. IInv'
    BY <1>1 DEF vars, IInv, Shape, Captured, Blameless, OnlyProvenStored,
                NeverJudgedByPredecessor, HitsStayInPartition
  <2>2. \A o \in Objects : UNCHANGED B(o)!vars
    BY <1>1 DEF vars, B!vars, RoleFor
  <2> QED
    BY <2>1, <2>2 DEF Implements
<1>2. ASSUME NEW r \in Requests, Step(r)
      PROVE  IInv' /\ \A o \in Objects : Implements(o)
  <2>1. CASE Arrive(r)
    BY <2>1, ArriveStep DEF Implements
  <2>2. CASE Bind(r)
    BY <2>2, BindStep DEF Implements
  <2>3. CASE Guard(r)
    <3>1. CASE Goto(r, "checking")
      BY <2>3, <3>1, GotoStep DEF Guard, app, seen, Await, Implements
    <3>2. CASE Done(r)
      <4>1. cache' \subseteq proven
        BY <2>3 DEF Guard, app, IInv, OnlyProvenStored
      <4> QED
        BY <2>3, <3>2, <4>1, DoneStep DEF Guard, app, seen, Implements
    <3> QED
      BY <2>3, <3>1, <3>2 DEF Guard
  <2>4. CASE Limited(r)
    <3>1. cache' \subseteq proven
      BY <2>4 DEF Limited, app, IInv, OnlyProvenStored
    <3> QED
      BY <2>4, <3>1, DoneStep DEF Limited, app, seen, Implements
  <2>5. CASE Refuse(r)
    BY <2>5, RefuseStep
  <2>6. CASE Admit(r)
    BY <2>6, AdmitStep
  <2>7. CASE Hit(r)
    BY <2>7, HitStep
  <2>8. CASE Miss(r)
    BY <2>8, GotoStep DEF Miss, app, seen, Await, Implements
  <2>9. CASE Replayed(r)
    <3>1. cache' \subseteq proven
      BY <2>9 DEF Replayed, app, IInv, OnlyProvenStored
    <3> QED
      BY <2>9, <3>1, DoneStep DEF Replayed, app, seen, Implements
  <2>10. CASE Succeed(r)
    BY <2>10, SucceedStep
  <2>11. CASE Fail(r)
    BY <2>11, FailStep
  <2>12. CASE Reconcile(r)
    <3>1. cache' \subseteq proven
      BY <2>12 DEF Reconcile, app, IInv, OnlyProvenStored
    <3>2. CASE Goto(r, "storing")
      BY <2>12, <3>2, GotoStep DEF Reconcile, app, seen, Await, Implements
    <3>3. CASE Done(r)
      BY <2>12, <3>1, <3>3, DoneStep DEF Reconcile, app, seen, Implements
    <3> QED
      BY <2>12, <3>2, <3>3 DEF Reconcile, StoreNext
  <2>13. CASE Store(r)
    <3>1. cache' \subseteq proven
      BY <2>13 DEF Store, IInv, OnlyProvenStored
    <3> QED
      BY <2>13, <3>1, DoneStep DEF Store, seen, Implements
  <2>14. CASE Disconnect(r)
    BY <2>14, DisconnectStep
  <2> QED
    BY <1>2, <2>1, <2>2, <2>3, <2>4, <2>5, <2>6, <2>7, <2>8, <2>9, <2>10,
       <2>11, <2>12, <2>13, <2>14 DEF Step
<1>3. ASSUME NEW p \in Registrable, Register(p)
      PROVE  IInv' /\ \A o \in Objects : Implements(o)
  BY <1>3, RegisterStep DEF Implements
<1>4. CASE Expire
  BY <1>4, ExpireStep DEF Implements
<1>5. CASE Tick
  BY <1>5, TickStep
<1> QED
  BY <1>1, <1>2, <1>3, <1>4, <1>5 DEF Next

(* IInv holds throughout, for any constants.                               *)
THEOREM Inductive ==
    ASSUME GatewayAssumption PROVE Spec => []IInv
<1>1. Init => IInv
  BY InitIInv
<1>2. IInv /\ [Next]_vars => IInv'
  BY StepIInv
<1> QED
  BY <1>1, <1>2, PTL DEF Spec

(* Whatever is registered, however requests of many providers interleave,  *)
(* each breaker object runs as the CircuitBreaker module says.             *)
THEOREM BreakersImplement ==
    ASSUME GatewayAssumption PROVE Spec => EachBreakerImplements
<1>1. Init => \A o \in Objects : B(o)!Init
  BY InitImplements
<1>2. IInv /\ [Next]_vars
        => [\A o \in Objects : UNCHANGED B(o)!vars \/ B(o)!Next]_vars
  BY StepIInv DEF Implements
<1> QED
  BY <1>1, <1>2, Inductive, PTL DEF Spec, EachBreakerImplements

(* A provider registered anew is never judged by its predecessor's breaker. *)
THEOREM NoPredecessorsBreaker ==
    ASSUME GatewayAssumption PROVE Spec => []NeverJudgedByPredecessor
<1>1. IInv => NeverJudgedByPredecessor
  BY DEF IInv
<1> QED
  BY <1>1, Inductive, PTL

(* No request is refused a provider no failure was ever recorded for.      *)
THEOREM OutagesAreLocal ==
    ASSUME GatewayAssumption PROVE Spec => []OutagesStayLocal
<1>1. IInv => OutagesStayLocal
  <2> SUFFICES ASSUME IInv, NEW r \in Requests,
                      req[r].pc = "checking", req[r].provider[1] \notin blamed
               PROVE  MayPass(req[r].breaker)
    BY DEF OutagesStayLocal
  <2>1. /\ req[r].breaker \in Objects
        /\ req[r].breaker[1] \notin blamed
    BY NothingIsNoObject DEF IInv, Captured, NeverJudgedByPredecessor
  <2>2. /\ breaker[req[r].breaker] \in B(Nothing)!Breaker
        /\ breaker[req[r].breaker].state = "CLOSED"
    BY <2>1 DEF IInv, Shape, Blameless
  <2> QED
    BY <2>1, <2>2, AfterAllowType DEF MayPass
<1> QED
  BY <1>1, Inductive, PTL

(* A replayed answer was stored for the same tenant and model, after a     *)
(* stream that finished cleanly.                                           *)
THEOREM HitsArePartitioned ==
    ASSUME GatewayAssumption PROVE Spec => []HitsStayInPartition
<1>1. IInv => HitsStayInPartition
  BY DEF IInv
<1> QED
  BY <1>1, Inductive, PTL

-----------------------------------------------------------------------------
(* app.py leaves every breaker a single trial slot.  It is free, or held   *)
(* by one request, or was leaked by one: never two of these.  This is      *)
(* CircuitBreaker's SlotAccounting for one slot, and it is shown of every  *)
(* object from the step of CircuitBreaker it makes.                        *)
OneSlot(o) ==
    /\ breaker[o].state # "HALF_OPEN" => breaker[o].halfOpenCalls = 0
    /\ breaker[o].halfOpenCalls = 0 => B(o)!Trials = {} /\ hist[o].leaked = 0
    /\ breaker[o].halfOpenCalls = 1 =>
          \/ hist[o].leaked = 1 /\ B(o)!Trials = {}
          \/ hist[o].leaked = 0 /\ \E r \in Requests : B(o)!Trials = {r}

LEMMA AdmitSlot ==
    ASSUME GatewayAssumption, Shape, NEW o \in Objects, OneSlot(o),
           NEW r \in Requests, B(o)!Admit(r)
    PROVE  OneSlot(o)'
<1> DEFINE b == breaker[o]
           cur == B(o)!CurrentState(b)
<1>1. /\ b \in B(Nothing)!Breaker
      /\ hist'[o].leaked = hist[o].leaked
      /\ breaker'[o] = B(o)!AfterAllow(b) /\ B(o)!Admits(b)
      /\ RoleFor(o)[r] = "idle"
  BY DEF B!Admit, Shape
<1>2. CASE b.state = "CLOSED"
  <2>1. breaker'[o] = b
    BY <1>1, <1>2, AfterAllowType
  <2>2. RoleFor(o)' = [RoleFor(o) EXCEPT ![r] = "regular"]
    BY <1>2, <2>1 DEF B!Admit
  <2>3. B(o)!Trials' = B(o)!Trials
    BY <1>1, <2>2 DEF B!Trials, RoleFor
  <2> QED BY <1>1, <2>1, <2>3 DEF OneSlot
<1>3. CASE b.state # "CLOSED"
  <2>1. cur.state = "HALF_OPEN" /\ cur.halfOpenCalls = 0
    BY <1>1, <1>3 DEF B!Admits, B!CurrentState, B!Breaker, B!CircuitState, B!HalfOpened
  <2>2. b.halfOpenCalls = 0
    BY <1>3, <2>1 DEF B!CurrentState, B!HalfOpened, OneSlot
  <2>3. breaker'[o] = [cur EXCEPT !.halfOpenCalls = @ + 1]
    BY <1>1, <2>1 DEF B!AfterAllow
  <2>4. cur \in B(Nothing)!Breaker
    BY <1>1, GatewayAssumption DEF B!CurrentState, B!HalfOpened, B!Breaker, B!CircuitState
  <2> HIDE DEF cur, b
  <2>5. breaker'[o].state = "HALF_OPEN" /\ breaker'[o].halfOpenCalls = 1
    BY <2>1, <2>3, <2>4 DEF B!Breaker
  <2>6. RoleFor(o)' = [RoleFor(o) EXCEPT ![r] = "trial"]
    BY <2>5 DEF B!Admit
  <2>7. B(o)!Trials = {} /\ hist[o].leaked = 0
    BY <2>2 DEF OneSlot, b
  <2>8. B(o)!Trials' = {r}
    BY <2>6, <2>7 DEF B!Trials, RoleFor
  <2> QED BY <1>1, <2>5, <2>7, <2>8 DEF OneSlot
<1> QED BY <1>2, <1>3

(* A refusal is no reset: had the lazy transition freed the slot, the      *)
(* request would have been let in.                                         *)
LEMMA RejectSlot ==
    ASSUME GatewayAssumption, Shape, NEW o \in Objects, OneSlot(o),
           NEW r \in Requests, B(o)!Reject(r)
    PROVE  OneSlot(o)'
<1>1. breaker[o] \in B(Nothing)!Breaker
  BY DEF Shape
<1>2. breaker'[o] = breaker[o]
  BY <1>1 DEF B!Reject, B!AfterAllow, B!Admits, B!CurrentState, B!HalfOpened
<1>3. hist'[o].leaked = hist[o].leaked /\ RoleFor(o)' = RoleFor(o)
  BY DEF B!Reject
<1>4. B(o)!Trials' = B(o)!Trials
  BY <1>3 DEF B!Trials
<1> QED BY <1>2, <1>3, <1>4 DEF OneSlot

(* A result empties the slot, whoever held or leaked it.                   *)
LEMMA RecordSlot ==
    ASSUME GatewayAssumption, Shape, NEW o \in Objects, OneSlot(o),
           NEW r \in Requests, B(o)!RecordSuccess(r) \/ B(o)!RecordFailure(r)
    PROVE  OneSlot(o)'
<1>1. breaker[o] \in B(Nothing)!Breaker
  BY DEF Shape
<1>2. B(o)!Trials' = {} /\ hist'[o].leaked = 0
  BY DEF B!RecordSuccess, B!RecordFailure, B!Leave, B!Trials
<1>3. breaker'[o].state # "HALF_OPEN" /\ breaker'[o].halfOpenCalls = 0
  <2>1. CASE B(o)!RecordSuccess(r)
    BY <2>1 DEF B!RecordSuccess, B!AfterSuccess, B!NewBreaker
  <2>2. CASE B(o)!RecordFailure(r)
    <3>1. breaker'[o] = B(o)!AfterFailure(breaker[o])
      BY <2>2 DEF B!RecordFailure
    <3> DEFINE cur == B(o)!CurrentState(breaker[o])
    <3>2. cur \in B(Nothing)!Breaker /\ (cur.state # "HALF_OPEN" => cur.halfOpenCalls = 0)
      BY <1>1, GatewayAssumption
      DEF B!CurrentState, B!HalfOpened, B!Breaker, B!CircuitState, OneSlot
    <3>3. breaker'[o] = B(o)!Tripped
          \/ (cur.state # "HALF_OPEN" /\ breaker'[o] = [cur EXCEPT !.failureCount = @ + 1])
      BY <3>1 DEF B!AfterFailure
    <3> HIDE DEF cur
    <3> QED BY <3>2, <3>3 DEF B!Tripped, B!Breaker
  <2> QED BY <2>1, <2>2
<1> QED BY <1>2, <1>3 DEF OneSlot

(* A holder that leaves without a result leaks the slot it alone held.     *)
LEMMA AbandonSlot ==
    ASSUME GatewayAssumption, Shape, NEW o \in Objects, OneSlot(o),
           NEW r \in Requests, B(o)!Abandon(r)
    PROVE  OneSlot(o)'
<1>1. /\ breaker'[o] = breaker[o]
      /\ RoleFor(o)' = [RoleFor(o) EXCEPT ![r] = "idle"]
      /\ hist'[o].leaked = IF RoleFor(o)[r] = "trial" THEN hist[o].leaked + 1
                           ELSE hist[o].leaked
      /\ breaker[o] \in B(Nothing)!Breaker
  BY DEF B!Abandon, Shape
<1>2. CASE RoleFor(o)[r] = "trial"
  <2>1. r \in B(o)!Trials /\ B(o)!Trials' = B(o)!Trials \ {r}
    BY <1>1, <1>2 DEF B!Trials, RoleFor
  <2>2. /\ breaker[o].halfOpenCalls = 1 /\ hist[o].leaked = 0
        /\ B(o)!Trials = {r}
    BY <1>1, <2>1 DEF OneSlot, B!Breaker
  <2>3. breaker[o].state = "HALF_OPEN"
    BY <2>2 DEF OneSlot
  <2> QED BY <1>1, <1>2, <2>1, <2>2, <2>3 DEF OneSlot
<1>3. CASE RoleFor(o)[r] # "trial"
  <2>1. B(o)!Trials' = B(o)!Trials
    BY <1>1, <1>3 DEF B!Trials, RoleFor
  <2> QED BY <1>1, <1>3, <2>1 DEF OneSlot
<1> QED BY <1>2, <1>3

LEMMA SlotStep ==
    ASSUME GatewayAssumption, Shape, NEW o \in Objects, OneSlot(o), Implements(o)
    PROVE  OneSlot(o)'
<1>1. CASE UNCHANGED B(o)!vars
  <2>1. /\ breaker'[o] = breaker[o] /\ hist'[o].leaked = hist[o].leaked
        /\ B(o)!Trials' = B(o)!Trials
    BY <1>1 DEF B!vars, B!Trials
  <2> QED BY <2>1 DEF OneSlot
<1>2. CASE B(o)!Tick
  <2>1. breaker[o] \in B(Nothing)!Breaker
    BY DEF Shape
  <2>2. /\ breaker'[o].state = breaker[o].state
        /\ breaker'[o].halfOpenCalls = breaker[o].halfOpenCalls
        /\ hist'[o].leaked = hist[o].leaked /\ RoleFor(o)' = RoleFor(o)
    BY <1>2, <2>1 DEF B!Tick, B!Breaker
  <2>3. B(o)!Trials' = B(o)!Trials
    BY <2>2 DEF B!Trials
  <2> QED BY <2>2, <2>3 DEF OneSlot
<1>3. ASSUME NEW r \in Requests, B(o)!Admit(r) \/ B(o)!Reject(r) \/ B(o)!Finish(r)
      PROVE  OneSlot(o)'
  BY <1>3, AdmitSlot, RejectSlot, RecordSlot, AbandonSlot DEF B!Finish
<1> QED BY <1>1, <1>2, <1>3 DEF Implements, B!Next

(* The variables keep their types, and no breaker object ever leaks a      *)
(* second slot.                                                            *)
THEOREM TypeCorrect == ASSUME GatewayAssumption PROVE Spec => []TypeOK
<1> DEFINE Slots == \A o \in Objects : OneSlot(o)
<1>1. Init => Slots
  <2> SUFFICES ASSUME Init, NEW o \in Objects PROVE OneSlot(o)
    OBVIOUS
  <2>1. B(o)!Init
    BY InitImplements
  <2>2. B(o)!Trials = {}
    BY <2>1 DEF B!Init, B!Trials
  <2> QED BY <2>1, <2>2 DEF B!Init, B!NewBreaker, OneSlot
<1>2. IInv /\ Slots /\ [Next]_vars => Slots'
  <2> SUFFICES ASSUME IInv, Slots, [Next]_vars, NEW o \in Objects PROVE OneSlot(o)'
    OBVIOUS
  <2>1. Implements(o)
    BY StepIInv
  <2> QED BY <2>1, SlotStep DEF IInv
<1>3. IInv /\ Slots => TypeOK
  <2> SUFFICES ASSUME Shape, Slots
               PROVE  hist \in [Objects -> [streak : 0..FailureThreshold,
                                            quiet : 0..ResetTimeout, leaked : 0..1]]
    BY DEF IInv, Shape, TypeOK
  <2>1. ASSUME NEW o \in Objects PROVE hist[o].leaked \in 0..1
    <3>1. breaker[o].halfOpenCalls \in {0, 1}
      BY DEF Shape, B!Breaker
    <3> QED BY <3>1 DEF OneSlot
  <2> QED BY <2>1 DEF Shape
<1> QED BY <1>1, <1>2, <1>3, Inductive, PTL DEF Spec

=============================================================================
