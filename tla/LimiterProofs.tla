--------------------------- MODULE LimiterProofs ----------------------------
(***************************************************************************)
(* What the limiter guarantees for any number of requests, workers and     *)
(* restarts, and what that means for authentication.  BudgetCap bounds     *)
(* each window's hash under any delay and any clock skew, and              *)
(* WeightedLoadBounded the sliding measure while there are none; the step  *)
(* that needs an argument in both is the script admitting a request, where *)
(* the previous window's weight is a product.  With commands late by no    *)
(* more than the clocks allow, LateInv and OnTimeInv carry what a window's *)
(* hash knows of the requests it admitted, and with them go                *)
(* WeighedCountsIntact and SlidingLoadBounded.                             *)
(*                                                                         *)
(* The failed-attempt budget is a RateLimiter: forgetting the attempts,    *)
(* every step of verify_api_key() is a step of the limiter or none.  So    *)
(* what is shown of the limiter holds of it too, and adds up to this: a    *)
(* configured key is never locked out, and a source only by its failures.  *)
(***************************************************************************)
EXTENDS Auth, FoldTheorems, TLAPS

-----------------------------------------------------------------------------
(* Arithmetic of windows.                                                  *)

(* A timestamp lies in a window, some way into it.                         *)
LEMMA WindowOfStamp ==
    ASSUME LimiterAssumption, NEW t \in Stamps
    PROVE  /\ WindowId(t) \in WindowIds
           /\ WindowId(t) \in Nat
           /\ Elapsed(t) \in 0..(Window - 1)
<1>1. MaxTime + ClockSkew \in Nat /\ Window \in Nat /\ Window > 0
  BY DEF LimiterAssumption
<1>2. t \in Nat /\ t <= MaxTime + ClockSkew
  BY <1>1 DEF Stamps
<1>3. t \div Window \in Nat
  BY <1>1, <1>2
<1>4. (MaxTime + ClockSkew) \div Window \in Nat
  BY <1>1
<1>5. t \div Window <= (MaxTime + ClockSkew) \div Window
  BY <1>1, <1>2
<1>6. t % Window \in 0..(Window - 1)
  BY <1>1, <1>2
<1> QED
  BY <1>3, <1>4, <1>5, <1>6 DEF WindowId, WindowIds, Elapsed

(* The next tick is in the same window, or opens the next one.             *)
LEMMA NextTick ==
    ASSUME LimiterAssumption, NEW t \in Nat
    PROVE  \/ WindowId(t + 1) = WindowId(t) /\ Elapsed(t + 1) = Elapsed(t) + 1
           \/ WindowId(t + 1) = WindowId(t) + 1 /\ Elapsed(t + 1) = 0
<1>1. Window \in Nat /\ Window > 0
  BY DEF LimiterAssumption
<1> QED
  BY <1>1 DEF WindowId, Elapsed

(* The weight k of a previous count p is between 1 and W.  A count c that  *)
(* passed the script's comparison is at most the limit, give or take the q *)
(* by which p may be negative.                                             *)
LEMMA WeightedComparison ==
    ASSUME NEW p \in Int, NEW q \in Nat, NEW c \in Int, NEW limit \in Nat,
           NEW W \in Nat \ {0}, NEW k \in 1..W,
           -q <= p, p * k + c * W <= limit * W
    PROVE  c <= limit + q
<1>1. (-q) * k <= p * k
  OBVIOUS
<1>2. (-q) * W <= (-q) * k
  OBVIOUS
<1>3. c * W <= (limit + q) * W
  BY <1>1, <1>2
<1>4. ASSUME c >= limit + q + 1 PROVE FALSE
  <2>1. c * W >= (limit + q + 1) * W
    BY <1>4
  <2> QED
    BY <2>1, <1>3
<1> QED
  BY <1>4

-----------------------------------------------------------------------------
(* Types.                                                                  *)

LEMMA InitTypeOK == LimiterAssumption /\ Init => TypeOK
<1> SUFFICES ASSUME LimiterAssumption, Init PROVE TypeOK
  OBVIOUS
<1>1. /\ now \in 0..MaxTime
      /\ restarts \in 0..MaxRestarts
      /\ tokens \in PerWindow(Int)
      /\ requests \in PerWindow(Nat)
      /\ expires \in PerWindow(Nat)
      /\ overrun \in PerWindow(Nat)
      /\ refund \in PerWindow(Nat)
      /\ admitted \in [Stamps -> Nat]
  BY DEF LimiterAssumption, Init, PerWindow
<1>2. /\ call \in [Requests -> [pc : {"idle", "check", "admitted", "reconcile"},
                                stamp : Stamps, tokens : Int]]
      /\ \A r \in Requests : call[r].pc # "reconcile" => call[r].tokens >= 0
  BY DEF LimiterAssumption, Init, Idle, Stamps
<1>3. /\ loaded \in BOOLEAN
      /\ sha \in [Workers -> BOOLEAN]
      /\ raised \in [Workers -> BOOLEAN]
      /\ prompt \in BOOLEAN
  BY DEF Init
<1> QED
  BY <1>1, <1>2, <1>3 DEF TypeOK

(* The hash a call in flight writes to exists, and writing to it keeps the *)
(* counters numbers.                                                       *)
LEMMA WriteType ==
    ASSUME LimiterAssumption, TypeOK, NEW r \in Requests,
           NEW d \in Int, NEW n \in Nat, Write(call[r].stamp, d, n)
    PROVE  /\ tokens' \in PerWindow(Int)
           /\ requests' \in PerWindow(Nat)
           /\ expires' \in PerWindow(Nat)
<1>1. WindowId(call[r].stamp) \in WindowIds
  BY WindowOfStamp DEF TypeOK
<1> QED
  BY <1>1 DEF Write, TypeOK, PerWindow, LimiterAssumption

LEMMA NextTypeOK == LimiterAssumption /\ TypeOK /\ [Next]_vars => TypeOK'
<1> SUFFICES ASSUME LimiterAssumption, TypeOK, [Next]_vars PROVE TypeOK'
  OBVIOUS
<1> USE DEF TypeOK, redis, history, InFlight
<1>1. CASE Tick
  BY <1>1 DEF Tick, PerWindow, LimiterAssumption
<1>2. CASE Restart
  <2>1. /\ tokens' \in PerWindow(Int)
        /\ requests' \in PerWindow(Nat)
        /\ expires' \in PerWindow(Nat)
    BY <1>2 DEF Restart, PerWindow
  <2>2. loaded' \in BOOLEAN
    BY <1>2 DEF Restart
  <2>3. restarts' \in 0..MaxRestarts
    BY <1>2 DEF Restart, LimiterAssumption
  <2> QED
    BY <1>2, <2>1, <2>2, <2>3 DEF Restart
<1>3. ASSUME NEW k \in Workers, LoadScript(k) PROVE TypeOK'
  BY <1>3 DEF LoadScript
<1>4. ASSUME NEW r \in Requests, SendCheck(r) PROVE TypeOK'
  BY <1>4 DEF SendCheck, Stamps, LimiterAssumption
<1>5. ASSUME NEW r \in Requests, AdmitCheck(r) PROVE TypeOK'
  <2>1. /\ tokens' \in PerWindow(Int)
        /\ requests' \in PerWindow(Nat)
        /\ expires' \in PerWindow(Nat)
    BY <1>5, WriteType DEF AdmitCheck
  <2>2. call' \in [Requests -> [pc : {"idle", "check", "admitted", "reconcile"},
                                stamp : Stamps, tokens : Int]]
    BY <1>5 DEF AdmitCheck, Stamps, LimiterAssumption
  <2>3. \A q \in Requests : call'[q].pc # "reconcile" => call'[q].tokens >= 0
    BY <1>5 DEF AdmitCheck
  <2>4. /\ admitted' \in [Stamps -> Nat]
        /\ raised' \in [Workers -> BOOLEAN]
    BY <1>5 DEF AdmitCheck
  <2>5. prompt' \in BOOLEAN
    BY <1>5 DEF AdmitCheck
  <2> QED
    BY <1>5, <2>1, <2>2, <2>3, <2>4, <2>5 DEF AdmitCheck
<1>6. ASSUME NEW r \in Requests, RejectCheck(r) PROVE TypeOK'
  BY <1>6 DEF RejectCheck, Idle, Stamps, LimiterAssumption
<1>7. ASSUME NEW r \in Requests, SendReconcile(r) PROVE TypeOK'
  BY <1>7 DEF SendReconcile, Stamps, LimiterAssumption
<1>8. ASSUME NEW r \in Requests, Reconcile(r) PROVE TypeOK'
  <2>1. /\ tokens' \in PerWindow(Int)
        /\ requests' \in PerWindow(Nat)
        /\ expires' \in PerWindow(Nat)
    BY <1>8, WriteType DEF Reconcile
  <2>2. /\ call' \in [Requests -> [pc : {"idle", "check", "admitted", "reconcile"},
                                   stamp : Stamps, tokens : Int]]
        /\ \A q \in Requests : call'[q].pc # "reconcile" => call'[q].tokens >= 0
    BY <1>8 DEF Reconcile, Idle, Stamps, LimiterAssumption
  <2>3. call[r].tokens \in Int /\ WindowId(call[r].stamp) \in WindowIds
    BY WindowOfStamp
  <2>4. overrun' \in PerWindow(Nat) /\ refund' \in PerWindow(Nat)
    BY <1>8, <2>3 DEF Reconcile, PerWindow
  <2>5. raised' \in [Workers -> BOOLEAN]
    BY <1>8 DEF Reconcile
  <2> QED
    BY <1>8, <2>1, <2>2, <2>4, <2>5 DEF Reconcile
<1>9. ASSUME NEW r \in Requests, NoScript(r) PROVE TypeOK'
  BY <1>9 DEF NoScript, Idle, Stamps, LimiterAssumption
<1>10. ASSUME NEW r \in Requests, Abandon(r) PROVE TypeOK'
  BY <1>10 DEF Abandon, Idle, Stamps, LimiterAssumption
<1>11. CASE UNCHANGED vars
  BY <1>11 DEF vars
<1> QED
  BY <1>1, <1>2, <1>3, <1>4, <1>5, <1>6, <1>7, <1>8, <1>9, <1>10, <1>11
     DEF Next, Serve

(* Counters and histories are numbers, calls in flight are well formed.    *)
THEOREM TypeCorrect == ASSUME LimiterAssumption PROVE Spec => []TypeOK
<1>1. Init => TypeOK
  BY InitTypeOK
<1>2. TypeOK /\ [Next]_vars => TypeOK'
  BY NextTypeOK
<1> QED
  BY <1>1, <1>2, PTL DEF Spec

-----------------------------------------------------------------------------
(* The cap on each window's hash.                                          *)

(* A step that leaves a window's counters and history alone, or resets its *)
(* counters to zero, keeps the cap.                                        *)
LEMMA CapKeptByReset ==
    ASSUME LimiterAssumption, TypeOK, BudgetCap,
           UNCHANGED <<overrun, refund>>,
           \A w \in WindowIds :
              \/ tokens'[w] = tokens[w] /\ requests'[w] = requests[w]
              \/ tokens'[w] = 0 /\ requests'[w] = 0
    PROVE  BudgetCap'
BY DEF LimiterAssumption, TypeOK, PerWindow, BudgetCap, Read

(* What the script admits fits under the cap of its window.                *)
LEMMA AdmittedFits ==
    ASSUME LimiterAssumption, TypeOK, BudgetCap, NEW t \in Stamps, NEW e \in Nat,
           WithinBudget(t, e)
    PROVE  /\ requests[WindowId(t)] + 1 <= RpmLimit
           /\ tokens[WindowId(t)] + e <= TpmLimit + Read(refund, WindowId(t) - 1)
<1> DEFINE w == WindowId(t)
           k == Window - Elapsed(t)
<1>1. w \in WindowIds /\ k \in 1..Window /\ Window \in Nat \ {0}
  BY WindowOfStamp DEF LimiterAssumption
<1>2. /\ Read(tokens, w - 1) \in Int
      /\ Read(refund, w - 1) \in Nat
      /\ -Read(refund, w - 1) <= Read(tokens, w - 1)
      /\ Read(requests, w - 1) \in Nat
      /\ tokens[w] \in Int
      /\ requests[w] \in Nat
  BY <1>1 DEF TypeOK, PerWindow, BudgetCap, Read
<1>3. Read(tokens, w - 1) * k + (tokens[w] + e) * Window <= TpmLimit * Window
  BY <1>1, <1>2 DEF WithinBudget, Weighted, Read, LimiterAssumption
<1>4. Read(requests, w - 1) * k + (requests[w] + 1) * Window <= RpmLimit * Window
  BY <1>1, <1>2 DEF WithinBudget, Weighted, Read, LimiterAssumption
<1>5. tokens[w] + e <= TpmLimit + Read(refund, w - 1)
  <2> HIDE DEF w, k
  <2> QED
    BY <1>1, <1>2, <1>3, WeightedComparison DEF LimiterAssumption
<1>6. requests[w] + 1 <= RpmLimit
  <2> HIDE DEF w, k
  <2> QED
    <3>1. 0 <= Read(requests, w - 1) * k
      BY <1>1, <1>2
    <3>2. ASSUME requests[w] + 1 >= RpmLimit + 1 PROVE FALSE
      <4>1. (requests[w] + 1) * Window >= (RpmLimit + 1) * Window
        BY <1>1, <1>2, <3>2 DEF LimiterAssumption
      <4> QED
        BY <1>1, <1>2, <1>4, <3>1, <4>1 DEF LimiterAssumption
    <3> QED
      BY <1>2, <3>2 DEF LimiterAssumption
<1> QED
  BY <1>5, <1>6

LEMMA AdmitBudgetCap ==
    ASSUME LimiterAssumption, TypeOK, BudgetCap, NEW r \in Requests, AdmitCheck(r)
    PROVE  BudgetCap'
<1> DEFINE t == call[r].stamp
           e == call[r].tokens
<1>1. t \in Stamps /\ e \in Nat /\ WindowId(t) \in WindowIds
  BY WindowOfStamp DEF TypeOK, AdmitCheck
<1>2. /\ requests[WindowId(t)] + 1 <= RpmLimit
      /\ tokens[WindowId(t)] + e <= TpmLimit + Read(refund, WindowId(t) - 1)
  BY <1>1, AdmittedFits DEF AdmitCheck
<1>3. /\ tokens' = [tokens EXCEPT ![WindowId(t)] = @ + e]
      /\ requests' = [requests EXCEPT ![WindowId(t)] = @ + 1]
      /\ UNCHANGED <<overrun, refund>>
  BY DEF AdmitCheck, Write
<1> HIDE DEF t, e
<1> QED
  BY <1>1, <1>2, <1>3 DEF BudgetCap, TypeOK, PerWindow, LimiterAssumption, Read

LEMMA ReconcileBudgetCap ==
    ASSUME LimiterAssumption, TypeOK, BudgetCap, NEW r \in Requests, Reconcile(r)
    PROVE  BudgetCap'
<1> DEFINE w == WindowId(call[r].stamp)
           d == call[r].tokens
<1>1. w \in WindowIds /\ d \in Int
  BY WindowOfStamp DEF TypeOK
<1>2. /\ tokens' = [tokens EXCEPT ![w] = @ + d]
      /\ requests' = [requests EXCEPT ![w] = @ + 0]
      /\ overrun' = [overrun EXCEPT ![w] = IF d > 0 THEN @ + d ELSE @]
      /\ refund' = [refund EXCEPT ![w] = IF d < 0 THEN @ - d ELSE @]
  BY DEF Reconcile, Write
<1> HIDE DEF w, d
<1>3. \A v \in WindowIds : /\ overrun[v] <= overrun'[v]
                           /\ refund[v] <= refund'[v]
                           /\ refund'[v] \in Nat
  BY <1>1, <1>2 DEF TypeOK, PerWindow
<1>4. \A v \in WindowIds : Read(refund, v - 1) <= Read(refund', v - 1)
  BY <1>3 DEF Read
<1> SUFFICES ASSUME NEW v \in WindowIds
             PROVE  /\ requests'[v] <= RpmLimit
                    /\ tokens'[v] <= TpmLimit + overrun'[v] + Read(refund', v - 1)
                    /\ -refund'[v] <= tokens'[v]
  BY DEF BudgetCap, Read
<1>5. /\ Read(refund, v - 1) \in Nat
      /\ Read(refund', v - 1) \in Nat
  BY <1>3 DEF TypeOK, PerWindow, Read
<1>6. /\ requests[v] <= RpmLimit /\ requests[v] \in Nat
      /\ tokens[v] <= TpmLimit + overrun[v] + Read(refund, v - 1)
      /\ -refund[v] <= tokens[v]
      /\ tokens[v] \in Int /\ overrun[v] \in Nat /\ refund[v] \in Nat
  BY DEF BudgetCap, TypeOK, PerWindow
<1>7. requests'[v] = requests[v]
  BY <1>2, <1>6 DEF TypeOK, PerWindow
<1>8. CASE v # w
  <2>1. /\ tokens'[v] = tokens[v]
        /\ overrun'[v] = overrun[v]
        /\ refund'[v] = refund[v]
    BY <1>1, <1>2, <1>8 DEF TypeOK, PerWindow
  <2> QED
    BY <1>4, <1>5, <1>6, <1>7, <2>1 DEF LimiterAssumption
<1>9. CASE v = w
  <2>1. tokens'[v] = tokens[v] + d
    BY <1>1, <1>2, <1>9 DEF TypeOK, PerWindow
  <2>2. /\ overrun'[v] = IF d > 0 THEN overrun[v] + d ELSE overrun[v]
        /\ refund'[v] = IF d < 0 THEN refund[v] - d ELSE refund[v]
    BY <1>1, <1>2, <1>9 DEF TypeOK, PerWindow
  <2> QED
    BY <1>1, <1>4, <1>5, <1>6, <1>7, <2>1, <2>2 DEF LimiterAssumption
<1> QED
  BY <1>8, <1>9

LEMMA NextBudgetCap ==
    LimiterAssumption /\ TypeOK /\ BudgetCap /\ [Next]_vars => BudgetCap'
<1> SUFFICES ASSUME LimiterAssumption, TypeOK, BudgetCap, [Next]_vars
             PROVE  BudgetCap'
  OBVIOUS
<1>1. CASE Tick
  BY <1>1, CapKeptByReset DEF Tick, history
<1>2. CASE Restart
  BY <1>2, CapKeptByReset DEF Restart, history
<1>3. ASSUME NEW k \in Workers, LoadScript(k) PROVE BudgetCap'
  BY <1>3, CapKeptByReset DEF LoadScript, history
<1>4. ASSUME NEW r \in Requests, Serve(r) PROVE BudgetCap'
  <2>1. CASE AdmitCheck(r)
    BY <2>1, AdmitBudgetCap
  <2>2. CASE Reconcile(r)
    BY <2>2, ReconcileBudgetCap
  <2>3. CASE SendCheck(r) \/ RejectCheck(r) \/ SendReconcile(r) \/ NoScript(r)
    BY <2>3, CapKeptByReset
       DEF SendCheck, RejectCheck, SendReconcile, NoScript, redis, history
  <2> QED
    BY <1>4, <2>1, <2>2, <2>3 DEF Serve
<1>5. ASSUME NEW r \in Requests, Abandon(r) PROVE BudgetCap'
  BY <1>5, CapKeptByReset DEF Abandon, redis, history
<1>6. CASE UNCHANGED vars
  BY <1>6, CapKeptByReset DEF vars, redis, history
<1> QED
  BY <1>1, <1>2, <1>3, <1>4, <1>5, <1>6 DEF Next

(* No window ever counts more than rpm_limit requests, and its tokens      *)
(* leave 0..tpm_limit only by what reconcile moved.                        *)
THEOREM BudgetCapped == ASSUME LimiterAssumption PROVE Spec => []BudgetCap
<1>1. Init => BudgetCap
  BY DEF LimiterAssumption, Init, BudgetCap, Read
<1>2. TypeOK /\ BudgetCap /\ [Next]_vars => BudgetCap'
  BY NextBudgetCap
<1> QED
  BY <1>1, <1>2, TypeCorrect, PTL DEF Spec

-----------------------------------------------------------------------------
(* The sliding measure, when commands are prompt and clocks agree.         *)

LEMMA NowIsStamp ==
    ASSUME LimiterAssumption, TypeOK
    PROVE  /\ now \in Nat /\ now \in Stamps
           /\ WindowId(now) \in WindowIds
           /\ WindowId(now) \in Nat
           /\ Elapsed(now) \in 0..(Window - 1)
<1>1. now \in Nat /\ now \in Stamps
  BY DEF TypeOK, LimiterAssumption, Stamps
<1> QED
  BY <1>1, WindowOfStamp

(* Dropping or zeroing counts only lowers the measure, and so does a tick  *)
(* within the window; the first tick of a window weighs the last one whole.*)
LEMMA TickWeighted ==
    ASSUME LimiterAssumption, TypeOK, BudgetCap, Tick,
           FutureEmpty, Weighted(requests, now) <= RpmLimit * Window
    PROVE  FutureEmpty' /\ (Weighted(requests, now) <= RpmLimit * Window)'
<1> DEFINE w == WindowId(now)
           e == Elapsed(now)
<1>1. /\ now \in Nat /\ w \in WindowIds /\ w \in Nat /\ e \in 0..(Window - 1)
      /\ Window \in Nat /\ Window > 0 /\ RpmLimit \in Nat
  BY NowIsStamp DEF LimiterAssumption
<1>2. \A v \in WindowIds :
         /\ requests[v] \in Nat /\ requests'[v] \in Nat
         /\ requests'[v] <= requests[v]
         /\ requests[v] <= RpmLimit
  BY DEF Tick, TypeOK, PerWindow, BudgetCap
<1>3. \A v : /\ Read(requests, v) \in Nat
             /\ Read(requests', v) \in Nat
             /\ Read(requests', v) <= Read(requests, v)
             /\ Read(requests, v) <= RpmLimit
  BY <1>1, <1>2 DEF Read
<1>4. Read(requests, w - 1) * (Window - e) + Read(requests, w) * Window <= RpmLimit * Window
  BY DEF Weighted
<1>5. now' = now + 1
  BY DEF Tick
<1>6. WindowId(now') \in Nat /\ WindowId(now') >= w
  BY <1>1, <1>5, NextTick
<1>7. FutureEmpty'
  <2> SUFFICES ASSUME NEW v \in WindowIds, v > WindowId(now')
               PROVE  requests'[v] = 0
    BY DEF FutureEmpty, WindowId
  <2>1. v \in Int /\ v > w
    BY <1>1, <1>6 DEF WindowIds
  <2>2. requests[v] = 0
    BY <2>1 DEF FutureEmpty
  <2> QED
    BY <1>2, <2>2
<1>8. Weighted(requests', now') <= RpmLimit * Window
  <2> DEFINE p == Read(requests, w - 1)
             c == Read(requests, w)
             p1 == Read(requests', w - 1)
             c1 == Read(requests', w)
  <2>1. CASE WindowId(now + 1) = w /\ Elapsed(now + 1) = e + 1
    <3>1. Weighted(requests', now') = p1 * (Window - (e + 1)) + c1 * Window
      BY <1>5, <2>1 DEF Weighted
    <3>2. p1 \in Nat /\ p \in Nat /\ c1 \in Nat /\ c \in Nat /\ p1 <= p /\ c1 <= c
      BY <1>3
    <3> HIDE DEF p, c, p1, c1, w, e
    <3>3. p1 * (Window - (e + 1)) <= p * (Window - e)
      <4>1. p1 * (Window - (e + 1)) <= p * (Window - (e + 1))
        BY <1>1, <3>2
      <4>2. p * (Window - (e + 1)) <= p * (Window - e)
        BY <1>1, <3>2
      <4>3. p1 * (Window - (e + 1)) \in Int /\ p * (Window - (e + 1)) \in Int
            /\ p * (Window - e) \in Int
        BY <1>1, <3>2
      <4> QED
        BY <4>1, <4>2, <4>3
    <3>4. c1 * Window <= c * Window
      BY <1>1, <3>2
    <3>5. p * (Window - e) + c * Window <= RpmLimit * Window
      BY <1>4 DEF p, c
    <3>6. /\ p1 * (Window - (e + 1)) \in Int /\ p * (Window - e) \in Int
          /\ c1 * Window \in Int /\ c * Window \in Int /\ RpmLimit * Window \in Int
      BY <1>1, <3>2
    <3> QED
      BY <3>1, <3>3, <3>4, <3>5, <3>6
  <2>2. CASE WindowId(now + 1) = w + 1 /\ Elapsed(now + 1) = 0
    <3>1. Read(requests, w + 1) = 0
      BY <1>1 DEF FutureEmpty, Read
    <3>2. Read(requests', w + 1) = 0
      BY <1>3, <3>1
    <3>3. Weighted(requests', now') = c1 * Window
      BY <1>1, <1>3, <1>5, <2>2, <3>2 DEF Weighted
    <3>4. c1 \in Nat /\ c1 <= RpmLimit
      BY <1>1, <1>3
    <3> QED
      BY <1>1, <3>3, <3>4
  <2> QED
    BY <1>1, <2>1, <2>2, NextTick
<1> QED
  BY <1>7, <1>8

(* The script's comparison is the invariant, one request later.            *)
LEMMA AdmitWeighted ==
    ASSUME LimiterAssumption, TypeOK, NEW r \in Requests, AdmitCheck(r),
           call[r].stamp = now, FutureEmpty
    PROVE  FutureEmpty' /\ (Weighted(requests, now) <= RpmLimit * Window)'
<1> DEFINE w == WindowId(now)
           e == Elapsed(now)
<1>1. /\ w \in WindowIds /\ w \in Nat /\ e \in 0..(Window - 1)
      /\ Window \in Nat /\ Window > 0 /\ RpmLimit \in Nat
  BY NowIsStamp DEF LimiterAssumption
<1>2. requests' = [requests EXCEPT ![w] = @ + 1] /\ now' = now
  BY DEF AdmitCheck, Write
<1>3. FutureEmpty'
  BY <1>1, <1>2 DEF FutureEmpty, TypeOK, PerWindow
<1>4. /\ Read(requests', w - 1) = Read(requests, w - 1)
      /\ Read(requests', w) = Read(requests, w) + 1
      /\ Read(requests, w - 1) \in Nat /\ Read(requests, w) \in Nat
  BY <1>1, <1>2 DEF Read, TypeOK, PerWindow
<1>5. Weighted(requests, now) + Window <= RpmLimit * Window
  BY DEF AdmitCheck, WithinBudget
<1>6. Weighted(requests', now') = Weighted(requests, now) + Window
  <2> DEFINE p == Read(requests, w - 1)
             c == Read(requests, w)
  <2>1. /\ Weighted(requests', now') = p * (Window - e) + (c + 1) * Window
        /\ Weighted(requests, now) = p * (Window - e) + c * Window
        /\ p \in Nat /\ c \in Nat
    BY <1>2, <1>4 DEF Weighted
  <2> HIDE DEF p, c, w, e
  <2>2. (c + 1) * Window = c * Window + Window
    BY <1>1, <2>1
  <2>3. p * (Window - e) \in Int /\ c * Window \in Int
    BY <1>1, <2>1
  <2> QED
    BY <1>1, <2>1, <2>2, <2>3
<1> QED
  BY <1>3, <1>5, <1>6

(* A step never makes a behaviour prompt again, so it starts from a prompt *)
(* state; and a check admitted in it ran in the tick of its timestamp.     *)
LEMMA NextPrompt ==
    ASSUME LimiterAssumption, TypeOK, BudgetCap, [Next]_vars, prompt',
           prompt => FutureEmpty /\ Weighted(requests, now) <= RpmLimit * Window
    PROVE  FutureEmpty' /\ (Weighted(requests, now) <= RpmLimit * Window)'
<1> DEFINE Kept == FutureEmpty' /\ (Weighted(requests, now) <= RpmLimit * Window)'
<1>0. prompt
  BY DEF Next, Serve, Tick, Restart, LoadScript, SendCheck, AdmitCheck, RejectCheck,
         SendReconcile, Reconcile, NoScript, Abandon, history, vars
<1>1. CASE Tick
  BY <1>0, <1>1, TickWeighted
<1>2. CASE Restart
  <2>1. CASE UNCHANGED requests
    BY <1>0, <1>2, <2>1 DEF Restart, FutureEmpty, Weighted, Read
  <2>2. CASE requests' = [w \in WindowIds |-> 0]
    <3>1. \A v : Read(requests', v) = 0
      BY <2>2 DEF Read
    <3>2. Weighted(requests', now') = 0
      BY <1>2, <3>1, NowIsStamp DEF Restart, Weighted, LimiterAssumption
    <3>3. 0 <= RpmLimit * Window
      BY DEF LimiterAssumption
    <3> QED
      BY <2>2, <3>2, <3>3 DEF FutureEmpty
  <2> QED
    BY <1>2, <2>1, <2>2 DEF Restart
<1>3. ASSUME NEW r \in Requests, AdmitCheck(r) PROVE Kept
  <2>1. call[r].stamp = now
    BY <1>3 DEF AdmitCheck
  <2> QED
    BY <1>0, <1>3, <2>1, AdmitWeighted
<1>4. ASSUME NEW r \in Requests, Reconcile(r) PROVE Kept
  <2>1. requests' = requests /\ now' = now
    BY <1>4, WindowOfStamp DEF Reconcile, Write, TypeOK, PerWindow
  <2> QED
    BY <1>0, <2>1 DEF FutureEmpty, Weighted, Read
<1>5. ASSUME NEW r \in Requests,
             \/ SendCheck(r) \/ SendReconcile(r)
             \/ RejectCheck(r) \/ NoScript(r) \/ Abandon(r)
      PROVE  Kept
  <2>1. UNCHANGED <<now, requests>>
    BY <1>5 DEF SendCheck, SendReconcile, RejectCheck, NoScript, Abandon, redis
  <2> QED
    BY <1>0, <2>1 DEF FutureEmpty, Weighted, Read
<1>6. CASE UNCHANGED vars \/ \E k \in Workers : LoadScript(k)
  BY <1>0, <1>6 DEF vars, redis, LoadScript, FutureEmpty, Weighted, Read
<1> QED
  BY <1>1, <1>2, <1>3, <1>4, <1>5, <1>6 DEF Next, Serve

(* While every admitted check ran in the tick it was stamped in, nothing   *)
(* is counted ahead of time, and the measure is within rpm_limit.          *)
THEOREM PromptLoad ==
    ASSUME LimiterAssumption PROVE Spec => [](PromptInv /\ WeightedLoadBounded)
<1> DEFINE I == PromptInv /\ WeightedLoadBounded
<1>1. Init => I
  <2> SUFFICES ASSUME Init PROVE I
    OBVIOUS
  <2>1. \A v : Read(requests, v) = 0
    BY DEF Init, Read
  <2>2. now \in Stamps
    BY DEF Init, Stamps, LimiterAssumption
  <2>3. Weighted(requests, now) = 0
    BY <2>1, <2>2, WindowOfStamp DEF Weighted, LimiterAssumption
  <2>4. 0 <= RpmLimit * Window
    BY DEF LimiterAssumption
  <2> QED
    BY <2>3, <2>4 DEF Init, PromptInv, FutureEmpty, WeightedLoadBounded
<1>2. TypeOK /\ BudgetCap /\ I /\ [Next]_vars => I'
  BY NextPrompt DEF PromptInv, WeightedLoadBounded
<1> QED
  BY <1>1, <1>2, TypeCorrect, BudgetCapped, PTL DEF Spec

(* The weighted request count never passes rpm_limit, at any moment, as    *)
(* long as every admitted check ran in the tick it was stamped in.         *)
THEOREM WeightedLoadIsBounded ==
    ASSUME LimiterAssumption PROVE Spec => []WeightedLoadBounded
BY PromptLoad, PTL

-----------------------------------------------------------------------------
(* Stamps, their windows, and sums over them.                              *)

(* A window is Window ticks.                                               *)
LEMMA WindowSpan ==
    ASSUME LimiterAssumption, NEW t \in Nat
    PROVE  /\ WindowId(t) \in Nat
           /\ WindowId(t) * Window <= t
           /\ t < WindowId(t) * Window + Window
<1>1. Window \in Nat /\ Window > 0
  BY DEF LimiterAssumption
<1>2. t \div Window \in Nat
  BY <1>1
<1>3. (t \div Window) * Window <= t
  BY <1>1
<1>4. t < (t \div Window) * Window + Window
  BY <1>1
<1> QED
  BY <1>2, <1>3, <1>4 DEF WindowId

(* A later window ends later.                                              *)
LEMMA LaterWindow ==
    ASSUME LimiterAssumption, NEW v \in Int, NEW w \in Int
    PROVE  /\ v * Window \in Int /\ w * Window \in Int
           /\ v <= w <=> v * Window <= w * Window
           /\ v < w <=> v * Window < w * Window
<1>1. Window \in Nat /\ Window > 0
  BY DEF LimiterAssumption
<1>2. /\ v * Window \in Int /\ w * Window \in Int
      /\ (w - v) * Window = w * Window - v * Window
  BY <1>1
<1>3. CASE v < w
  <2>1. (w - v) * Window > 0
    BY <1>1, <1>3
  <2> QED
    BY <1>2, <1>3, <2>1
<1>4. CASE v = w
  BY <1>2, <1>4
<1>5. CASE v > w
  <2>1. (v - w) * Window > 0 /\ (v - w) * Window = v * Window - w * Window
    BY <1>1, <1>5
  <2> QED
    BY <1>2, <1>5, <2>1
<1> QED
  BY <1>3, <1>4, <1>5

(* The Window ticks that end with t lie in two windows.                    *)
LEMMA StampsUntilWindows ==
    ASSUME LimiterAssumption, NEW s \in Nat, NEW t \in Nat, t - Window < s, s <= t
    PROVE  WindowId(s) \in {WindowId(t) - 1, WindowId(t)}
<1>1. Window \in Nat /\ Window > 0
  BY DEF LimiterAssumption
<1>2. t \div Window - s \div Window \in {0, 1}
  BY <1>1
<1>3. t \div Window \in Nat /\ s \div Window \in Nat
  BY <1>1
<1> QED
  BY <1>2, <1>3 DEF WindowId

StampsOf(w) == {t \in Stamps : WindowId(t) = w}
StampsUntil(t) == {u \in Stamps : t - Window < u /\ u <= t}

LEMMA StampSetsFinite ==
    ASSUME LimiterAssumption, NEW w
    PROVE  /\ IsFiniteSet(StampsOf(w)) /\ StampsOf(w) \in SUBSET Stamps
           /\ IsFiniteSet(StampsUntil(w)) /\ StampsUntil(w) \in SUBSET Stamps
<1>1. IsFiniteSet(Stamps)
  BY FS_Interval DEF LimiterAssumption, Stamps
<1> QED BY <1>1, FS_Subset DEF StampsOf, StampsUntil

LEMMA AdmittedTotals ==
    ASSUME NEW w
    PROVE  /\ AdmittedIn(w) = Total(admitted, StampsOf(w))
           /\ AdmittedUntil(w) = Total(admitted, StampsUntil(w))
BY DEF AdmittedIn, AdmittedUntil, Total, StampsOf, StampsUntil

LEMMA AdmittedTotalsNext ==
    ASSUME NEW w
    PROVE  /\ AdmittedIn(w)' = Total(admitted', StampsOf(w))
           /\ AdmittedUntil(w)' = Total(admitted', StampsUntil(w))
<1>1. (AdmittedIn(w) = Total(admitted, StampsOf(w)))'
  BY AdmittedTotals, PTL
<1>2. (AdmittedUntil(w) = Total(admitted, StampsUntil(w)))'
  BY AdmittedTotals, PTL
<1> QED
  BY <1>1, <1>2

LEMMA AdmittedType ==
    ASSUME LimiterAssumption, TypeOK, NEW w
    PROVE  AdmittedIn(w) \in Nat /\ AdmittedUntil(w) \in Nat
BY StampSetsFinite, AdmittedTotals, TotalNatural DEF TypeOK

LEMMA AdmittedKept ==
    ASSUME UNCHANGED admitted, NEW w
    PROVE  AdmittedIn(w)' = AdmittedIn(w) /\ AdmittedUntil(w)' = AdmittedUntil(w)
BY AdmittedTotals, AdmittedTotalsNext

(* A check that is admitted counts once, in its window and in each stretch *)
(* of Window ticks that its stamp lies in.                                 *)
LEMMA AdmittedCounts ==
    ASSUME LimiterAssumption, TypeOK, NEW r \in Requests, AdmitCheck(r), NEW w
    PROVE  /\ AdmittedIn(w)' =
                 AdmittedIn(w) + (IF call[r].stamp \in StampsOf(w) THEN 1 ELSE 0)
           /\ AdmittedUntil(w)' =
                 AdmittedUntil(w) + (IF call[r].stamp \in StampsUntil(w) THEN 1 ELSE 0)
<1> DEFINE f == admitted
           g == admitted'
           x == call[r].stamp
<1>1. /\ f \in [Stamps -> Int]
      /\ \A s \in Stamps : g[s] = IF s = x THEN f[s] + 1 ELSE f[s]
  BY DEF TypeOK, AdmitCheck
<1>2. ASSUME NEW S \in SUBSET Stamps, IsFiniteSet(S)
      PROVE  Total(g, S) = Total(f, S) + (IF x \in S THEN 1 ELSE 0)
  <2> HIDE DEF f, g, x
  <2>1. /\ \A s \in S : f[s] \in Int
        /\ \A s \in S : g[s] = IF s = x THEN f[s] + 1 ELSE f[s]
    BY <1>1
  <2>2. ASSUME NEW d \in Int, d = 1 PROVE Total(g, S) = Total(f, S) + (IF x \in S THEN d ELSE 0)
    <3>1. \A s \in S : g[s] = IF s = x THEN f[s] + d ELSE f[s]
      BY <2>1, <2>2
    <3> QED
      BY <1>2, <2>1, <3>1, TotalMoves
  <2> QED
    BY <2>2
<1>3. Total(admitted', StampsOf(w)) =
         Total(admitted, StampsOf(w)) + (IF call[r].stamp \in StampsOf(w) THEN 1 ELSE 0)
  BY <1>2, StampSetsFinite
<1>4. Total(admitted', StampsUntil(w)) =
         Total(admitted, StampsUntil(w)) + (IF call[r].stamp \in StampsUntil(w) THEN 1 ELSE 0)
  BY <1>2, StampSetsFinite
<1> QED
  BY <1>3, <1>4, AdmittedTotals, AdmittedTotalsNext

-----------------------------------------------------------------------------
(* What the hashes still know of the requests they let in.  A hash is only *)
(* dropped two windows after it was last written, and no command is ahead  *)
(* of Redis by more than ClockSkew nor behind by more than MaxDelay.       *)

CommandsInTime ==
    \A r \in Requests : InFlight(r) =>
        /\ call[r].stamp <= now + ClockSkew
        /\ now <= call[r].stamp + MaxDelay

ExpiresLate ==
    \A w \in WindowIds : expires[w] # 0 => (w + 2) * Window <= expires[w] + ClockSkew

CountsKept ==
    restarts = 0 =>
        \A w \in WindowIds :
            requests[w] = AdmittedIn(w) \/ (w + 2) * Window <= now + ClockSkew

(* The Window ticks that end with t lie in two windows.                    *)
UntilCovered ==
    \A t \in Stamps : AdmittedUntil(t) <= AdmittedIn(WindowId(t) - 1) + AdmittedIn(WindowId(t))

LateInv == CommandsInTime /\ ExpiresLate /\ CountsKept /\ UntilCovered

(* The steps that touch the hashes or the histories, and all the others.   *)
Quiet == UNCHANGED <<now, tokens, requests, expires, restarts, admitted, prompt>>

LEMMA StepKinds ==
    ASSUME LimiterAssumption, TypeOK, [Next]_vars
    PROVE  \/ Tick \/ Restart \/ Quiet
           \/ \E r \in Requests : AdmitCheck(r)
           \/ \E r \in Requests : Reconcile(r)
BY DEF Next, Serve, Quiet, LoadScript, SendCheck, RejectCheck, SendReconcile,
       NoScript, Abandon, redis, history, vars

(* The write of a call in flight, one window at a time.                    *)
LEMMA WindowWritten ==
    ASSUME LimiterAssumption, TypeOK, NEW r \in Requests, NEW d \in Int, NEW n \in Nat,
           Write(call[r].stamp, d, n), NEW w \in WindowIds
    PROVE  /\ requests'[w] = IF w = WindowId(call[r].stamp) THEN requests[w] + n
                                                            ELSE requests[w]
           /\ tokens'[w] = IF w = WindowId(call[r].stamp) THEN tokens[w] + d
                                                          ELSE tokens[w]
           /\ expires'[w] = IF w = WindowId(call[r].stamp) THEN now + 2 * Window
                                                           ELSE expires[w]
BY DEF Write, TypeOK, PerWindow

(* A check sent now, or a tick, leaves every command within its delay.     *)
LEMMA NextCommandsInTime ==
    ASSUME LimiterAssumption, TypeOK, CommandsInTime, [Next]_vars
    PROVE  CommandsInTime'
<1> SUFFICES ASSUME NEW q \in Requests, InFlight(q)'
             PROVE  call'[q].stamp <= now' + ClockSkew /\ now' <= call'[q].stamp + MaxDelay
  BY DEF CommandsInTime
<1>1. /\ now \in Nat /\ ClockSkew \in Nat /\ MaxDelay \in Nat
      /\ call[q].stamp \in Int
  BY DEF LimiterAssumption, TypeOK, Stamps
<1>2. CASE Tick
  <2>1. call' = call /\ now' = now + 1
    BY <1>2 DEF Tick
  <2>2. InFlight(q)
    BY <2>1 DEF InFlight
  <2>3. now < call[q].stamp + MaxDelay
    BY <1>2, <2>2 DEF Tick
  <2>4. call[q].stamp <= now + ClockSkew
    BY <2>2 DEF CommandsInTime
  <2> QED
    BY <1>1, <2>1, <2>3, <2>4
<1>3. ASSUME now' = now, call'[q] = call[q]
      PROVE  call'[q].stamp <= now' + ClockSkew /\ now' <= call'[q].stamp + MaxDelay
  BY <1>3 DEF CommandsInTime, InFlight
<1>4. ASSUME NEW r \in Requests, SendCheck(r) \/ SendReconcile(r)
      PROVE  call'[q].stamp <= now' + ClockSkew /\ now' <= call'[q].stamp + MaxDelay
  <2>1. PICK t \in now..(now + ClockSkew) : call'[r].stamp = t
    BY <1>4 DEF SendCheck, SendReconcile, TypeOK
  <2>2. now' = now
    BY <1>4 DEF SendCheck, SendReconcile
  <2>3. CASE q = r
    BY <1>1, <2>1, <2>2, <2>3
  <2>4. CASE q # r
    <3>1. call'[q] = call[q]
      BY <1>4, <2>4 DEF SendCheck, SendReconcile, TypeOK
    <3> QED
      BY <1>3, <2>2, <3>1
  <2> QED
    BY <2>3, <2>4
<1>5. ASSUME NEW r \in Requests,
             \/ AdmitCheck(r) \/ RejectCheck(r) \/ Reconcile(r)
             \/ NoScript(r) \/ Abandon(r)
      PROVE  call'[q].stamp <= now' + ClockSkew /\ now' <= call'[q].stamp + MaxDelay
  <2>1. now' = now
    BY <1>5 DEF AdmitCheck, RejectCheck, Reconcile, NoScript, Abandon
  <2>2. call'[r].pc \in {"idle", "admitted"}
    BY <1>5 DEF AdmitCheck, RejectCheck, Reconcile, NoScript, Abandon, TypeOK, Idle
  <2>3. q # r
    BY <2>2 DEF InFlight
  <2>4. call'[q] = call[q]
    BY <1>5, <2>3 DEF AdmitCheck, RejectCheck, Reconcile, NoScript, Abandon, TypeOK
  <2> QED
    BY <1>3, <2>1, <2>4
<1>6. CASE Restart \/ (\E k \in Workers : LoadScript(k)) \/ UNCHANGED vars
  BY <1>3, <1>6 DEF Restart, LoadScript, vars
<1> QED
  BY <1>2, <1>4, <1>5, <1>6 DEF Next, Serve

(* A write lands at most ClockSkew ahead of Redis's clock.                 *)
LEMMA WriteExpiresLate ==
    ASSUME LimiterAssumption, TypeOK, CommandsInTime, ExpiresLate,
           NEW r \in Requests, InFlight(r),
           NEW d \in Int, NEW n \in Nat, Write(call[r].stamp, d, n)
    PROVE  ExpiresLate'
<1> DEFINE v == WindowId(call[r].stamp)
<1>1. /\ call[r].stamp \in Nat /\ now \in Nat /\ ClockSkew \in Nat
      /\ Window \in Nat /\ Window > 0
  BY DEF LimiterAssumption, TypeOK, Stamps
<1>2. v \in Nat /\ v * Window <= call[r].stamp /\ call[r].stamp <= now + ClockSkew
  BY <1>1, WindowSpan DEF CommandsInTime
<1>3. (v + 2) * Window <= (now + 2 * Window) + ClockSkew
  <2> HIDE DEF v
  <2>1. (v + 2) * Window = v * Window + 2 * Window /\ v * Window \in Int
    BY <1>1, <1>2
  <2> QED
    BY <1>1, <1>2, <2>1
<1> HIDE DEF v
<1> SUFFICES ASSUME NEW w \in WindowIds, expires'[w] # 0
             PROVE  (w + 2) * Window <= expires'[w] + ClockSkew
  BY DEF ExpiresLate
<1>4. CASE w = v
  BY <1>3, <1>4, WindowWritten DEF v
<1>5. CASE w # v
  <2>1. expires'[w] = expires[w]
    BY <1>5, WindowWritten DEF v
  <2> QED
    BY <2>1 DEF ExpiresLate
<1> QED
  BY <1>4, <1>5

LEMMA NextExpiresLate ==
    ASSUME LimiterAssumption, TypeOK, CommandsInTime, ExpiresLate, [Next]_vars
    PROVE  ExpiresLate'
<1>1. CASE Tick
  BY <1>1 DEF Tick, ExpiresLate
<1>2. CASE Restart
  BY <1>2 DEF Restart, ExpiresLate
<1>3. CASE Quiet
  BY <1>3 DEF Quiet, ExpiresLate
<1>4. ASSUME NEW r \in Requests, AdmitCheck(r) PROVE ExpiresLate'
  <2>1. InFlight(r) /\ call[r].tokens \in Int /\ Write(call[r].stamp, call[r].tokens, 1)
    BY <1>4 DEF AdmitCheck, InFlight, TypeOK
  <2> QED
    BY <2>1, WriteExpiresLate
<1>5. ASSUME NEW r \in Requests, Reconcile(r) PROVE ExpiresLate'
  <2>1. InFlight(r) /\ call[r].tokens \in Int /\ Write(call[r].stamp, call[r].tokens, 0)
    BY <1>5 DEF Reconcile, InFlight, TypeOK
  <2> QED
    BY <2>1, WriteExpiresLate
<1> QED
  BY <1>1, <1>2, <1>3, <1>4, <1>5, StepKinds

(* A check that is admitted adds one to its window's hash and to what the  *)
(* window admitted; a tick drops only the hashes that are due.             *)
LEMMA NextCountsKept ==
    ASSUME LimiterAssumption, TypeOK, ExpiresLate, CountsKept, [Next]_vars
    PROVE  CountsKept'
<1> SUFFICES ASSUME restarts' = 0, NEW w \in WindowIds
             PROVE  requests'[w] = AdmittedIn(w)' \/ (w + 2) * Window <= now' + ClockSkew
  BY DEF CountsKept
<1>a. /\ now \in Nat /\ ClockSkew \in Nat /\ Window \in Nat /\ restarts \in Nat
      /\ requests[w] \in Nat
  BY DEF LimiterAssumption, TypeOK, PerWindow
<1>b. w \in Int
  BY DEF WindowIds
<1>c. AdmittedIn(w) \in Nat
  BY AdmittedType
<1>d. (w + 2) * Window \in Int
  BY <1>a, <1>b
<1>1. /\ now \in Nat /\ ClockSkew \in Nat /\ Window \in Nat /\ restarts \in Nat
      /\ requests[w] \in Nat /\ AdmittedIn(w) \in Nat
      /\ w \in Int /\ (w + 2) * Window \in Int
  BY <1>a, <1>b, <1>c, <1>d
<1>2. restarts = 0
  BY <1>1 DEF Next, Serve, Tick, Restart, LoadScript, SendCheck, AdmitCheck, RejectCheck,
              SendReconcile, Reconcile, NoScript, Abandon, redis, vars
<1>3. requests[w] = AdmittedIn(w) \/ (w + 2) * Window <= now + ClockSkew
  BY <1>2 DEF CountsKept
<1>4. CASE Tick
  <2>1. now' = now + 1 /\ AdmittedIn(w)' = AdmittedIn(w)
    BY <1>4, AdmittedKept DEF Tick, history
  <2>2. CASE expires[w] = now + 1
    <3>1. (w + 2) * Window <= (now + 1) + ClockSkew
      BY <1>1, <2>2 DEF ExpiresLate
    <3> QED
      BY <2>1, <3>1
  <2>3. CASE expires[w] # now + 1
    <3>1. requests'[w] = requests[w]
      BY <1>4, <2>3 DEF Tick
    <3> QED
      BY <1>1, <1>3, <2>1, <3>1
  <2> QED
    BY <2>2, <2>3
<1>5. CASE Restart
  BY <1>1, <1>2, <1>5 DEF Restart
<1>6. CASE Quiet
  BY <1>3, <1>6, AdmittedKept DEF Quiet
<1>7. ASSUME NEW r \in Requests, AdmitCheck(r)
      PROVE  requests'[w] = AdmittedIn(w)' \/ (w + 2) * Window <= now' + ClockSkew
  <2>1. /\ call[r].stamp \in Stamps /\ call[r].tokens \in Int
        /\ Write(call[r].stamp, call[r].tokens, 1) /\ now' = now
    BY <1>7 DEF AdmitCheck, TypeOK
  <2>2. requests'[w] = IF w = WindowId(call[r].stamp) THEN requests[w] + 1 ELSE requests[w]
    BY <2>1, WindowWritten
  <2>3. AdmittedIn(w)' = AdmittedIn(w) + (IF w = WindowId(call[r].stamp) THEN 1 ELSE 0)
    BY <1>7, <2>1, AdmittedCounts DEF StampsOf
  <2> QED
    BY <1>1, <1>3, <2>1, <2>2, <2>3
<1>8. ASSUME NEW r \in Requests, Reconcile(r)
      PROVE  requests'[w] = AdmittedIn(w)' \/ (w + 2) * Window <= now' + ClockSkew
  <2>1. /\ call[r].tokens \in Int /\ Write(call[r].stamp, call[r].tokens, 0)
        /\ now' = now /\ admitted' = admitted
    BY <1>8 DEF Reconcile, TypeOK
  <2>2. requests'[w] = requests[w]
    BY <1>1, <2>1, WindowWritten
  <2> QED
    BY <1>3, <2>1, <2>2, AdmittedKept
<1> QED
  BY <1>4, <1>5, <1>6, <1>7, <1>8, StepKinds

(* A check counted in the Window ticks that end with t was stamped in one  *)
(* of the two windows they touch.                                          *)
LEMMA NextUntilCovered ==
    ASSUME LimiterAssumption, TypeOK, UntilCovered, [Next]_vars
    PROVE  UntilCovered'
<1> SUFFICES ASSUME NEW t \in Stamps
             PROVE  AdmittedUntil(t)' <= AdmittedIn(WindowId(t) - 1)' + AdmittedIn(WindowId(t))'
  BY DEF UntilCovered, WindowId
<1> DEFINE v == WindowId(t) - 1
           w == WindowId(t)
<1>1. AdmittedUntil(t) <= AdmittedIn(v) + AdmittedIn(w)
  BY DEF UntilCovered
<1>2. /\ AdmittedUntil(t) \in Nat /\ AdmittedIn(v) \in Nat /\ AdmittedIn(w) \in Nat
      /\ w \in Int
  BY AdmittedType, WindowOfStamp
<1>3. CASE UNCHANGED admitted
  <2>1. /\ AdmittedUntil(t)' = AdmittedUntil(t)
        /\ AdmittedIn(v)' = AdmittedIn(v) /\ AdmittedIn(w)' = AdmittedIn(w)
    BY <1>3, AdmittedKept
  <2> QED
    BY <1>1, <2>1
<1>4. ASSUME NEW r \in Requests, AdmitCheck(r)
      PROVE  AdmittedUntil(t)' <= AdmittedIn(v)' + AdmittedIn(w)'
  <2> DEFINE s == call[r].stamp
  <2>1. /\ s \in Stamps
        /\ s \in Nat /\ t \in Nat
    BY DEF TypeOK, Stamps, LimiterAssumption
  <2>2. AdmittedUntil(t)' = AdmittedUntil(t) + (IF s \in StampsUntil(t) THEN 1 ELSE 0)
    BY <1>4, AdmittedCounts
  <2>3. /\ AdmittedIn(v)' = AdmittedIn(v) + (IF s \in StampsOf(v) THEN 1 ELSE 0)
        /\ AdmittedIn(w)' = AdmittedIn(w) + (IF s \in StampsOf(w) THEN 1 ELSE 0)
    BY <1>4, AdmittedCounts
  <2>4. s \in StampsUntil(t) => s \in StampsOf(v) \/ s \in StampsOf(w)
    BY <2>1, StampsUntilWindows DEF StampsUntil, StampsOf
  <2> HIDE DEF s, v, w
  <2> QED
    BY <1>1, <1>2, <2>2, <2>3, <2>4
<1>5. CASE Tick \/ Restart \/ Quiet \/ \E r \in Requests : Reconcile(r)
  BY <1>3, <1>5 DEF Tick, Restart, Quiet, Reconcile, history
<1> QED
  BY <1>4, <1>5, StepKinds

LEMMA NothingAdmitted ==
    ASSUME LimiterAssumption, Init, NEW w
    PROVE  AdmittedIn(w) = 0 /\ AdmittedUntil(w) = 0
<1>1. \A S \in SUBSET Stamps : \A t \in S : admitted[t] = 0
  BY DEF Init
<1> QED
  BY <1>1, StampSetsFinite, AdmittedTotals, TotalOfZeros

LEMMA InitLateInv == LimiterAssumption /\ Init => LateInv
<1> SUFFICES ASSUME LimiterAssumption, Init PROVE LateInv
  OBVIOUS
<1>1. CommandsInTime /\ ExpiresLate
  BY DEF Init, Idle, InFlight, CommandsInTime, ExpiresLate
<1>2. \A w : AdmittedIn(w) = 0 /\ AdmittedUntil(w) = 0
  BY NothingAdmitted
<1>3. CountsKept
  BY <1>2 DEF Init, CountsKept
<1>4. UntilCovered
  BY <1>2 DEF UntilCovered
<1> QED
  BY <1>1, <1>3, <1>4 DEF LateInv

LEMMA NextLateInv == LimiterAssumption /\ TypeOK /\ LateInv /\ [Next]_vars => LateInv'
BY NextCommandsInTime, NextExpiresLate, NextCountsKept, NextUntilCovered DEF LateInv

THEOREM LateInvHolds == ASSUME LimiterAssumption PROVE Spec => []LateInv
<1>1. Init => LateInv
  BY InitLateInv
<1>2. TypeOK /\ LateInv /\ [Next]_vars => LateInv'
  BY NextLateInv
<1> QED
  BY <1>1, <1>2, TypeCorrect, PTL DEF Spec

(* The hash a fresh check weighs has not been dropped: this window's, if   *)
(* no clock is a whole window ahead, and the last one's, but for its last  *)
(* ClockSkew ticks.                                                        *)
LEMMA FreshCountsIntact == LimiterAssumption /\ TypeOK /\ LateInv => WeighedCountsIntact
<1> SUFFICES ASSUME LimiterAssumption, TypeOK, LateInv,
                    restarts = 0, ClockSkew <= Window,
                    NEW w \in {WindowId(now), WindowId(now + ClockSkew) - 1} \cap WindowIds
             PROVE  requests[w] = AdmittedIn(w)
  BY DEF WeighedCountsIntact
<1>1. now \in Nat /\ ClockSkew \in Nat /\ Window \in Nat /\ w \in Int
  BY DEF LimiterAssumption, TypeOK, WindowIds
<1>2. now + ClockSkew < (w + 2) * Window
  <2>1. CASE w = WindowId(now)
    <3>1. now < w * Window + Window /\ w * Window \in Int
      BY <1>1, <2>1, WindowSpan
    <3>2. (w + 2) * Window = w * Window + 2 * Window
      BY <1>1
    <3> QED
      BY <1>1, <3>1, <3>2
  <2>2. CASE w = WindowId(now + ClockSkew) - 1
    <3> DEFINE v == WindowId(now + ClockSkew)
    <3>1. v \in Int /\ now + ClockSkew < v * Window + Window
      BY <1>1, WindowSpan
    <3> HIDE DEF v
    <3>2. (w + 2) * Window = v * Window + Window
      BY <1>1, <2>2, <3>1 DEF v
    <3> QED
      BY <3>1, <3>2
  <2> QED
    BY <2>1, <2>2
<1>3. (w + 2) * Window \in Int
  BY <1>1
<1> QED
  BY <1>1, <1>2, <1>3 DEF LateInv, CountsKept

(* Until a restart, the hashes a fresh check weighs count every request    *)
(* their windows admitted, whatever the delays.                            *)
THEOREM CountsStayIntact ==
    ASSUME LimiterAssumption PROVE Spec => []WeighedCountsIntact
<1>1. TypeOK /\ LateInv => WeighedCountsIntact
  BY FreshCountsIntact
<1> QED
  BY <1>1, TypeCorrect, LateInvHolds, PTL

(* Once every command is in time for its hash, a window lets in no more    *)
(* than its hash may count.                                                *)
EachWindowCapped == restarts = 0 => \A w \in WindowIds : AdmittedIn(w) <= RpmLimit

(* The same for commands that run in the tick they are stamped in, whose   *)
(* hashes live that much longer; and what a check compared of two windows  *)
(* stays true of them.                                                     *)
PromptExpiry ==
    prompt => \A w \in WindowIds : requests[w] > 0 => (w + 2) * Window <= expires[w]

PromptCounts ==
    prompt /\ restarts = 0 =>
        \A w \in WindowIds :
            requests[w] = AdmittedIn(w) \/ (w + 2) * Window <= now

PromptPairs ==
    prompt /\ restarts = 0 =>
        \A w \in WindowIds :
            /\ w > WindowId(now) => AdmittedIn(w) = 0
            /\ AdmittedIn(w) > 0 =>
                  AdmittedIn(w - 1) + AdmittedIn(w) * Window <= RpmLimit * Window

OnTimeInv == PromptExpiry /\ PromptCounts /\ PromptPairs

(* A request is admitted by a check, and one at a time.                    *)
LEMMA OnlyChecksAdmit ==
    ASSUME LimiterAssumption, TypeOK, [Next]_vars
    PROVE  admitted' = admitted \/ \E r \in Requests : AdmitCheck(r)
BY StepKinds DEF Tick, Restart, Quiet, Reconcile, history

LEMMA AdmittedInMoves ==
    ASSUME LimiterAssumption, TypeOK, NEW r \in Requests, AdmitCheck(r), NEW w
    PROVE  AdmittedIn(w)' = IF w = WindowId(call[r].stamp) THEN AdmittedIn(w) + 1
                                                           ELSE AdmittedIn(w)
<1>1. call[r].stamp \in Stamps
  BY DEF TypeOK
<1> QED
  BY <1>1, AdmittedCounts, AdmittedType DEF StampsOf

LEMMA NeverUnrestarted ==
    ASSUME LimiterAssumption, TypeOK, [Next]_vars, restarts' = 0
    PROVE  restarts = 0 /\ ~Restart
<1>1. restarts \in Nat
  BY DEF LimiterAssumption, TypeOK
<1> QED
  BY <1>1 DEF Next, Serve, Tick, Restart, LoadScript, SendCheck, AdmitCheck, RejectCheck,
              SendReconcile, Reconcile, NoScript, Abandon, redis, vars

(* A window outside the modelled time admits nothing.                      *)
LEMMA NoSuchWindow ==
    ASSUME LimiterAssumption, NEW w, w \notin WindowIds
    PROVE  AdmittedIn(w) = 0
<1>1. StampsOf(w) = {}
  BY WindowOfStamp DEF StampsOf
<1> QED
  BY <1>1, AdmittedTotals, TotalEmpty

(* A command that is at most Window - ClockSkew ticks old finds the hash   *)
(* of its window as its predecessors left it.                              *)
LEMMA CapsNext ==
    ASSUME LimiterAssumption, TypeOK, BudgetCap, LateInv, [Next]_vars,
           MaxDelay + ClockSkew <= Window, EachWindowCapped
    PROVE  EachWindowCapped'
<1> SUFFICES ASSUME restarts' = 0, NEW w \in WindowIds
             PROVE  AdmittedIn(w)' <= RpmLimit
  BY DEF EachWindowCapped
<1>1. restarts = 0
  BY NeverUnrestarted
<1>2. AdmittedIn(w) <= RpmLimit
  BY <1>1 DEF EachWindowCapped
<1>3. ASSUME NEW r \in Requests, AdmitCheck(r) PROVE AdmittedIn(w)' <= RpmLimit
  <2> DEFINE t == call[r].stamp
  <2>1. /\ t \in Stamps /\ t \in Nat /\ now \in Nat /\ call[r].tokens \in Nat
        /\ MaxDelay \in Nat /\ ClockSkew \in Nat /\ Window \in Nat
    BY <1>3 DEF TypeOK, LimiterAssumption, Stamps, AdmitCheck
  <2>2. CASE w = WindowId(t)
    <3>1. now <= t + MaxDelay
      BY <1>3 DEF LateInv, CommandsInTime, InFlight, AdmitCheck
    <3>2. t < w * Window + Window /\ w \in Nat
      BY <2>1, <2>2, WindowSpan
    <3>3. (w + 2) * Window = w * Window + 2 * Window /\ w * Window \in Int
      BY <2>1, <3>2
    <3>4. ~((w + 2) * Window <= now + ClockSkew)
      BY <2>1, <3>1, <3>2, <3>3
    <3>5. requests[w] = AdmittedIn(w)
      BY <1>1, <3>4 DEF LateInv, CountsKept
    <3>6. requests[w] + 1 <= RpmLimit
      BY <1>3, <2>1, <2>2, AdmittedFits DEF AdmitCheck
    <3> QED
      BY <1>3, <2>2, <3>5, <3>6, AdmittedInMoves
  <2>3. CASE w # WindowId(t)
    BY <1>2, <1>3, <2>3, AdmittedInMoves
  <2> QED
    BY <2>2, <2>3
<1>4. CASE admitted' = admitted
  BY <1>2, <1>4, AdmittedKept
<1> QED
  BY <1>3, <1>4, OnlyChecksAdmit

(* What an admitted check promises of its window and the one before is     *)
(* kept by every step that admits nothing.                                 *)
LEMMA NextPromptExpiry ==
    ASSUME LimiterAssumption, TypeOK, PromptInv, PromptExpiry, [Next]_vars
    PROVE  PromptExpiry'
<1> SUFFICES ASSUME prompt', NEW w \in WindowIds, requests'[w] > 0
             PROVE  (w + 2) * Window <= expires'[w]
  BY DEF PromptExpiry
<1>0. prompt
  BY DEF Next, Serve, Tick, Restart, LoadScript, SendCheck, AdmitCheck, RejectCheck,
         SendReconcile, Reconcile, NoScript, Abandon, history, vars
<1>1. requests[w] > 0 => (w + 2) * Window <= expires[w]
  BY <1>0 DEF PromptExpiry
<1>2. /\ now \in Nat /\ Window \in Nat /\ Window > 0 /\ requests[w] \in Nat
      /\ WindowId(now) \in Nat /\ WindowId(now) * Window <= now
  BY WindowSpan, NowIsStamp DEF TypeOK, PerWindow, LimiterAssumption
<1>3. w \in Int
  BY DEF WindowIds
<1>4. ASSUME w <= WindowId(now) PROVE (w + 2) * Window <= now + 2 * Window
  <2>1. w * Window <= WindowId(now) * Window
    BY <1>2, <1>3, <1>4, LaterWindow
  <2>2. (w + 2) * Window = w * Window + 2 * Window /\ w * Window \in Int
        /\ WindowId(now) * Window \in Int
    BY <1>2, <1>3
  <2> QED
    BY <1>2, <2>1, <2>2
<1>5. CASE Tick
  BY <1>1, <1>5 DEF Tick
<1>6. CASE Restart
  BY <1>1, <1>6 DEF Restart
<1>7. CASE Quiet
  BY <1>1, <1>7 DEF Quiet
<1>8. ASSUME NEW r \in Requests, AdmitCheck(r) PROVE (w + 2) * Window <= expires'[w]
  <2>1. /\ call[r].tokens \in Int /\ Write(call[r].stamp, call[r].tokens, 1)
        /\ call[r].stamp = now
    BY <1>8 DEF AdmitCheck, TypeOK
  <2> QED
    BY <1>1, <1>2, <1>4, <2>1, WindowWritten
<1>9. ASSUME NEW r \in Requests, Reconcile(r) PROVE (w + 2) * Window <= expires'[w]
  <2>1. call[r].tokens \in Int /\ Write(call[r].stamp, call[r].tokens, 0)
    BY <1>9 DEF Reconcile, TypeOK
  <2>2. requests'[w] = requests[w]
    <3>1. requests[w] \in Nat
      BY DEF TypeOK, PerWindow
    <3> QED
      BY <2>1, <3>1, WindowWritten
  <2>3. w <= WindowId(now)
    BY <1>0, <1>2, <1>3, <2>2 DEF PromptInv, FutureEmpty
  <2> QED
    BY <1>1, <1>4, <2>1, <2>2, <2>3, WindowWritten
<1> QED
  BY <1>5, <1>6, <1>7, <1>8, <1>9, StepKinds

LEMMA NextPromptCounts ==
    ASSUME LimiterAssumption, TypeOK, PromptExpiry, PromptCounts, [Next]_vars
    PROVE  PromptCounts'
<1> SUFFICES ASSUME prompt', restarts' = 0, NEW w \in WindowIds
             PROVE  requests'[w] = AdmittedIn(w)' \/ (w + 2) * Window <= now'
  BY DEF PromptCounts
<1>0. prompt /\ restarts = 0 /\ ~Restart
  BY NeverUnrestarted
     DEF Next, Serve, Tick, Restart, LoadScript, SendCheck, AdmitCheck, RejectCheck,
         SendReconcile, Reconcile, NoScript, Abandon, history, vars
<1>1. requests[w] = AdmittedIn(w) \/ (w + 2) * Window <= now
  BY <1>0 DEF PromptCounts
<1>2. now \in Nat /\ Window \in Nat /\ requests[w] \in Nat
  BY DEF LimiterAssumption, TypeOK, PerWindow
<1>3. w \in Int
  BY DEF WindowIds
<1>4. (w + 2) * Window \in Int
  BY <1>2, <1>3
<1>5. CASE Tick
  <2>1. now' = now + 1 /\ AdmittedIn(w)' = AdmittedIn(w)
    BY <1>5, AdmittedKept DEF Tick, history
  <2>2. CASE expires[w] = now + 1 /\ requests[w] > 0
    BY <1>0, <2>1, <2>2 DEF PromptExpiry
  <2>3. CASE expires[w] # now + 1 \/ requests[w] = 0
    <3>1. requests'[w] = requests[w]
      BY <1>5, <2>3 DEF Tick
    <3> QED
      BY <1>1, <1>2, <1>4, <2>1, <3>1
  <2> QED
    BY <1>2, <2>2, <2>3
<1>6. CASE Quiet
  BY <1>1, <1>6, AdmittedKept DEF Quiet
<1>7. ASSUME NEW r \in Requests, AdmitCheck(r)
      PROVE  requests'[w] = AdmittedIn(w)' \/ (w + 2) * Window <= now'
  <2>1. /\ call[r].tokens \in Int /\ Write(call[r].stamp, call[r].tokens, 1)
        /\ now' = now
    BY <1>7 DEF AdmitCheck, TypeOK
  <2>2. requests'[w] = IF w = WindowId(call[r].stamp) THEN requests[w] + 1 ELSE requests[w]
    BY <2>1, WindowWritten
  <2> QED
    BY <1>1, <1>7, <2>1, <2>2, AdmittedInMoves
<1>8. ASSUME NEW r \in Requests, Reconcile(r)
      PROVE  requests'[w] = AdmittedIn(w)' \/ (w + 2) * Window <= now'
  <2>1. /\ call[r].tokens \in Int /\ Write(call[r].stamp, call[r].tokens, 0)
        /\ now' = now /\ admitted' = admitted
    BY <1>8 DEF Reconcile, TypeOK
  <2>2. requests'[w] = requests[w]
    <3>1. requests[w] \in Nat
      BY <1>2
    <3> QED
      BY <2>1, <3>1, WindowWritten
  <2> QED
    BY <1>1, <2>1, <2>2, AdmittedKept
<1> QED
  BY <1>0, <1>5, <1>6, <1>7, <1>8, StepKinds

(* A weight of at least one: the script's comparison bounds the plain sum. *)
LEMMA LeastWeight ==
    ASSUME NEW p \in Nat, NEW c \in Nat, NEW limit \in Nat,
           NEW W \in Nat \ {0}, NEW k \in 1..W,
           p * k + c * W + W <= limit * W
    PROVE  p + (c + 1) * W <= limit * W
<1>1. p <= p * k
  OBVIOUS
<1>2. (c + 1) * W = c * W + W /\ c * W \in Int /\ p * k \in Int /\ limit * W \in Int
  OBVIOUS
<1> QED
  BY <1>1, <1>2

(* The check that ran in its own tick compared what its window and the one *)
(* before really admitted.                                                 *)
LEMMA PromptAdmits ==
    ASSUME LimiterAssumption, TypeOK, PromptCounts, prompt, restarts = 0,
           NEW r \in Requests, AdmitCheck(r), call[r].stamp = now
    PROVE  AdmittedIn(WindowId(now) - 1) + (AdmittedIn(WindowId(now)) + 1) * Window
              <= RpmLimit * Window
<1> DEFINE w == WindowId(now)
           k == Window - Elapsed(now)
<1>1. /\ w \in WindowIds /\ w \in Nat /\ k \in 1..Window
      /\ Window \in Nat \ {0} /\ RpmLimit \in Nat
  BY NowIsStamp DEF LimiterAssumption
<1>2. now < w * Window + Window /\ w * Window \in Int /\ now \in Nat
  <2>1. now \in Nat
    BY NowIsStamp
  <2> HIDE DEF w
  <2>2. now < w * Window + Window
    BY <2>1, WindowSpan DEF w
  <2>3. w * Window \in Int
    BY <1>1
  <2> QED
    BY <2>1, <2>2, <2>3
<1>3. Read(requests, w) = AdmittedIn(w)
  <2> HIDE DEF w
  <2>1. (w + 2) * Window = w * Window + 2 * Window
    BY <1>1
  <2>2. ~((w + 2) * Window <= now)
    BY <1>1, <1>2, <2>1
  <2> QED
    BY <1>1, <2>2 DEF PromptCounts, Read
<1>4. Read(requests, w - 1) = AdmittedIn(w - 1)
  <2> HIDE DEF w
  <2>1. CASE w - 1 \in WindowIds
    <3>1. ((w - 1) + 2) * Window = w * Window + Window
      BY <1>1
    <3>2. ~(((w - 1) + 2) * Window <= now)
      BY <1>1, <1>2, <3>1
    <3> QED
      BY <2>1, <3>2 DEF PromptCounts, Read
  <2>2. CASE w - 1 \notin WindowIds
    BY <2>2, NoSuchWindow DEF Read
  <2> QED
    BY <2>1, <2>2
<1>5. Weighted(requests, now) + Window <= RpmLimit * Window
  BY DEF AdmitCheck, WithinBudget
<1>6. AdmittedIn(w - 1) * k + AdmittedIn(w) * Window + Window <= RpmLimit * Window
  BY <1>3, <1>4, <1>5 DEF Weighted
<1>7. AdmittedIn(w - 1) \in Nat /\ AdmittedIn(w) \in Nat
  BY AdmittedType
<1> HIDE DEF w, k
<1>8. AdmittedIn(w - 1) + (AdmittedIn(w) + 1) * Window <= RpmLimit * Window
  BY <1>1, <1>6, <1>7, LeastWeight
<1> QED
  BY <1>8 DEF w

LEMMA NextPromptPairs ==
    ASSUME LimiterAssumption, TypeOK, PromptCounts, PromptPairs, [Next]_vars
    PROVE  PromptPairs'
<1> SUFFICES ASSUME prompt', restarts' = 0, NEW w \in WindowIds
             PROVE  /\ w > WindowId(now') => AdmittedIn(w)' = 0
                    /\ AdmittedIn(w)' > 0 =>
                          AdmittedIn(w - 1)' + AdmittedIn(w)' * Window <= RpmLimit * Window
  BY DEF PromptPairs, WindowId
<1>0. prompt /\ restarts = 0
  BY NeverUnrestarted
     DEF Next, Serve, Tick, Restart, LoadScript, SendCheck, AdmitCheck, RejectCheck,
         SendReconcile, Reconcile, NoScript, Abandon, history, vars
<1>1. /\ w > WindowId(now) => AdmittedIn(w) = 0
      /\ AdmittedIn(w) > 0 =>
            AdmittedIn(w - 1) + AdmittedIn(w) * Window <= RpmLimit * Window
  BY <1>0 DEF PromptPairs
<1>2. w \in Int /\ WindowId(now) \in Nat /\ now \in Nat
  BY NowIsStamp DEF WindowIds
<1>3. AdmittedIn(w) \in Nat /\ AdmittedIn(w - 1) \in Nat
  BY AdmittedType
<1>4. CASE admitted' = admitted
  <2>1. AdmittedIn(w)' = AdmittedIn(w) /\ AdmittedIn(w - 1)' = AdmittedIn(w - 1)
    BY <1>4, AdmittedKept
  <2>2. WindowId(now') \in Nat /\ WindowId(now) <= WindowId(now')
    <3>1. now' = now \/ now' = now + 1
      BY DEF Next, Serve, Tick, Restart, LoadScript, SendCheck, AdmitCheck, RejectCheck,
             SendReconcile, Reconcile, NoScript, Abandon, vars
    <3> QED
      BY <1>2, <3>1, NextTick
  <2> QED
    BY <1>1, <1>2, <2>1, <2>2
<1>5. ASSUME NEW r \in Requests, AdmitCheck(r)
      PROVE  /\ w > WindowId(now') => AdmittedIn(w)' = 0
             /\ AdmittedIn(w)' > 0 =>
                   AdmittedIn(w - 1)' + AdmittedIn(w)' * Window <= RpmLimit * Window
  <2>1. call[r].stamp = now /\ now' = now
    BY <1>5 DEF AdmitCheck
  <2> DEFINE v == WindowId(now)
  <2>2. /\ AdmittedIn(w)' = IF w = v THEN AdmittedIn(w) + 1 ELSE AdmittedIn(w)
        /\ AdmittedIn(w - 1)' = IF w - 1 = v THEN AdmittedIn(w - 1) + 1
                                             ELSE AdmittedIn(w - 1)
    BY <1>5, <2>1, AdmittedInMoves
  <2>3. CASE w = v
    <3>1. AdmittedIn(v - 1) + (AdmittedIn(v) + 1) * Window <= RpmLimit * Window
      BY <1>0, <1>5, <2>1, PromptAdmits
    <3>2. AdmittedIn(w)' = AdmittedIn(v) + 1 /\ AdmittedIn(w - 1)' = AdmittedIn(v - 1)
      BY <1>2, <2>2, <2>3
    <3> QED
      BY <1>2, <2>1, <2>3, <3>1, <3>2
  <2>4. CASE w > v
    <3>1. AdmittedIn(w)' = 0
      BY <1>1, <1>2, <2>2, <2>4
    <3> QED
      BY <3>1
  <2>5. CASE w < v
    <3>1. AdmittedIn(w)' = AdmittedIn(w) /\ AdmittedIn(w - 1)' = AdmittedIn(w - 1)
      BY <1>2, <2>2, <2>5
    <3> QED
      BY <1>1, <1>2, <2>1, <2>5, <3>1
  <2> QED
    BY <1>2, <2>3, <2>4, <2>5
<1> QED
  BY <1>4, <1>5, OnlyChecksAdmit

THEOREM OnTimeInvHolds == ASSUME LimiterAssumption PROVE Spec => []OnTimeInv
<1>1. Init => OnTimeInv
  <2> SUFFICES ASSUME Init PROVE OnTimeInv
    OBVIOUS
  <2>1. \A w : AdmittedIn(w) = 0
    BY NothingAdmitted
  <2>2. PromptExpiry
    BY DEF Init, PromptExpiry
  <2>3. PromptCounts
    BY <2>1 DEF Init, PromptCounts
  <2>4. PromptPairs
    BY <2>1 DEF PromptPairs
  <2> QED
    BY <2>2, <2>3, <2>4 DEF OnTimeInv
<1>2. TypeOK /\ PromptInv /\ OnTimeInv /\ [Next]_vars => OnTimeInv'
  BY NextPromptExpiry, NextPromptCounts, NextPromptPairs DEF OnTimeInv
<1> QED
  BY <1>1, <1>2, TypeCorrect, PromptLoad, PTL DEF Spec

CapsInv == MaxDelay + ClockSkew <= Window => EachWindowCapped

THEOREM CapsInvHolds == ASSUME LimiterAssumption PROVE Spec => []CapsInv
<1>1. Init => CapsInv
  BY NothingAdmitted DEF CapsInv, EachWindowCapped, LimiterAssumption
<1>2. TypeOK /\ BudgetCap /\ LateInv /\ CapsInv /\ [Next]_vars => CapsInv'
  BY CapsNext DEF CapsInv
<1> QED
  BY <1>1, <1>2, TypeCorrect, BudgetCapped, LateInvHolds, PTL DEF Spec

(* A full window promises an empty one before it.                          *)
LEMMA PairsAreSmall ==
    ASSUME NEW p \in Nat, NEW c \in Nat, NEW limit \in Nat \ {0}, NEW W \in Nat \ {0},
           p <= limit, c > 0 => p + c * W <= limit * W
    PROVE  p + c < 2 * limit
<1>1. CASE c = 0
  BY <1>1
<1>2. CASE c > 0
  <2>1. p + c * W <= limit * W
    BY <1>2
  <2>2. c <= limit
    <3>1. ASSUME c > limit PROVE FALSE
      <4>1. c * W > limit * W
        BY <3>1
      <4>2. c * W \in Int /\ limit * W \in Int
        OBVIOUS
      <4> QED
        BY <2>1, <4>1, <4>2
    <3> QED
      BY <3>1
  <2>3. CASE c = limit
    <3>1. p = 0
      BY <2>1, <2>3
    <3> QED
      BY <2>3, <3>1
  <2>4. CASE c < limit
    BY <2>4
  <2> QED
    BY <2>2, <2>3, <2>4
<1> QED
  BY <1>1, <1>2

(* One window admits no more than rpm_limit when its checks are prompt.    *)
LEMMA PairsCap ==
    ASSUME LimiterAssumption, TypeOK, PromptPairs, prompt, restarts = 0, NEW w
    PROVE  AdmittedIn(w) <= RpmLimit
<1>1. CASE w \notin WindowIds
  BY <1>1, NoSuchWindow DEF LimiterAssumption
<1>2. CASE w \in WindowIds
  <2> DEFINE p == AdmittedIn(w - 1)
             c == AdmittedIn(w)
  <2>1. /\ p \in Nat /\ c \in Nat /\ RpmLimit \in Nat /\ Window \in Nat \ {0}
        /\ c > 0 => p + c * Window <= RpmLimit * Window
    BY <1>2, AdmittedType DEF LimiterAssumption, PromptPairs
  <2> HIDE DEF p, c
  <2>2. ASSUME c > RpmLimit PROVE FALSE
    <3>1. c * Window > RpmLimit * Window
      BY <2>1, <2>2
    <3>2. c * Window \in Int /\ RpmLimit * Window \in Int
      BY <2>1
    <3> QED
      BY <2>1, <2>2, <3>1, <3>2
  <2>3. c <= RpmLimit
    BY <2>1, <2>2
  <2> QED
    BY <2>3 DEF c
<1> QED
  BY <1>1, <1>2

LEMMA WindowsBoundSliding ==
    LimiterAssumption /\ TypeOK /\ LateInv /\ OnTimeInv /\ CapsInv => SlidingLoadBounded
<1> SUFFICES ASSUME LimiterAssumption, TypeOK, LateInv, OnTimeInv, CapsInv,
                    restarts = 0, NEW t \in Stamps
             PROVE  /\ MaxDelay + ClockSkew <= Window => AdmittedUntil(t) <= 2 * RpmLimit
                    /\ prompt /\ RpmLimit > 0 => AdmittedUntil(t) < 2 * RpmLimit
  BY DEF SlidingLoadBounded
<1> DEFINE w == WindowId(t)
           p == AdmittedIn(w - 1)
           c == AdmittedIn(w)
           u == AdmittedUntil(t)
<1>1. u <= p + c
  BY DEF LateInv, UntilCovered
<1>2. p \in Nat /\ c \in Nat /\ u \in Nat /\ w \in WindowIds
  BY AdmittedType, WindowOfStamp
<1>3. RpmLimit \in Nat /\ Window \in Nat \ {0}
  BY DEF LimiterAssumption
<1>4. ASSUME MaxDelay + ClockSkew <= Window PROVE u <= 2 * RpmLimit
  <2>1. c <= RpmLimit
    BY <1>2, <1>4 DEF CapsInv, EachWindowCapped
  <2>2. p <= RpmLimit
    BY <1>3, <1>4, NoSuchWindow DEF CapsInv, EachWindowCapped
  <2> HIDE DEF u, p, c
  <2> QED
    BY <1>1, <1>2, <1>3, <2>1, <2>2
<1>5. ASSUME prompt, RpmLimit > 0 PROVE u < 2 * RpmLimit
  <2>1. c > 0 => p + c * Window <= RpmLimit * Window
    BY <1>2, <1>5 DEF OnTimeInv, PromptPairs
  <2>2. p <= RpmLimit
    BY <1>5, PairsCap DEF OnTimeInv
  <2> HIDE DEF u, p, c
  <2>3. p + c < 2 * RpmLimit
    BY <1>2, <1>3, <1>5, <2>1, <2>2, PairsAreSmall
  <2> QED
    BY <1>1, <1>2, <1>3, <2>3
<1> QED
  BY <1>4, <1>5

(* However the windows fall, and however checks are delayed within them,   *)
(* no Window ticks see more than twice rpm_limit requests admitted; and    *)
(* when every check ran in its own tick, they see fewer.                   *)
THEOREM SlidingLoadIsBounded ==
    ASSUME LimiterAssumption PROVE Spec => []SlidingLoadBounded
<1>1. TypeOK /\ LateInv /\ OnTimeInv /\ CapsInv => SlidingLoadBounded
  BY WindowsBoundSliding
<1> QED
  BY <1>1, TypeCorrect, LateInvHolds, OnTimeInvHolds, CapsInvHolds, PTL

-----------------------------------------------------------------------------
(* Authentication: the budget of failed attempts.                          *)

LEMMA StepIsLimiterStep == [AuthNext]_authVars => [Next]_vars
BY DEF AuthNext, Next, Serve, Resolve, FailToResolve, CountFailure, Unauthorized,
       TooMany, CheckRaises, authVars

(* verify_api_key() uses the limiter as its specification says: no attempt *)
(* changes the counters but by check().                                    *)
THEOREM AuthIsALimiter == AuthSpec => Spec
<1>1. AuthInit => Init
  BY DEF AuthInit
<1> QED
  BY <1>1, StepIsLimiterStep, PTL DEF AuthSpec, Spec

(* However late commands are, a source's windows never count more than     *)
(* auth_failure_rpm_limit failures.                                        *)
THEOREM FailuresCapped ==
    ASSUME LimiterAssumption PROVE AuthSpec => [](BudgetCap /\ WeightedLoadBounded)
BY AuthIsALimiter, BudgetCapped, WeightedLoadIsBounded, PTL

(* Nor, for every stretch of a window's length, more than two budgets'     *)
(* worth; and a fresh check weighs every failure it should.                *)
THEOREM FailuresWeighed ==
    ASSUME LimiterAssumption PROVE AuthSpec => [](WeighedCountsIntact /\ SlidingLoadBounded)
BY AuthIsALimiter, CountsStayIntact, SlidingLoadIsBounded, PTL

LEMMA InitAuthTypeOK == LimiterAssumption /\ AuthInit => AuthTypeOK
<1> SUFFICES ASSUME LimiterAssumption, AuthInit PROVE AuthTypeOK
  OBVIOUS
<1>1. wrong \in [Stamps -> Nat]
  BY DEF AuthInit
<1>2. /\ key \in [Requests -> {"none", "known", "unknown"}]
      /\ answer \in [Requests -> {"none", "tenant", "401", "429", "500"}]
  BY DEF AuthInit
<1> QED
  BY <1>1, <1>2 DEF AuthInit, Init, Idle, AuthTypeOK

LEMMA NextAuthTypeOK ==
    LimiterAssumption /\ TypeOK /\ AuthTypeOK /\ [AuthNext]_authVars => AuthTypeOK'
<1> SUFFICES ASSUME LimiterAssumption, TypeOK, AuthTypeOK, [AuthNext]_authVars
             PROVE  AuthTypeOK'
  OBVIOUS
<1>0. call \in [Requests -> [pc : {"idle", "check", "admitted", "reconcile"},
                             stamp : Stamps, tokens : Int]]
  BY DEF TypeOK
<1> USE DEF AuthTypeOK
<1>1. ASSUME UNCHANGED <<call, attempts>> PROVE AuthTypeOK'
  BY <1>1 DEF attempts
<1>2. ASSUME NEW r \in Requests, Resolve(r) PROVE AuthTypeOK'
  BY <1>2 DEF Resolve, vars
<1>3. ASSUME NEW r \in Requests, FailToResolve(r) PROVE AuthTypeOK'
  BY <1>0, <1>3 DEF FailToResolve, SendCheck
<1>4. ASSUME NEW r \in Requests, CountFailure(r) PROVE AuthTypeOK'
  <2>1. wrong' \in [Stamps -> Nat]
    BY <1>0, <1>4 DEF CountFailure
  <2> QED
    BY <1>0, <1>4, <2>1 DEF CountFailure, AdmitCheck
<1>5. ASSUME NEW r \in Requests, Unauthorized(r) \/ TooMany(r) \/ CheckRaises(r)
      PROVE  AuthTypeOK'
  <2>1. PICK a \in {"401", "429", "500"} : answer' = [answer EXCEPT ![r] = a]
    BY <1>5 DEF Unauthorized, TooMany, CheckRaises
  <2>2. call' = [call EXCEPT ![r] = Idle] /\ UNCHANGED <<key, wrong>>
    BY <1>5 DEF Unauthorized, TooMany, CheckRaises, Abandon, RejectCheck, NoScript
  <2>3. answer' \in [Requests -> {"none", "tenant", "401", "429", "500"}]
    BY <2>1
  <2>4. \A q \in Requests :
           /\ call'[q].pc # "idle" => key'[q] = "unknown" /\ answer'[q] = "none"
           /\ key'[q] # "none" /\ call'[q].pc = "idle" => answer'[q] # "none"
    BY <1>0, <2>1, <2>2 DEF Idle
  <2> QED
    BY <2>2, <2>3, <2>4
<1> QED
  BY <1>1, <1>2, <1>3, <1>4, <1>5
     DEF AuthNext, Tick, Restart, LoadScript, vars, authVars

(* An attempt waits for an answer exactly while the limiter has its call.  *)
THEOREM AttemptsWellFormed ==
    ASSUME LimiterAssumption PROVE AuthSpec => []AuthTypeOK
<1>1. AuthSpec => []TypeOK
  BY AuthIsALimiter, TypeCorrect, PTL
<1> QED
  BY <1>1, InitAuthTypeOK, NextAuthTypeOK, PTL DEF AuthSpec

(* A configured key is never answered anything but its tenant: not by the  *)
(* limiter, not by a delay, not by a Redis that lost its scripts.          *)
THEOREM KnownKeysGetThrough ==
    ASSUME LimiterAssumption PROVE AuthSpec => []KnownNeverLockedOut
<1>1. LimiterAssumption /\ AuthInit => KnownNeverLockedOut
  BY DEF AuthInit, KnownNeverLockedOut
<1>2. AuthTypeOK /\ KnownNeverLockedOut /\ [AuthNext]_authVars => KnownNeverLockedOut'
  <2> SUFFICES ASSUME AuthTypeOK, KnownNeverLockedOut, [AuthNext]_authVars,
                      NEW q \in Requests, key'[q] = "known"
               PROVE  answer'[q] = "tenant"
    BY DEF KnownNeverLockedOut
  <2> USE DEF AuthTypeOK, KnownNeverLockedOut
  <2>1. ASSUME UNCHANGED attempts PROVE answer'[q] = "tenant"
    BY <2>1 DEF attempts
  <2>2. ASSUME NEW r \in Requests, Resolve(r) \/ FailToResolve(r)
        PROVE  answer'[q] = "tenant"
    BY <2>2 DEF Resolve, FailToResolve
  <2>3. ASSUME NEW r \in Requests,
               \/ CountFailure(r) \/ Unauthorized(r)
               \/ TooMany(r) \/ CheckRaises(r)
        PROVE  answer'[q] = "tenant"
    <3>1. call[r].pc # "idle" /\ key' = key
      BY <2>3 DEF CountFailure, Unauthorized, TooMany, CheckRaises,
                  AdmitCheck, Abandon, RejectCheck, NoScript, InFlight
    <3>2. key[r] = "unknown" /\ q # r
      BY <3>1
    <3> QED
      BY <2>3, <3>1, <3>2 DEF CountFailure, Unauthorized, TooMany, CheckRaises
  <2> QED
    BY <2>1, <2>2, <2>3 DEF AuthNext, authVars
<1> QED
  BY <1>1, <1>2, AttemptsWellFormed, PTL DEF AuthSpec

-----------------------------------------------------------------------------
(* What the hashes count are failures: the limiter's calls carry no tokens *)
(* here, and every request it counts was an attempt with an unknown key.   *)

NoTokens ==
    /\ \A r \in Requests : call[r].pc # "reconcile" /\ call[r].tokens = 0
    /\ \A w \in WindowIds : tokens[w] = 0

OnlyFailuresCounted == \A w \in WindowIds : requests[w] <= WrongIn(w)

FailuresInv == NoTokens /\ OnlyFailuresCounted

LEMMA WrongTotals == ASSUME NEW w PROVE WrongIn(w) = Total(wrong, StampsOf(w))
BY DEF WrongIn, Total, StampsOf

LEMMA WrongTotalsNext == ASSUME NEW w PROVE WrongIn(w)' = Total(wrong', StampsOf(w))
<1>1. (WrongIn(w) = Total(wrong, StampsOf(w)))'
  BY WrongTotals, PTL
<1> QED
  BY <1>1

LEMMA WrongType ==
    ASSUME LimiterAssumption, AuthTypeOK, NEW w PROVE WrongIn(w) \in Nat
BY StampSetsFinite, WrongTotals, TotalNatural DEF AuthTypeOK

LEMMA NextNoTokens ==
    ASSUME LimiterAssumption, AuthAssumption, TypeOK, AuthTypeOK, NoTokens,
           [AuthNext]_authVars
    PROVE  NoTokens'
<1>1. ASSUME NEW r \in Requests PROVE call'[r].pc # "reconcile" /\ call'[r].tokens = 0
  <2>1. CASE call'[r] = call[r]
    BY <2>1 DEF NoTokens
  <2>2. CASE call'[r] = Idle
    BY <2>2 DEF Idle
  <2>3. ASSUME NEW q \in Requests, FailToResolve(q) \/ CountFailure(q)
        PROVE  call'[r].pc # "reconcile" /\ call'[r].tokens = 0
    <3>1. call'[q].pc \in {"check", "admitted"} /\ call'[q].tokens = 0
      BY <2>3 DEF FailToResolve, SendCheck, CountFailure, AdmitCheck, AuthAssumption,
                  NoTokens, TypeOK
    <3>2. r # q => call'[r] = call[r]
      BY <2>3 DEF FailToResolve, SendCheck, CountFailure, AdmitCheck, TypeOK
    <3> QED
      BY <2>1, <3>1, <3>2
  <2>4. ASSUME NEW q \in Requests, Resolve(q) \/ Unauthorized(q) \/ TooMany(q) \/ CheckRaises(q)
        PROVE  call'[r] = call[r] \/ call'[r] = Idle
    BY <2>4 DEF Resolve, Unauthorized, TooMany, CheckRaises, Abandon, RejectCheck, NoScript,
                vars, TypeOK
  <2>5. CASE Tick \/ Restart \/ (\E k \in Workers : LoadScript(k)) \/ UNCHANGED authVars
    BY <2>1, <2>5 DEF Tick, Restart, LoadScript, authVars, vars
  <2> QED
    BY <2>1, <2>2, <2>3, <2>4, <2>5 DEF AuthNext
<1>2. ASSUME NEW w \in WindowIds PROVE tokens'[w] = 0
  <2>0. tokens[w] = 0
    BY DEF NoTokens
  <2>1. CASE UNCHANGED tokens
    BY <2>0, <2>1
  <2>2. CASE Tick
    BY <2>0, <2>2 DEF Tick
  <2>3. CASE Restart
    BY <2>0, <2>3 DEF Restart
  <2>4. ASSUME NEW r \in Requests, CountFailure(r) PROVE tokens'[w] = 0
    <3>1. call[r].tokens = 0 /\ Write(call[r].stamp, call[r].tokens, 1)
      BY <2>4 DEF CountFailure, AdmitCheck, NoTokens
    <3>2. tokens' = [tokens EXCEPT ![WindowId(call[r].stamp)] = @ + 0]
      BY <3>1 DEF Write
    <3> QED
      BY <2>0, <3>2 DEF TypeOK, PerWindow
  <2> QED
    BY <2>1, <2>2, <2>3, <2>4
       DEF AuthNext, LoadScript, Resolve, FailToResolve, SendCheck, Unauthorized, TooMany,
           CheckRaises, Abandon, RejectCheck, NoScript, redis, vars, authVars
<1> QED
  BY <1>1, <1>2 DEF NoTokens

(* The limiter's count and the history of failures move together; what     *)
(* Redis forgets only lowers the count.                                    *)
LEMMA NextOnlyFailuresCounted ==
    ASSUME LimiterAssumption, TypeOK, AuthTypeOK, OnlyFailuresCounted, [AuthNext]_authVars
    PROVE  OnlyFailuresCounted'
<1> SUFFICES ASSUME NEW w \in WindowIds PROVE requests'[w] <= WrongIn(w)'
  BY DEF OnlyFailuresCounted
<1>1. requests[w] <= WrongIn(w) /\ WrongIn(w) \in Nat /\ requests[w] \in Nat
  BY WrongType DEF OnlyFailuresCounted, TypeOK, PerWindow
<1>2. ASSUME UNCHANGED wrong, requests'[w] = requests[w] \/ requests'[w] = 0
      PROVE  requests'[w] <= WrongIn(w)'
  <2>1. WrongIn(w)' = WrongIn(w)
    BY <1>2, WrongTotals, WrongTotalsNext
  <2> QED
    BY <1>1, <1>2, <2>1
<1>3. CASE Tick /\ UNCHANGED attempts
  BY <1>2, <1>3 DEF Tick, attempts
<1>4. CASE Restart /\ UNCHANGED attempts
  BY <1>2, <1>4 DEF Restart, attempts
<1>5. ASSUME NEW r \in Requests, CountFailure(r) PROVE requests'[w] <= WrongIn(w)'
  <2> DEFINE f == wrong
             g == wrong'
             t == call[r].stamp
  <2>1. key[r] = "unknown" /\ t \in Stamps /\ call[r].tokens \in Int
    BY <1>5 DEF CountFailure, AdmitCheck, TypeOK, AuthTypeOK
  <2>2. /\ \A s \in StampsOf(w) : f[s] \in Int
        /\ \A s \in StampsOf(w) : g[s] = IF s = t THEN f[s] + 1 ELSE f[s]
    BY <1>5, <2>1 DEF CountFailure, AuthTypeOK, StampsOf
  <2>3. IsFiniteSet(StampsOf(w))
    BY StampSetsFinite
  <2>4. ASSUME NEW d \in Int, d = 1
        PROVE  Total(g, StampsOf(w)) =
                  Total(f, StampsOf(w)) + (IF t \in StampsOf(w) THEN d ELSE 0)
    <3> HIDE DEF f, g, t
    <3>1. \A s \in StampsOf(w) : g[s] = IF s = t THEN f[s] + d ELSE f[s]
      BY <2>2, <2>4
    <3> QED
      BY <2>2, <2>3, <3>1, TotalMoves
  <2>5. WrongIn(w)' = WrongIn(w) + (IF t \in StampsOf(w) THEN 1 ELSE 0)
    BY <2>4, WrongTotals, WrongTotalsNext
  <2>6. requests'[w] = IF w = WindowId(t) THEN requests[w] + 1 ELSE requests[w]
    BY <1>5, <2>1, WindowWritten DEF CountFailure, AdmitCheck
  <2> QED
    BY <1>1, <2>1, <2>5, <2>6 DEF StampsOf
<1>6. CASE UNCHANGED <<wrong, requests>>
  BY <1>2, <1>6
<1> QED
  BY <1>3, <1>4, <1>5, <1>6
     DEF AuthNext, LoadScript, Resolve, FailToResolve, SendCheck, Unauthorized, TooMany,
         CheckRaises, Abandon, RejectCheck, NoScript, redis, vars, attempts, authVars

THEOREM FailuresInvHolds ==
    ASSUME LimiterAssumption, AuthAssumption PROVE AuthSpec => []FailuresInv
<1>1. AuthInit => FailuresInv
  <2> SUFFICES ASSUME AuthInit PROVE FailuresInv
    OBVIOUS
  <2>1. NoTokens
    BY DEF AuthInit, Init, Idle, NoTokens
  <2>2. ASSUME NEW w \in WindowIds PROVE WrongIn(w) = 0
    <3>1. \A t \in StampsOf(w) : wrong[t] = 0
      BY DEF AuthInit, StampsOf
    <3> QED
      BY <3>1, StampSetsFinite, WrongTotals, TotalOfZeros
  <2> QED
    BY <2>1, <2>2 DEF AuthInit, Init, OnlyFailuresCounted, FailuresInv
<1>2. TypeOK /\ AuthTypeOK /\ FailuresInv /\ [AuthNext]_authVars => FailuresInv'
  BY NextNoTokens, NextOnlyFailuresCounted DEF FailuresInv
<1>3. AuthSpec => []TypeOK
  BY AuthIsALimiter, TypeCorrect, PTL
<1> QED
  BY <1>1, <1>2, <1>3, AttemptsWellFormed, PTL DEF AuthSpec

(* A weight of at most one: what the script rejects, the plain counts of   *)
(* the two windows already make up.                                        *)
LEMMA MostWeight ==
    ASSUME NEW p \in Nat, NEW c \in Nat, NEW limit \in Nat,
           NEW W \in Nat \ {0}, NEW k \in 1..W,
           ~(p * k + c * W + W <= limit * W)
    PROVE  p + c >= limit
<1>1. p * k <= p * W
  OBVIOUS
<1>2. (p + c + 1) * W = p * W + c * W + W
  OBVIOUS
<1>3. p * k \in Int /\ p * W \in Int /\ c * W \in Int /\ limit * W \in Int
  OBVIOUS
<1>4. (p + c + 1) * W > limit * W
  BY <1>1, <1>2, <1>3
<1>5. ASSUME p + c + 1 <= limit PROVE FALSE
  <2>1. (p + c + 1) * W <= limit * W
    BY <1>5
  <2> QED
    BY <1>2, <1>3, <1>4, <2>1
<1> QED
  BY <1>5

LEMMA RejectedAfterFailures ==
    ASSUME LimiterAssumption, AuthAssumption, TypeOK, AuthTypeOK, FailuresInv,
           NEW r \in Requests, RejectCheck(r)
    PROVE  LET w == WindowId(call[r].stamp) IN WrongIn(w - 1) + WrongIn(w) >= RpmLimit
<1> DEFINE t == call[r].stamp
           w == WindowId(t)
           k == Window - Elapsed(t)
           p == Read(requests, w - 1)
           c == Read(requests, w)
<1>1. t \in Stamps
  BY DEF TypeOK
<1>2. w \in WindowIds /\ k \in 1..Window /\ Window \in Nat \ {0} /\ RpmLimit \in Nat
  BY <1>1, WindowOfStamp DEF LimiterAssumption
<1>3. \A v : Read(tokens, v) = 0
  BY DEF FailuresInv, NoTokens, Read
<1>4. /\ WrongIn(w - 1) \in Nat /\ WrongIn(w) \in Nat
      /\ p \in Nat /\ c \in Nat
      /\ p <= WrongIn(w - 1) /\ c <= WrongIn(w)
  BY <1>2, WrongType DEF FailuresInv, OnlyFailuresCounted, Read, TypeOK, PerWindow
<1>5. Weighted(tokens, t) + call[r].tokens * Window <= TpmLimit * Window
  <2>1. call[r].tokens = 0 /\ TpmLimit = 0
    BY DEF FailuresInv, NoTokens, AuthAssumption
  <2>2. Weighted(tokens, t) = 0
    BY <1>2, <1>3 DEF Weighted
  <2> QED
    BY <1>2, <2>1, <2>2
<1>6. ~(p * k + c * Window + Window <= RpmLimit * Window)
  BY <1>5 DEF RejectCheck, WithinBudget, Weighted
<1> HIDE DEF p, c, k, w
<1>7. p + c >= RpmLimit
  BY <1>2, <1>4, <1>6, MostWeight
<1>8. WrongIn(w - 1) + WrongIn(w) >= RpmLimit
  BY <1>2, <1>4, <1>7
<1> QED
  BY <1>8 DEF w

(* A 429 always stands for auth_failure_rpm_limit failures that happened.  *)
THEOREM LockedOutFairly ==
    ASSUME LimiterAssumption, AuthAssumption PROVE AuthSpec => LockedOutOnlyByFailures
<1>1. /\ TypeOK /\ AuthTypeOK /\ FailuresInv /\ [AuthNext]_authVars
      => [\A r \in Requests :
             LET w == WindowId(call[r].stamp) IN
             call[r].pc = "check" /\ answer'[r] = "429" =>
                 key[r] = "unknown" /\ WrongIn(w - 1) + WrongIn(w) >= RpmLimit]_authVars
  <2> SUFFICES ASSUME TypeOK, AuthTypeOK, FailuresInv, [AuthNext]_authVars,
                      NEW r \in Requests, call[r].pc = "check", answer'[r] = "429"
               PROVE  LET w == WindowId(call[r].stamp) IN
                      key[r] = "unknown" /\ WrongIn(w - 1) + WrongIn(w) >= RpmLimit
    OBVIOUS
  <2>1. key[r] = "unknown" /\ answer[r] = "none"
    BY DEF AuthTypeOK
  <2>2. RejectCheck(r)
    BY <2>1 DEF AuthNext, Resolve, FailToResolve, CountFailure, Unauthorized, TooMany,
                CheckRaises, AuthTypeOK, attempts, authVars
  <2> QED
    BY <2>1, <2>2, RejectedAfterFailures
<1>2. AuthSpec => []TypeOK
  BY AuthIsALimiter, TypeCorrect, PTL
<1> QED
  BY <1>1, <1>2, AttemptsWellFormed, FailuresInvHolds, PTL
     DEF AuthSpec, LockedOutOnlyByFailures

=============================================================================
