----------------------------- MODULE RateLimiter -----------------------------
(***************************************************************************)
(* The token-aware limiter of ratelimit.py and scripts/sliding_window.lua, *)
(* for one key {tenant_api_key}:{model}.  Workers share the counters in    *)
(* Redis; every request of a worker goes through                           *)
(*     check -> (admitted) -> upstream call -> reconcile.                  *)
(* check() and reconcile() read the clock, then await EVALSHA: the script  *)
(* is atomic in Redis, but it runs later, on a timestamp that may already  *)
(* be stale, and other requests run in between.                            *)
(*                                                                         *)
(* Time is counted in ticks.  A window is Window ticks long, and weights   *)
(* are kept exact by multiplying both sides of the script's comparisons by *)
(* Window.                                                                 *)
(***************************************************************************)
EXTENDS Integers, FiniteSetsExt

CONSTANTS
    Requests,       \* concurrent requests on the key, over all workers
    Workers,        \* gateway worker processes
    WorkerOf,       \* the worker that serves each request
    Window,         \* rate_limit_window_s, in ticks
    RpmLimit,       \* rpm_limit
    TpmLimit,       \* tpm_limit
    Estimates,      \* the pre-call estimates requests may have
    Actuals,        \* the total_tokens providers may report
    MaxDelay,       \* how many ticks a command may take to reach Redis
    ClockSkew,      \* how far ahead of Redis's clock a worker's may be
    MaxTime,        \* bound: the last tick modelled
    MaxRestarts     \* bound: how often Redis is restarted

ASSUME LimiterAssumption ==
    /\ WorkerOf \in [Requests -> Workers]
    /\ Window \in Nat \ {0}
    /\ RpmLimit \in Nat /\ TpmLimit \in Nat
    /\ Estimates \subseteq Nat /\ Actuals \subseteq Nat
    /\ MaxDelay \in Nat /\ ClockSkew \in Nat
    /\ MaxTime \in Nat /\ MaxRestarts \in Nat

VARIABLES
    now,        \* Redis's clock
    tokens,     \* the `tokens' field of the hash of each window id
    requests,   \* the `requests' field
    expires,    \* when each hash expires; 0 while it does not exist
    loaded,     \* whether Redis has the script
    restarts,   \* restarts so far
    sha,        \* which workers have cached the script's sha
    call,       \* each request's progress through check and reconcile
    raised,     \* whether a worker's last limiter call raised
    overrun,    \* history: tokens reconcile added to each window
    refund,     \* history: tokens reconcile took from each window
    admitted,   \* history: requests admitted at each timestamp
    prompt      \* history: every one of them in the tick of its timestamp

redis == <<tokens, requests, expires, loaded, restarts>>
history == <<overrun, refund, admitted, prompt>>
vars == <<now, redis, sha, call, raised, history>>

Stamps == 0..(MaxTime + ClockSkew)
WindowId(t) == t \div Window
Elapsed(t) == t % Window
WindowIds == 0..WindowId(MaxTime + ClockSkew)

(* A hash that does not exist reads as zero; so does window -1.            *)
Read(field, w) == IF w \in WindowIds THEN field[w] ELSE 0

Idle == [pc |-> "idle", stamp |-> 0, tokens |-> 0]
InFlight(r) == call[r].pc \in {"check", "reconcile"}

-----------------------------------------------------------------------------
(* The Lua script.                                                         *)

(* Faulty: the weight grows where it should shrink.                        *)
Faulty_Weighted(field, t) ==
    Read(field, WindowId(t) - 1) * Elapsed(t) + Read(field, WindowId(t)) * Window

(* prev * prev_weight + curr, times Window.                                *)
Weighted(field, t) ==
    Read(field, WindowId(t) - 1) * (Window - Elapsed(t))
        + Read(field, WindowId(t)) * Window

(* Faulty: the request being checked is not counted.                       *)
Faulty_WithinBudget(t, estimate) ==
    /\ Weighted(tokens, t) <= TpmLimit * Window
    /\ Weighted(requests, t) <= RpmLimit * Window

WithinBudget(t, estimate) ==
    /\ Weighted(tokens, t) + estimate * Window <= TpmLimit * Window
    /\ Weighted(requests, t) + Window <= RpmLimit * Window

(* Faulty: the hash lives for one window only.                             *)
Faulty_Write(t, tokenDelta, requestDelta) ==
    /\ tokens' = [tokens EXCEPT ![WindowId(t)] = @ + tokenDelta]
    /\ requests' = [requests EXCEPT ![WindowId(t)] = @ + requestDelta]
    /\ expires' = [expires EXCEPT ![WindowId(t)] = now + Window]

(* HINCRBY on the hash of t's window, and EXPIRE by Redis's own clock.     *)
Write(t, tokenDelta, requestDelta) ==
    /\ tokens' = [tokens EXCEPT ![WindowId(t)] = @ + tokenDelta]
    /\ requests' = [requests EXCEPT ![WindowId(t)] = @ + requestDelta]
    /\ expires' = [expires EXCEPT ![WindowId(t)] = now + 2 * Window]

-----------------------------------------------------------------------------
Init ==
    /\ now = 0
    /\ tokens = [w \in WindowIds |-> 0]
    /\ requests = [w \in WindowIds |-> 0]
    /\ expires = [w \in WindowIds |-> 0]
    /\ loaded = FALSE
    /\ restarts = 0
    /\ sha = [k \in Workers |-> FALSE]
    /\ call = [r \in Requests |-> Idle]
    /\ raised = [k \in Workers |-> FALSE]
    /\ overrun = [w \in WindowIds |-> 0]
    /\ refund = [w \in WindowIds |-> 0]
    /\ admitted = [t \in Stamps |-> 0]
    /\ prompt = TRUE

(* _get_script_sha() of a worker that has none yet.                        *)
LoadScript(k) ==
    /\ ~sha[k]
    /\ sha' = [sha EXCEPT ![k] = TRUE]
    /\ loaded' = TRUE
    /\ UNCHANGED <<now, tokens, requests, expires, restarts, call, raised, history>>

(* check() up to its await: the worker's clock is read here.               *)
SendCheck(r) ==
    /\ call[r].pc = "idle"
    /\ sha[WorkerOf[r]]
    /\ \E t \in now..(now + ClockSkew), e \in Estimates :
          call' = [call EXCEPT ![r] = [pc |-> "check", stamp |-> t, tokens |-> e]]
    /\ UNCHANGED <<now, redis, sha, raised, history>>

(* The script in mode "check" finds room and consumes it.                  *)
AdmitCheck(r) ==
    LET t == call[r].stamp IN
    /\ call[r].pc = "check"
    /\ loaded
    /\ WithinBudget(t, call[r].tokens)
    /\ Write(t, call[r].tokens, 1)
    /\ admitted' = [admitted EXCEPT ![t] = @ + 1]
    /\ prompt' = (prompt /\ t = now)
    /\ call' = [call EXCEPT ![r] = [pc |-> "admitted", stamp |-> 0,
                                    tokens |-> call[r].tokens]]
    /\ raised' = [raised EXCEPT ![WorkerOf[r]] = FALSE]
    /\ UNCHANGED <<now, loaded, restarts, sha, overrun, refund>>

(* It finds none: a 429, and nothing is written.                           *)
RejectCheck(r) ==
    /\ call[r].pc = "check"
    /\ loaded
    /\ ~WithinBudget(call[r].stamp, call[r].tokens)
    /\ call' = [call EXCEPT ![r] = Idle]
    /\ raised' = [raised EXCEPT ![WorkerOf[r]] = FALSE]
    /\ UNCHANGED <<now, redis, sha, history>>

(* reconcile() up to its await, after a clean finish that reported usage.  *)
SendReconcile(r) ==
    /\ call[r].pc = "admitted"
    /\ \E t \in now..(now + ClockSkew), a \in Actuals :
          call' = [call EXCEPT ![r] = [pc |-> "reconcile", stamp |-> t,
                                       tokens |-> a - call[r].tokens]]
    /\ UNCHANGED <<now, redis, sha, raised, history>>

(* The script in mode "reconcile": the window of now, not of the check.    *)
Reconcile(r) ==
    LET w == WindowId(call[r].stamp)
        delta == call[r].tokens
    IN
    /\ call[r].pc = "reconcile"
    /\ loaded
    /\ Write(call[r].stamp, delta, 0)
    /\ overrun' = [overrun EXCEPT ![w] = IF delta > 0 THEN @ + delta ELSE @]
    /\ refund' = [refund EXCEPT ![w] = IF delta < 0 THEN @ - delta ELSE @]
    /\ call' = [call EXCEPT ![r] = Idle]
    /\ raised' = [raised EXCEPT ![WorkerOf[r]] = FALSE]
    /\ UNCHANGED <<now, loaded, restarts, sha, admitted, prompt>>

(* EVALSHA of a script Redis no longer has raises NoScriptError; nothing   *)
(* catches it and the cached sha stays.                                    *)
NoScript(r) ==
    /\ InFlight(r)
    /\ ~loaded
    /\ call' = [call EXCEPT ![r] = Idle]
    /\ raised' = [raised EXCEPT ![WorkerOf[r]] = TRUE]
    /\ UNCHANGED <<now, redis, sha, history>>

(* The request ends without (further) reconciling: its client disconnects, *)
(* the breaker or the upstream fails it, it hits the cache, or no usage is *)
(* reported; a command already sent may be lost with its connection.       *)
Abandon(r) ==
    /\ call[r].pc # "idle"
    /\ call' = [call EXCEPT ![r] = Idle]
    /\ UNCHANGED <<now, redis, sha, raised, history>>

(* Time passes, though no command stays on its way longer than MaxDelay,   *)
(* and Redis drops the hashes that are due.                                *)
Tick ==
    LET dropped(w) == expires[w] = now + 1
        Keep(field) == [w \in WindowIds |-> IF dropped(w) THEN 0 ELSE field[w]]
    IN
    /\ now < MaxTime
    /\ \A r \in Requests : InFlight(r) => now < call[r].stamp + MaxDelay
    /\ now' = now + 1
    /\ tokens' = Keep(tokens)
    /\ requests' = Keep(requests)
    /\ expires' = Keep(expires)
    /\ UNCHANGED <<loaded, restarts, sha, call, raised, history>>

(* Redis restarts.  It never persists scripts; it may persist hashes.      *)
Restart ==
    LET Zero == [w \in WindowIds |-> 0] IN
    /\ restarts < MaxRestarts
    /\ restarts' = restarts + 1
    /\ loaded' = FALSE
    /\ \/ UNCHANGED <<tokens, requests, expires>>
       \/ tokens' = Zero /\ requests' = Zero /\ expires' = Zero
    /\ UNCHANGED <<now, sha, call, raised, history>>

Serve(r) ==
    \/ SendCheck(r) \/ AdmitCheck(r) \/ RejectCheck(r)
    \/ SendReconcile(r) \/ Reconcile(r) \/ NoScript(r)

Next ==
    \/ Tick \/ Restart
    \/ \E k \in Workers : LoadScript(k)
    \/ \E r \in Requests : Serve(r) \/ Abandon(r)

Spec == Init /\ [][Next]_vars

(* Requests keep coming and Redis answers them.                            *)
FairSpec ==
    /\ Spec
    /\ \A k \in Workers : WF_vars(LoadScript(k))
    /\ \A r \in Requests : WF_vars(Serve(r))

-----------------------------------------------------------------------------
PerWindow(S) == [WindowIds -> S]

(* Every counter is a number; every call in flight has a valid timestamp,  *)
(* and only a reconcile carries a delta that may be negative.              *)
TypeOK ==
    /\ now \in 0..MaxTime
    /\ tokens \in PerWindow(Int)
    /\ requests \in PerWindow(Nat)
    /\ expires \in PerWindow(Nat)
    /\ loaded \in BOOLEAN
    /\ restarts \in 0..MaxRestarts
    /\ sha \in [Workers -> BOOLEAN]
    /\ call \in [Requests -> [pc : {"idle", "check", "admitted", "reconcile"},
                              stamp : Stamps, tokens : Int]]
    /\ \A r \in Requests : call[r].pc # "reconcile" => call[r].tokens >= 0
    /\ raised \in [Workers -> BOOLEAN]
    /\ overrun \in PerWindow(Nat)
    /\ refund \in PerWindow(Nat)
    /\ admitted \in [Stamps -> Nat]
    /\ prompt \in BOOLEAN

(* Whatever the delays, skews, expiries and restarts, the hash of a window *)
(* never counts more than rpm_limit requests; its tokens pass tpm_limit    *)
(* only by what reconcile added to it, or took from the window before it;  *)
(* and they are negative only by what reconcile took.                      *)
BudgetCap ==
    \A w \in WindowIds :
        /\ requests[w] <= RpmLimit
        /\ tokens[w] <= TpmLimit + overrun[w] + Read(refund, w - 1)
        /\ -refund[w] <= tokens[w]

(* An expiry never forgets a request a fresh check still has to weigh: the *)
(* hash of this window counts all it admitted, and so does the one of the  *)
(* window before; but a worker whose clock is ahead starts the two-window  *)
(* expiry that much earlier, so in the last ClockSkew ticks it may be gone. *)
(* (With clocks a whole window ahead even this window's may be.)           *)
AdmittedIn(w) ==
    MapThenSumSet(LAMBDA t : admitted[t], {t \in Stamps : WindowId(t) = w})
WeighedCountsIntact ==
    restarts = 0 /\ ClockSkew <= Window =>
        \A w \in {WindowId(now), WindowId(now + ClockSkew) - 1} \cap WindowIds :
            requests[w] = AdmittedIn(w)

(* Requests admitted in the Window ticks that end with t.                  *)
AdmittedUntil(t) ==
    MapThenSumSet(LAMBDA u : admitted[u], {u \in Stamps : t - Window < u /\ u <= t})

(* In any Window ticks, wherever they start, at most twice rpm_limit       *)
(* requests are admitted: what the two hashes they touch can count, unless *)
(* a check was on its way so long that its window's hash was dropped and   *)
(* began anew.  Fewer than that if every admitted check ran in the tick it *)
(* was stamped in.                                                         *)
SlidingLoadBounded ==
    restarts = 0 =>
        \A t \in Stamps :
            /\ MaxDelay + ClockSkew <= Window => AdmittedUntil(t) <= 2 * RpmLimit
            /\ prompt /\ RpmLimit > 0 => AdmittedUntil(t) < 2 * RpmLimit

(* The script's own measure: as long as every admitted check ran in the    *)
(* tick it was stamped in, the weighted request count never passes         *)
(* rpm_limit, at any moment of any window.                                 *)
WeightedLoadBounded ==
    prompt => Weighted(requests, now) <= RpmLimit * Window

(* What makes it inductive: no window is counted in before it starts.      *)
FutureEmpty == \A w \in WindowIds : w > WindowId(now) => requests[w] = 0
PromptInv == prompt => FutureEmpty

(* advanced/deployment.md: losing Redis's data only resets the budgets, so *)
(* a worker whose call raised serves again once Redis is back.             *)
ServesAgain == \A k \in Workers : raised[k] ~> ~raised[k]

=============================================================================
