------------------------------- MODULE Gateway -------------------------------
(***************************************************************************)
(* One worker: the concurrent requests of routers/generate.py, the breaker *)
(* objects of app.state.circuit_breakers, the semantic cache, and          *)
(* register_agent_provider(), which may replace a name's provider and      *)
(* breaker while requests that captured the old ones are in flight.        *)
(*                                                                         *)
(* pc names the await a request is suspended in; what runs between two     *)
(* awaits is one step.  Abstracted here and modelled elsewhere: the        *)
(* limiter's answer (RateLimiter), the pruned turns (Pruner), and the      *)
(* provider's stream, of which only the recorded result and the client     *)
(* leaving remain (StreamProxy).                                           *)
(***************************************************************************)
EXTENDS Naturals, FiniteSets

CONSTANTS
    Requests,           \* concurrent request slots
    Tenants, Models,
    Clients,            \* who asks for what: pairs <<tenant, model>>
    Providers,          \* the provider names
    Registrable,        \* the names an application registers agents under
    MaxGenerations,     \* bound: providers registered under one name, in turn
    InjectionMode,      \* prompt_injection_mode
    FailureThreshold,
    ResetTimeout

ASSUME GatewayAssumption ==
    /\ IsFiniteSet(Requests)
    /\ Clients \subseteq Tenants \X Models
    /\ Registrable \subseteq Providers
    /\ MaxGenerations \in Nat \ {0}
    /\ InjectionMode \in {"off", "flag", "block"}
    /\ FailureThreshold \in Nat \ {0}
    /\ ResetTimeout \in Nat

VARIABLES
    current,    \* the generation app.state holds under each name
    breaker,    \* the fields of each CircuitBreaker object
    hist,       \* history of each breaker object: streak, quiet, leaked
    role,       \* history: how each request was let in, see CircuitBreaker
    req,        \* what each request has captured and where it is
    cache,      \* the partitions that hold an entry
    blamed,     \* history: names a failure was recorded for
    proven      \* history: clients a success was recorded for

vars == <<current, breaker, hist, role, req, cache, blamed, proven>>

(* Registering under a name makes a new provider and a new breaker object. *)
Generation == 1..MaxGenerations
Objects == Providers \X Generation
Nothing == <<>>

Await == {"idle", "resolving", "guarding", "checking", "looking",
          "streaming", "reconciling", "storing", "replaying"}

Request == [pc : Await,
            client : Clients \cup {Nothing},
            provider : Objects \cup {Nothing},
            breaker : Objects \cup {Nothing},
            caching : BOOLEAN,
            hit : Clients \cup {Nothing}]

NoRequest == [pc |-> "idle", client |-> Nothing, provider |-> Nothing,
              breaker |-> Nothing, caching |-> FALSE, hit |-> Nothing]

-----------------------------------------------------------------------------
(* The breaker objects.  app.py leaves half_open_max_calls at 1.           *)

RoleFor(o) ==
    [r \in Requests |-> IF req[r].breaker = o THEN role[r] ELSE "idle"]

B(o) == INSTANCE CircuitBreaker
            WITH Callers <- Requests, HalfOpenMaxCalls <- 1,
                 breaker <- breaker[o], role <- RoleFor(o),
                 streak <- hist[o].streak, quiet <- hist[o].quiet,
                 leaked <- hist[o].leaked

NewHist == [streak |-> 0, quiet |-> ResetTimeout, leaked |-> 0]

(* Faulty: whoever is let in, the breaker is only asked for its state.     *)
Faulty_MayPass(o) == B(o)!CurrentState(breaker[o]).state # "OPEN"

MayPass(o) == B(o)!Admits(breaker[o])

Asked(o) == breaker' = [breaker EXCEPT ![o] = B(o)!AfterAllow(breaker[o])]

(* r's part in its breaker is over.  A result decides a HALF_OPEN episode, *)
(* so the trials it leaves behind are late.                                *)
Decided(r) ==
    role' = [q \in Requests |->
               IF q = r THEN "idle"
               ELSE IF req[q].breaker = req[r].breaker /\ role[q] = "trial"
                    THEN "late" ELSE role[q]]

Abandoned(r) ==
    LET o == req[r].breaker IN
    /\ role' = [role EXCEPT ![r] = "idle"]
    /\ hist' = IF role[r] = "trial"
               THEN [hist EXCEPT ![o] =
                       [streak |-> hist[o].streak, quiet |-> hist[o].quiet,
                        leaked |-> hist[o].leaked + 1]]
               ELSE hist

-----------------------------------------------------------------------------
(* app.state, as the dependencies of deps.py read it.                      *)

ProviderFor(p) == <<p, current[p]>>

(* Faulty: re-registering a name keeps the breaker it already has.         *)
Faulty_BreakerFor(p) == <<p, 1>>

(* Faulty: one breaker for all providers, as before ADR-0006.              *)
Shared_BreakerFor(p) == <<CHOOSE q \in Providers : TRUE, 1>>

BreakerFor(p) == <<p, current[p]>>

(* Faulty: results go to the breaker now registered under the name.        *)
Faulty_Judge(r) == BreakerFor(req[r].provider[1])

(* The breaker that hears r's result is the object it was handed.          *)
Judge(r) == req[r].breaker

(* Faulty: the lookup filters on the model alone.                          *)
Faulty_Findable(c) == {e \in cache : e[2] = c[2]}

(* Entries the lookup's tag filter admits; which of them are near enough   *)
(* to the prompt is left open, so a lookup may always miss.                *)
Findable(c) == {e \in cache : e[1] = c[1] /\ e[2] = c[2]}

-----------------------------------------------------------------------------
Init ==
    /\ current = [p \in Providers |-> 1]
    /\ breaker = [o \in Objects |-> B(o)!NewBreaker]
    /\ hist = [o \in Objects |-> NewHist]
    /\ role = [r \in Requests |-> "idle"]
    /\ req = [r \in Requests |-> NoRequest]
    /\ cache = {}
    /\ blamed = {}
    /\ proven = {}

Become(r, new) == req' = [req EXCEPT ![r] = new]
Goto(r, pc) == Become(r, [req[r] EXCEPT !.pc = pc])
Done(r) == Become(r, NoRequest)

app == <<current, cache>>
seen == <<blamed, proven>>

(* The key is verified and get_provider() has run, in a thread of its own. *)
Arrive(r) ==
    /\ req[r].pc = "idle"
    /\ \E c \in Clients, p \in Providers :
         Become(r, [pc |-> "resolving", client |-> c,
                    provider |-> ProviderFor(p), breaker |-> Nothing,
                    caching |-> FALSE, hit |-> Nothing])
    /\ UNCHANGED <<app, breaker, hist, role, seen>>

(* get_circuit_breaker(), in another thread: awaits lie between the two.   *)
Bind(r) ==
    /\ req[r].pc = "resolving"
    /\ Become(r, [pc |-> IF InjectionMode = "off" THEN "checking" ELSE "guarding",
                  client |-> req[r].client, provider |-> req[r].provider,
                  breaker |-> BreakerFor(req[r].provider[1]),
                  caching |-> FALSE, hit |-> Nothing])
    /\ UNCHANGED <<app, breaker, hist, role, seen>>

(* The detector: no match, or it failed or timed out, which fails open; a  *)
(* match ends the request only in block mode, with a 400.                  *)
Guard(r) ==
    /\ req[r].pc = "guarding"
    /\ \/ Goto(r, "checking")
       \/ InjectionMode = "block" /\ Done(r)
    /\ UNCHANGED <<app, breaker, hist, role, seen>>

(* The limiter refuses (429), or its Redis call raises (500).              *)
Limited(r) ==
    /\ req[r].pc = "checking"
    /\ Done(r)
    /\ UNCHANGED <<app, breaker, hist, role, seen>>

(* CircuitOpenError, a 503, after the limiter has charged the request.     *)
Refuse(r) ==
    /\ req[r].pc = "checking"
    /\ ~MayPass(req[r].breaker)
    /\ Asked(req[r].breaker)
    /\ Done(r)
    /\ UNCHANGED <<app, hist, role, seen>>

Admit(r) ==
    /\ req[r].pc = "checking"
    /\ MayPass(req[r].breaker)
    /\ Asked(req[r].breaker)
    /\ role' = [role EXCEPT ![r] =
                  IF breaker'[req[r].breaker].state = "CLOSED"
                  THEN "regular" ELSE "trial"]
    /\ \E eligible \in BOOLEAN :
         Become(r, [pc |-> IF eligible THEN "looking" ELSE "streaming",
                    client |-> req[r].client, provider |-> req[r].provider,
                    breaker |-> req[r].breaker,
                    caching |-> eligible, hit |-> Nothing])
    /\ UNCHANGED <<app, hist, seen>>

(* The response is replayed from the entry; no result is ever recorded.    *)
Hit(r) ==
    /\ req[r].pc = "looking"
    /\ \E e \in Findable(req[r].client) :
         Become(r, [pc |-> "replaying",
                    client |-> req[r].client, provider |-> req[r].provider,
                    breaker |-> req[r].breaker,
                    caching |-> req[r].caching, hit |-> e])
    /\ Abandoned(r)
    /\ UNCHANGED <<app, breaker, seen>>

(* Nothing near enough, or the lookup failed or timed out.                 *)
Miss(r) ==
    /\ req[r].pc = "looking"
    /\ Goto(r, "streaming")
    /\ UNCHANGED <<app, breaker, hist, role, seen>>

Replayed(r) ==
    /\ req[r].pc = "replaying"
    /\ Done(r)
    /\ UNCHANGED <<app, breaker, hist, role, seen>>

(* The store follows, if the request is eligible, or the request is over.  *)
StoreNext(r) == IF req[r].caching THEN Goto(r, "storing") ELSE Done(r)

(* The stream finished cleanly, with or without a reported usage.          *)
Succeed(r) ==
    LET o == Judge(r) IN
    /\ req[r].pc = "streaming"
    /\ breaker' = [breaker EXCEPT ![o] = B(o)!AfterSuccess(breaker[o])]
    /\ hist' = [hist EXCEPT ![o] = [streak |-> 0, quiet |-> hist[o].quiet,
                                    leaked |-> 0]]
    /\ Decided(r)
    /\ Goto(r, "reconciling") \/ StoreNext(r)
    /\ proven' = proven \cup {req[r].client}
    /\ UNCHANGED <<app, blamed>>

Failed(r) ==
    LET o == Judge(r) IN
    /\ breaker' = [breaker EXCEPT ![o] = B(o)!AfterFailure(breaker[o])]
    /\ hist' = [hist EXCEPT ![o] =
                  [streak |-> IF hist[o].streak < FailureThreshold
                              THEN hist[o].streak + 1 ELSE hist[o].streak,
                   quiet |-> 0, leaked |-> 0]]
    /\ Decided(r)
    /\ blamed' = blamed \cup {req[r].provider[1]}

Fail(r) ==
    /\ req[r].pc = "streaming"
    /\ Failed(r)
    /\ Done(r)
    /\ UNCHANGED <<app, proven>>

(* A Redis call that raises ends the body before the store.                *)
Reconcile(r) ==
    /\ req[r].pc = "reconciling"
    /\ StoreNext(r) \/ Done(r)
    /\ UNCHANGED <<app, breaker, hist, role, seen>>

(* A store that fails is swallowed.                                        *)
Store(r) ==
    /\ req[r].pc = "storing"
    /\ cache' \in {cache, cache \cup {req[r].client}}
    /\ Done(r)
    /\ UNCHANGED <<current, breaker, hist, role, seen>>

(* Once the response has begun, a client that leaves cancels its body.     *)
Disconnect(r) ==
    /\ req[r].pc \in {"streaming", "reconciling", "storing", "replaying"}
    /\ Abandoned(r)
    /\ Done(r)
    /\ UNCHANGED <<app, breaker, seen>>

(* cache_ttl_s has passed for an entry.                                    *)
Expire ==
    /\ \E e \in cache : cache' = cache \ {e}
    /\ UNCHANGED <<current, breaker, hist, role, req, seen>>

(* register_agent_provider() awaits nothing: both objects change at once.  *)
Register(p) ==
    /\ current[p] < MaxGenerations
    /\ current' = [current EXCEPT ![p] = @ + 1]
    /\ UNCHANGED <<breaker, hist, role, req, cache, seen>>

Aged(b) == IF b.state = "OPEN" /\ b.age < ResetTimeout
           THEN [b EXCEPT !.age = @ + 1]
           ELSE b

Tick ==
    /\ \E o \in Objects : hist[o].quiet < ResetTimeout \/ breaker[o] # Aged(breaker[o])
    /\ breaker' = [o \in Objects |-> Aged(breaker[o])]
    /\ hist' = [o \in Objects |->
                  [streak |-> hist[o].streak, leaked |-> hist[o].leaked,
                   quiet |-> IF hist[o].quiet < ResetTimeout
                             THEN hist[o].quiet + 1 ELSE hist[o].quiet]]
    /\ UNCHANGED <<app, role, req, seen>>

Step(r) ==
    \/ Arrive(r) \/ Bind(r) \/ Guard(r)
    \/ Limited(r) \/ Refuse(r) \/ Admit(r)
    \/ Hit(r) \/ Miss(r) \/ Replayed(r)
    \/ Succeed(r) \/ Fail(r) \/ Reconcile(r) \/ Store(r)
    \/ Disconnect(r)

Next ==
    \/ \E r \in Requests : Step(r)
    \/ \E p \in Registrable : Register(p)
    \/ Expire
    \/ Tick

Spec == Init /\ [][Next]_vars

-----------------------------------------------------------------------------
(* Every field keeps its type; no breaker object leaks a second slot.      *)
TypeOK ==
    /\ current \in [Providers -> Generation]
    /\ breaker \in [Objects -> B(Nothing)!Breaker]
    /\ hist \in [Objects -> [streak : 0..FailureThreshold,
                             quiet : 0..ResetTimeout, leaked : 0..1]]
    /\ req \in [Requests -> Request]
    /\ role \in [Requests -> B(Nothing)!Role]
    /\ cache \subseteq Clients /\ proven \subseteq Clients
    /\ blamed \subseteq Providers

(* Seen from any one breaker object, requests, registrations and the other *)
(* providers' traffic amount to the CircuitBreaker module: what is proved  *)
(* there holds of every object, the replaced ones included.                *)
EachBreakerImplements ==
    /\ \A o \in Objects : B(o)!Init
    /\ [][\A o \in Objects : UNCHANGED B(o)!vars \/ B(o)!Next]_vars

(* deps.py: the dependencies of one request run one after the other, and a *)
(* registration may fall between.  A request may meet a breaker newer than *)
(* its provider, but no provider is judged by its predecessor's breaker.   *)
NeverJudgedByPredecessor ==
    \A r \in Requests : req[r].breaker # Nothing =>
        /\ req[r].breaker[1] = req[r].provider[1]
        /\ req[r].provider[2] <= req[r].breaker[2]

(* deps.py, get_circuit_breaker: an outage on one upstream must never      *)
(* short-circuit requests to an unrelated one.  Nobody is refused a        *)
(* provider of whose name no failure was ever recorded.                    *)
OutagesStayLocal ==
    \A r \in Requests :
        req[r].pc = "checking" /\ req[r].provider[1] \notin blamed
            => MayPass(req[r].breaker)

(* semantic-caching.md: no cross-tenant or cross-model hit, ever; and what *)
(* is replayed once reached a client of that partition to a clean finish.  *)
HitsStayInPartition ==
    \A r \in Requests : req[r].pc = "replaying" =>
        req[r].hit = req[r].client /\ req[r].hit \in proven

-----------------------------------------------------------------------------
(* The inductive invariant behind these, but for the bound on leaks, which *)
(* is CircuitBreaker's to show: each part is what one of the steps needs.  *)

Shape ==
    /\ current \in [Providers -> Generation]
    /\ breaker \in [Objects -> B(Nothing)!Breaker]
    /\ hist \in [Objects -> [streak : 0..FailureThreshold,
                             quiet : 0..ResetTimeout, leaked : Nat]]
    /\ req \in [Requests -> Request]
    /\ role \in [Requests -> B(Nothing)!Role]
    /\ cache \subseteq Clients /\ proven \subseteq Clients
    /\ blamed \subseteq Providers

(* What a request holds at each await, and that only one which was let in  *)
(* and has not reported has a role with its breaker.                       *)
Captured ==
    \A r \in Requests :
        /\ role[r] # "idle" <=> req[r].pc \in {"looking", "streaming"}
        /\ req[r].pc = "idle" => req[r] = NoRequest
        /\ req[r].pc # "idle" => req[r].client \in Clients /\ req[r].provider \in Objects
        /\ req[r].pc = "resolving" =>
             /\ req[r].breaker = Nothing
             /\ req[r].provider[2] <= current[req[r].provider[1]]
        /\ req[r].pc \notin {"idle", "resolving"} => req[r].breaker \in Objects

Blameless == \A o \in Objects : o[1] \notin blamed => breaker[o].state = "CLOSED"

OnlyProvenStored ==
    /\ cache \subseteq proven
    /\ \A r \in Requests :
         req[r].pc \in {"reconciling", "storing"} => req[r].client \in proven

IInv == /\ Shape /\ Captured /\ Blameless /\ OnlyProvenStored
        /\ NeverJudgedByPredecessor /\ HitsStayInPartition

=============================================================================
