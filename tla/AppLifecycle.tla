---------------------------- MODULE AppLifecycle ----------------------------
(***************************************************************************)
(* The life of one app: create_app() of app.py, the lifespan it defines,   *)
(* the provider table of providers/registry.py, and agents registered at   *)
(* any time with register_agent_provider().                                *)
(*                                                                         *)
(* Everything runs on one event loop.  Startup has no await, so it is one  *)
(* step.  Shutdown awaits each provider's aclose() and Redis's, and other  *)
(* code may register an agent during those awaits, while the loop iterates *)
(* over the very dict the agent is added to.  An app may be served again   *)
(* after its lifespan ended (a test client entered twice).                 *)
(***************************************************************************)
EXTENDS Integers, Sequences, FiniteSets

CONSTANTS
    AgentNames,         \* names agents may be registered under
    MaxLifespans,       \* bound: how often the app is started
    MaxRegistrations    \* bound: how many agents are registered

(* The order of SPECS, and the providers that own a connection pool: only  *)
(* AnthropicProvider has an aclose().                                      *)
SpecNames == <<"gemini", "openai", "anthropic">>
Vendors == {SpecNames[i] : i \in DOMAIN SpecNames}
PoolOwners == {"anthropic"}
Names == Vendors \cup AgentNames

ASSUME LifecycleAssumption ==
    MaxLifespans \in Nat /\ MaxRegistrations \in Nat

VARIABLES
    config,     \* the settings, and what is installed on the machine
    phase,      \* where create_app() and the lifespan are
    lifespan,   \* how often the app was started
    registered, \* how many agents were registered
    detector,   \* app.state.injection_detector is not None
    providers,  \* app.state.providers: who is under each name
    order,      \*   the keys of that dict in the order they were added
    breakers,   \* app.state.circuit_breakers: who made each name's breaker
    client,     \* the lifespan that made the open shared HTTP client; 0: none
    redis,      \* the lifespans whose Redis client was not closed
    pools,      \* the lifespans whose Anthropic pool is open
    visited,    \* shutdown: how many providers the loop has been handed
    size,       \* shutdown: the size of the dict when the loop began
    mishaps     \* history: what went wrong for the resources to close

resources == <<client, redis, pools>>
loop == <<visited, size>>
vars == <<config, phase, lifespan, registered, detector, providers, order,
          breakers, resources, loop, mishaps>>

NoProvider == [kind |-> "none", made |-> 0]
NoBreaker == -1

(* _key_is_set(): an empty key counts as unset; "blank" stands for both.   *)
Configured == {n \in Vendors : config.keys[n] = "set"}

(* A vendor's provider has an aclose() if it owns a pool; agents have none. *)
Owns(n) == n \in PoolOwners /\ providers[n].kind = "vendor"

-----------------------------------------------------------------------------
Configs ==
    [keys : [Vendors -> {"blank", "set"}],
     installed : {Vendors, {"gemini", "openai"}, {"anthropic"}},
     mode : {"off", "block"},
     backend : {"none", "local_classifier"},
     model : {"none", "missing", "there"}]

Init ==
    /\ config \in Configs
    /\ phase = "new"
    /\ lifespan = 0 /\ registered = 0
    /\ detector = FALSE
    /\ providers = [n \in Names |-> NoProvider]
    /\ order = <<>>
    /\ breakers = [n \in Names |-> NoBreaker]
    /\ client = 0 /\ redis = {} /\ pools = {}
    /\ visited = 0 /\ size = 0
    /\ mishaps = {}

(* Faulty: a backend that is not there is no reason not to boot.           *)
Faulty_DetectorUsable ==
    \/ config.backend = "none"
    \/ config.backend # "none" /\ config.model # "missing"

(* _build_injection_detector() returns; otherwise it raises.               *)
DetectorUsable ==
    \/ config.backend = "none" /\ config.mode = "off"
    \/ config.backend # "none" /\ config.model = "there"

(* create_app(): one breaker per configured provider, and no provider yet. *)
CreateApp ==
    /\ phase = "new"
    /\ Configured # {} /\ DetectorUsable
    /\ phase' = "created"
    /\ detector' = (config.backend # "none")
    /\ breakers' = [n \in Names |-> IF n \in Configured THEN 0 ELSE NoBreaker]
    /\ UNCHANGED <<config, lifespan, registered, providers, order, resources,
                   loop, mishaps>>

(* create_app() raises: nothing to serve, or no detector that works.       *)
RefuseToBoot ==
    /\ phase = "new"
    /\ Configured = {} \/ ~DetectorUsable
    /\ phase' = "refused"
    /\ UNCHANGED <<config, lifespan, registered, detector, providers, order,
                   breakers, resources, loop, mishaps>>

(* Other code runs before and between lifespans, while serving, and at the *)
(* awaits of the shutdown.                                                 *)
OthersRun == phase \in {"created", "serving", "aclosing", "closing_redis", "ended"}

(* Faulty: a breaker that is there already is kept.                        *)
Faulty_Register(n) ==
    /\ OthersRun /\ registered < MaxRegistrations
    /\ registered' = registered + 1
    /\ providers' = [providers EXCEPT ![n] = [kind |-> "agent", made |-> registered']]
    /\ order' = IF providers[n] = NoProvider THEN Append(order, n) ELSE order
    /\ breakers' = [breakers EXCEPT ![n] = IF @ = NoBreaker THEN registered' ELSE @]
    /\ mishaps' = mishaps \cup {h \in {"replaced", "grew"} :
                     \/ h = "replaced" /\ Owns(n)
                     \/ h = "grew" /\ phase = "aclosing" /\ providers[n] = NoProvider}
    /\ UNCHANGED <<config, phase, lifespan, detector, resources, loop>>

(* register_agent_provider(): both entries are written, without an await.  *)
Register(n) ==
    /\ OthersRun /\ registered < MaxRegistrations
    /\ registered' = registered + 1
    /\ providers' = [providers EXCEPT ![n] = [kind |-> "agent", made |-> registered']]
    /\ order' = IF providers[n] = NoProvider THEN Append(order, n) ELSE order
    /\ breakers' = [breakers EXCEPT ![n] = registered']
    /\ mishaps' = mishaps \cup {h \in {"replaced", "grew"} :
                     \/ h = "replaced" /\ Owns(n)
                     \/ h = "grew" /\ phase = "aclosing" /\ providers[n] = NoProvider}
    /\ UNCHANGED <<config, phase, lifespan, detector, resources, loop>>

-----------------------------------------------------------------------------
(* Lifespan startup.                                                       *)

(* ProviderSpec.build() raises for the first vendor whose extra is not     *)
(* installed, so those before it in SPECS were built.                      *)
Missing == Configured \ config.installed
Built ==
    {SpecNames[i] : i \in {j \in DOMAIN SpecNames :
        SpecNames[j] \in Configured /\ \A k \in 1..j : SpecNames[k] \notin Missing}}

(* Faulty: names already taken keep what they have.                        *)
Faulty_Updated(n) == n \in Configured /\ providers[n] = NoProvider

(* dict.update(): every configured vendor's name gets the new object, ...  *)
Updated(n) == n \in Configured

(* Faulty: a key that is overwritten is added once more.                   *)
Faulty_Added(n) == Updated(n)

(* ... and those that were not there yet are added, in the order of SPECS. *)
Added(n) == Updated(n) /\ providers[n] = NoProvider
KeyAdded(i) == IF Added(SpecNames[i]) THEN <<SpecNames[i]>> ELSE <<>>

Start ==
    /\ phase \in {"created", "ended"} /\ lifespan < MaxLifespans
    /\ lifespan' = lifespan + 1
    /\ redis' = redis \cup {lifespan'}
    /\ pools' = IF Built \cap PoolOwners = {} THEN pools ELSE pools \cup {lifespan'}

Startup ==
    /\ Start
    /\ Missing = {}
    /\ phase' = "serving"
    /\ client' = lifespan'
    /\ providers' = [n \in Names |->
                        IF Updated(n) THEN [kind |-> "vendor", made |-> lifespan']
                        ELSE providers[n]]
    /\ order' = order \o KeyAdded(1) \o KeyAdded(2) \o KeyAdded(3)
    /\ UNCHANGED <<config, registered, detector, breakers, loop, mishaps>>

(* An extra is missing: `async with' closes the HTTP client, nothing was   *)
(* updated, the Redis client that never connected is just dropped.         *)
StartupFails ==
    /\ Start
    /\ Missing # {}
    /\ phase' = "failed"
    /\ UNCHANGED <<config, registered, detector, providers, order, breakers,
                   client, loop, mishaps>>

-----------------------------------------------------------------------------
(* Lifespan shutdown: the finally block, then the end of `async with'.     *)

closed == <<config, lifespan, registered, detector, providers, order, breakers>>

Stop ==
    /\ phase = "serving"
    /\ phase' = "iterating"
    /\ visited' = 0 /\ size' = Len(order)
    /\ UNCHANGED <<closed, resources, mishaps>>

(* The iterator notices that the dict has grown: RuntimeError.             *)
LoopBreaks ==
    /\ phase = "iterating" /\ Len(order) # size
    /\ phase' = "unwinding"
    /\ UNCHANGED <<closed, resources, loop, mishaps>>

(* Faulty: aclose is looked up under another name.                         *)
Faulty_HasAclose(n) == FALSE

HasAclose(n) == Owns(n)

(* The next provider: its aclose(), if it has one, is awaited.             *)
Visit ==
    /\ phase = "iterating" /\ Len(order) = size /\ visited < size
    /\ visited' = visited + 1
    /\ phase' = IF HasAclose(order[visited']) THEN "aclosing" ELSE "iterating"
    /\ UNCHANGED <<closed, resources, size, mishaps>>

LoopEnds ==
    /\ phase = "iterating" /\ Len(order) = size /\ visited = size
    /\ phase' = "closing_redis"
    /\ UNCHANGED <<closed, resources, loop, mishaps>>

(* The pool that is closed is the one of the provider the loop was handed: *)
(* an agent may have taken its name since.                                 *)
AcloseReturns ==
    /\ phase = "aclosing"
    /\ phase' = "iterating"
    /\ pools' = pools \ {lifespan}
    /\ UNCHANGED <<closed, client, redis, loop, mishaps>>

(* An exception of an aclose() leaves the loop and the finally block.      *)
AcloseRaises ==
    /\ phase = "aclosing"
    /\ phase' = "unwinding"
    /\ mishaps' = mishaps \cup {"raised"}
    /\ UNCHANGED <<closed, resources, loop>>

CloseRedis ==
    /\ phase = "closing_redis"
    /\ phase' = "unwinding"
    /\ \/ redis' = redis \ {lifespan} /\ UNCHANGED mishaps
       \/ mishaps' = mishaps \cup {"raised"} /\ UNCHANGED redis
    /\ UNCHANGED <<closed, client, pools, loop>>

(* Faulty: the client is closed after Redis, in the same block.            *)
Faulty_CloseClient ==
    /\ phase = "unwinding"
    /\ phase' = "ended"
    /\ client' = IF lifespan \in redis THEN client ELSE 0
    /\ UNCHANGED <<closed, redis, pools, loop, mishaps>>

(* The end of `async with', exception or not.                              *)
CloseClient ==
    /\ phase = "unwinding"
    /\ phase' = "ended"
    /\ client' = 0
    /\ UNCHANGED <<closed, redis, pools, loop, mishaps>>

ShutdownStep ==
    \/ LoopBreaks \/ Visit \/ LoopEnds \/ AcloseReturns \/ AcloseRaises
    \/ CloseRedis \/ CloseClient

Next ==
    \/ CreateApp \/ RefuseToBoot
    \/ \E n \in Names : Register(n)
    \/ Startup \/ StartupFails \/ Stop
    \/ ShutdownStep

Spec == Init /\ [][Next]_vars

(* The event loop runs the shutdown, and clients' close methods return.    *)
FairSpec == Spec /\ WF_vars(ShutdownStep)

-----------------------------------------------------------------------------
(* Every entry was made by a lifespan or a registration that happened, and *)
(* `order' lists the keys of the providers dict once each.                 *)
TypeOK ==
    /\ config \in Configs
    /\ phase \in {"new", "refused", "created", "serving", "failed", "iterating",
                  "aclosing", "closing_redis", "unwinding", "ended"}
    /\ lifespan \in 0..MaxLifespans
    /\ registered \in 0..MaxRegistrations
    /\ detector \in BOOLEAN
    /\ providers \in [Names -> [kind : {"none", "vendor", "agent"}, made : Nat]]
    /\ \A n \in Names :
          /\ providers[n].kind = "vendor" => n \in Vendors /\ providers[n].made <= lifespan
          /\ providers[n].kind = "agent" => providers[n].made <= registered
    /\ breakers \in [Names -> {NoBreaker} \cup 0..registered]
    /\ {order[i] : i \in DOMAIN order} = {n \in Names : providers[n] # NoProvider}
    /\ Cardinality({n \in Names : providers[n] # NoProvider}) = Len(order)
    /\ client \in 0..lifespan
    /\ redis \subseteq 1..lifespan /\ pools \subseteq 1..lifespan
    /\ visited \in 0..size /\ size \in 0..Len(order)
    /\ mishaps \subseteq {"replaced", "grew", "raised"}

(* A request looks its provider and its breaker up by the same name in two *)
(* dicts filled in three places: whenever one is served, the names agree.  *)
(* An agent's breaker is the one made with it, and so are the thresholds   *)
(* it was registered with.                                                 *)
NamesPairUp ==
    /\ \A n \in Names : providers[n] # NoProvider => breakers[n] # NoBreaker
    /\ phase = "serving" =>
          \A n \in Names : breakers[n] # NoBreaker => providers[n] # NoProvider
    /\ \A n \in Names : providers[n].kind = "agent" => breakers[n] = providers[n].made

(* While requests are served, every vendor's provider holds the HTTP       *)
(* client or the pool that is open now, also when the app is served again. *)
VendorsHoldOpenClient ==
    phase = "serving" =>
        \A n \in Names : providers[n].kind = "vendor" =>
            /\ providers[n].made = client
            /\ n \in PoolOwners => providers[n].made \in pools

(* Once a lifespan has ended nothing of it is left open but for a cause: an *)
(* exception while closing, a name added while the loop ran, or an agent   *)
(* that took the name of a provider that had something to close.  Only the *)
(* first two can cost Redis, and nothing costs the shared client.  A       *)
(* startup that fails for a missing extra leaves neither open, however far *)
(* the table of providers was built.                                       *)
ShutdownReleases ==
    /\ phase \in {"ended", "failed"} => client = 0
    /\ phase = "ended" => (redis # {} => mishaps \cap {"raised", "grew"} # {})
    /\ phase \in {"ended", "failed"} => (pools # {} => mishaps # {})

(* generate.py:88 asserts what app.py is to enforce at boot: an app that   *)
(* exists and detects has a detector.                                      *)
DetectorWhenAsked ==
    phase \notin {"new", "refused"} /\ config.mode # "off" => detector

(* Whatever raises or is registered meanwhile, a shutdown ends, and with   *)
(* the shared client closed.                                               *)
ShutdownEnds == phase = "iterating" ~> phase = "ended" /\ client = 0

=============================================================================
