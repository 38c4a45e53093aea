-------------------------- MODULE AppLifecycleProofs --------------------------
(***************************************************************************)
(* What is true of an app whatever agents are registered, whenever, and    *)
(* however often it is served.  NamesPairUp is not inductive: between      *)
(* create_app() and the first lifespan the configured vendors have a       *)
(* breaker and no provider.  PairInv says who may be without whom, and     *)
(* when.  That a shutdown closes what it should depends on the dict's key  *)
(* order too (KeysInv) and on what is open in which phase (ResourcesInv).  *)
(***************************************************************************)
EXTENDS AppLifecycle, FunctionTheorems, SequenceTheorems, FiniteSetTheorems, TLAPS

Entries ==
    /\ providers \in [Names -> [kind : {"none", "vendor", "agent"}, made : Nat]]
    /\ breakers \in [Names -> Int]
    /\ lifespan \in Nat /\ registered \in Nat
    /\ \A n \in Names : breakers[n] = NoBreaker \/ breakers[n] \in Nat

(* The phases from the first startup on.                                   *)
Started == {"serving", "iterating", "aclosing", "closing_redis", "unwinding", "ended"}

PairInv ==
    /\ Entries
    /\ \A n \in Names :
          /\ phase = "new" => providers[n] = NoProvider
          /\ providers[n].kind = "vendor" => n \in Configured
          /\ providers[n].kind = "agent" => breakers[n] = providers[n].made
          /\ providers[n] # NoProvider => breakers[n] # NoBreaker
          /\ breakers[n] # NoBreaker => providers[n] # NoProvider \/ n \in Configured
          /\ n \in Configured /\ phase \notin {"new", "refused"} => breakers[n] # NoBreaker
          /\ n \in Configured /\ phase \in Started => providers[n] # NoProvider

(* Everything but the two dicts, the counters and the phase.               *)
LEMMA PairKept ==
    ASSUME PairInv, UNCHANGED <<config, providers, breakers, lifespan, registered>>,
           phase' = "new" => phase = "new",
           phase' \notin {"new", "refused"} => phase \notin {"new", "refused"},
           phase' \in Started => phase \in Started
    PROVE  PairInv'
BY DEF PairInv, Entries, Configured

LEMMA InitPairInv == Init => PairInv
BY DEF Init, PairInv, Entries, NoProvider, NoBreaker, Started

LEMMA RegisterPairInv ==
    ASSUME PairInv, NEW n \in Names, Register(n) PROVE PairInv'
<1>1. /\ providers' = [providers EXCEPT ![n] = [kind |-> "agent", made |-> registered + 1]]
      /\ breakers' = [breakers EXCEPT ![n] = registered + 1]
      /\ registered' = registered + 1
      /\ UNCHANGED <<config, phase, lifespan>>
  BY DEF Register
<1>2. registered + 1 \in Nat /\ registered + 1 # NoBreaker
  BY DEF PairInv, Entries, NoBreaker
<1>3. Entries'
  BY <1>1, <1>2 DEF PairInv, Entries
<1>4. [kind |-> "agent", made |-> registered + 1] # NoProvider
  BY DEF NoProvider
<1>5. Configured' = Configured
  BY <1>1 DEF Configured
<1>6. phase # "new"
  BY DEF Register, OthersRun
<1>7. /\ providers'[n] = [kind |-> "agent", made |-> registered + 1]
      /\ breakers'[n] = registered + 1
      /\ \A m \in Names \ {n} : providers'[m] = providers[m] /\ breakers'[m] = breakers[m]
  BY <1>1 DEF PairInv, Entries
<1> QED
  BY <1>1, <1>2, <1>3, <1>4, <1>5, <1>6, <1>7 DEF PairInv

LEMMA StartupPairInv == ASSUME PairInv, Startup PROVE PairInv'
<1>1. /\ providers' = [n \in Names |->
                         IF n \in Configured THEN [kind |-> "vendor", made |-> lifespan + 1]
                         ELSE providers[n]]
      /\ phase' = "serving" /\ lifespan' = lifespan + 1
      /\ UNCHANGED <<config, breakers, registered>>
  BY DEF Startup, Start, Updated
<1>2. phase \notin {"new", "refused"}
  BY DEF Startup, Start
<1>3. lifespan + 1 \in Nat
  BY DEF PairInv, Entries
<1>4. Entries'
  BY <1>1, <1>3 DEF PairInv, Entries
<1>5. [kind |-> "vendor", made |-> lifespan + 1] # NoProvider
  BY DEF NoProvider
<1>6. Configured' = Configured
  BY <1>1 DEF Configured
<1> QED
  BY <1>1, <1>2, <1>4, <1>5, <1>6 DEF PairInv

LEMMA NextPairInv == PairInv /\ [Next]_vars => PairInv'
<1> SUFFICES ASSUME PairInv, [Next]_vars PROVE PairInv'
  OBVIOUS
<1>1. CASE CreateApp
  <2>1. /\ breakers' = [n \in Names |-> IF n \in Configured THEN 0 ELSE NoBreaker]
        /\ phase = "new" /\ phase' = "created"
        /\ UNCHANGED <<config, providers, lifespan, registered>>
    BY <1>1 DEF CreateApp
  <2>2. Configured' = Configured
    BY <2>1 DEF Configured
  <2>3. breakers' \in [Names -> Int] /\ Entries'
    BY <2>1 DEF PairInv, Entries, NoBreaker
  <2>4. \A n \in Names : /\ providers'[n] = NoProvider
                        /\ breakers'[n] # NoBreaker <=> n \in Configured'
    BY <2>1, <2>2 DEF PairInv, NoBreaker
  <2>5. NoProvider.kind = "none"
    BY DEF NoProvider
  <2> QED
    BY <2>1, <2>3, <2>4, <2>5 DEF PairInv, Started
<1>2. CASE RefuseToBoot
  BY <1>2, PairKept DEF RefuseToBoot, Started
<1>3. ASSUME NEW n \in Names, Register(n) PROVE PairInv'
  BY <1>3, RegisterPairInv
<1>4. CASE Startup
  BY <1>4, StartupPairInv
<1>5. CASE StartupFails
  <2>1. /\ lifespan' = lifespan + 1 /\ phase \in {"created", "ended"} /\ phase' = "failed"
        /\ UNCHANGED <<config, providers, breakers, registered>>
    BY <1>5 DEF StartupFails, Start
  <2>2. Entries'
    BY <2>1 DEF PairInv, Entries
  <2>3. Configured' = Configured /\ phase \notin {"new", "refused"}
    BY <2>1 DEF Configured
  <2> QED
    BY <2>1, <2>2, <2>3 DEF PairInv, Started
<1>6. CASE Stop \/ ShutdownStep
  <2>1. phase \in Started /\ phase' \in Started
    BY <1>6 DEF Stop, ShutdownStep, LoopBreaks, Visit, LoopEnds, AcloseReturns,
                AcloseRaises, CloseRedis, CloseClient, Started
  <2>2. UNCHANGED <<config, providers, breakers, lifespan, registered>>
    BY <1>6 DEF Stop, ShutdownStep, LoopBreaks, Visit, LoopEnds, AcloseReturns,
                AcloseRaises, CloseRedis, CloseClient, closed
  <2> QED
    BY <2>1, <2>2, PairKept DEF Started
<1>7. CASE UNCHANGED vars
  BY <1>7, PairKept DEF vars
<1> QED
  BY <1>1, <1>2, <1>3, <1>4, <1>5, <1>6, <1>7 DEF Next

THEOREM PairInvHolds == Spec => []PairInv
BY InitPairInv, NextPairInv, PTL DEF Spec

(* Whenever a request can be served, its provider's name has a breaker and *)
(* the other way round, and an agent is judged by the breaker it was       *)
(* registered with.                                                        *)
THEOREM NamesAlwaysPairUp == Spec => []NamesPairUp
<1>1. PairInv => NamesPairUp
  BY DEF PairInv, NamesPairUp, Started
<1> QED
  BY <1>1, PairInvHolds, PTL

-----------------------------------------------------------------------------
(* A startup without a missing extra builds every configured vendor, so    *)
(* the overwritten entries are all the vendors there are.                  *)
LEMMA StartupHoldsOpenClient ==
    ASSUME PairInv, Startup PROVE VendorsHoldOpenClient'
<1>1. /\ providers' = [n \in Names |->
                         IF n \in Configured THEN [kind |-> "vendor", made |-> lifespan + 1]
                         ELSE providers[n]]
      /\ client' = lifespan + 1
      /\ Missing = {}
      /\ pools' = IF Built \cap PoolOwners = {} THEN pools ELSE pools \cup {lifespan + 1}
  BY DEF Startup, Start, Updated
<1>2. ASSUME NEW n \in Configured PROVE n \in Built
  <2>1. PICK j \in DOMAIN SpecNames : SpecNames[j] = n
    BY DEF Configured, Vendors
  <2> QED
    BY <1>1, <2>1 DEF Built
<1>3. ASSUME NEW n \in Names, providers'[n].kind = "vendor"
      PROVE  n \in Configured /\ providers'[n].made = lifespan + 1
  BY <1>1, <1>3 DEF PairInv
<1>4. ASSUME NEW n \in Names, providers'[n].kind = "vendor", n \in PoolOwners
      PROVE  lifespan + 1 \in pools'
  BY <1>1, <1>2, <1>3, <1>4
<1> QED
  BY <1>1, <1>3, <1>4 DEF VendorsHoldOpenClient

(* While requests are served, every vendor's provider holds the client or  *)
(* pool that is open now.                                                  *)
THEOREM ClientsAreOpen == Spec => []VendorsHoldOpenClient
<1>1. Init => VendorsHoldOpenClient
  BY DEF Init, VendorsHoldOpenClient
<1>2. PairInv /\ VendorsHoldOpenClient /\ [Next]_vars => VendorsHoldOpenClient'
  <2> SUFFICES ASSUME PairInv, VendorsHoldOpenClient, [Next]_vars
               PROVE  VendorsHoldOpenClient'
    OBVIOUS
  <2>1. CASE Startup
    BY <2>1, StartupHoldsOpenClient
  <2>2. ASSUME NEW n \in Names, Register(n) PROVE VendorsHoldOpenClient'
    <3>1. /\ providers' = [providers EXCEPT ![n] = [kind |-> "agent", made |-> registered']]
          /\ UNCHANGED <<phase, client, pools>>
      BY <2>2 DEF Register, resources
    <3>2. \A m \in Names : providers'[m].kind = "vendor" => providers'[m] = providers[m]
      BY <3>1 DEF PairInv, Entries
    <3> QED
      BY <3>1, <3>2 DEF VendorsHoldOpenClient
  <2>3. CASE CreateApp \/ RefuseToBoot \/ StartupFails \/ Stop \/ ShutdownStep
    <3>1. phase' # "serving"
      BY <2>3 DEF CreateApp, RefuseToBoot, StartupFails, Stop, ShutdownStep, LoopBreaks,
                  Visit, LoopEnds, AcloseReturns, AcloseRaises, CloseRedis, CloseClient
    <3> QED
      BY <3>1 DEF VendorsHoldOpenClient
  <2>4. CASE UNCHANGED vars
    BY <2>4 DEF vars, resources, VendorsHoldOpenClient
  <2> QED
    BY <2>1, <2>2, <2>3, <2>4 DEF Next
<1> QED
  BY <1>1, <1>2, PairInvHolds, PTL DEF Spec

(* An app that exists and is to detect has a detector.                     *)
THEOREM DetectsWhenAsked == Spec => []DetectorWhenAsked
<1>1. Init => DetectorWhenAsked
  BY DEF Init, DetectorWhenAsked
<1>2. DetectorWhenAsked /\ [Next]_vars => DetectorWhenAsked'
  BY DEF DetectorWhenAsked, DetectorUsable, Next, CreateApp, RefuseToBoot, Register,
         OthersRun, Startup, StartupFails, Start, Stop, ShutdownStep, LoopBreaks, Visit,
         LoopEnds, AcloseReturns, AcloseRaises, CloseRedis, CloseClient, closed, vars
<1> QED
  BY <1>1, <1>2, PTL DEF Spec

-----------------------------------------------------------------------------
(* Type correctness.  What has to be carried along is that `order' lists   *)
(* the keys of the providers dict once each; their number comes last.      *)

Keys(keys, S) ==
    /\ keys \in Seq(Names)
    /\ \A i, j \in 1..Len(keys) : keys[i] = keys[j] => i = j
    /\ \A n \in Names : n \in S <=> \E i \in 1..Len(keys) : keys[i] = n

Present == {n \in Names : providers[n] # NoProvider}

Bounds ==
    /\ config \in Configs
    /\ phase \in {"new", "refused", "created", "serving", "failed", "iterating",
                  "aclosing", "closing_redis", "unwinding", "ended"}
    /\ lifespan \in 0..MaxLifespans
    /\ registered \in 0..MaxRegistrations
    /\ detector \in BOOLEAN
    /\ client \in 0..lifespan
    /\ mishaps \subseteq {"replaced", "grew", "raised"}

OpenedByALifespan == redis \subseteq 1..lifespan /\ pools \subseteq 1..lifespan

EntriesMade ==
    /\ providers \in [Names -> [kind : {"none", "vendor", "agent"}, made : Nat]]
    /\ \A n \in Names :
          /\ providers[n].kind = "vendor" => n \in Vendors /\ providers[n].made <= lifespan
          /\ providers[n].kind = "agent" => providers[n].made <= registered
    /\ breakers \in [Names -> {NoBreaker} \cup 0..registered]

KeysInv ==
    /\ Keys(order, Present)
    /\ visited \in 0..size /\ size \in 0..Len(order)

(* A key more, or none.                                                    *)
LEMMA KeysAppend ==
    ASSUME NEW keys, NEW S, Keys(keys, S), NEW n \in Names, n \notin S
    PROVE  /\ Keys(keys \o <<n>>, S \cup {n})
           /\ Len(keys \o <<n>>) = Len(keys) + 1
           /\ keys \o <<n>> = Append(keys, n)
<1> DEFINE longer == keys \o <<n>>
<1>1. keys \in Seq(Names) /\ Len(keys) \in Nat
  BY DEF Keys
<1>2. /\ longer = Append(keys, n) /\ longer \in Seq(Names)
      /\ Len(longer) = Len(keys) + 1
      /\ longer[Len(keys) + 1] = n
      /\ \A i \in 1..Len(keys) : longer[i] = keys[i]
  BY <1>1, AppendProperties, AppendIsConcat
<1> HIDE DEF longer
<1>3. \A i \in 1..Len(keys) : keys[i] \in Names /\ keys[i] # n
  BY <1>1, ElementOfSeq DEF Keys
<1>4. ASSUME NEW i \in 1..Len(longer), NEW j \in 1..Len(longer), longer[i] = longer[j]
      PROVE  i = j
  <2>1. CASE i \in 1..Len(keys) /\ j \in 1..Len(keys)
    BY <1>2, <1>4, <2>1 DEF Keys
  <2>2. CASE i = Len(keys) + 1 \/ j = Len(keys) + 1
    BY <1>1, <1>2, <1>3, <1>4, <2>2
  <2> QED BY <1>1, <1>2, <2>1, <2>2
<1>5. ASSUME NEW m \in Names
      PROVE  m \in S \cup {n} <=> \E i \in 1..Len(longer) : longer[i] = m
  <2>1. CASE m = n
    BY <1>1, <1>2, <2>1
  <2>2. CASE m # n
    <3>1. m \in S <=> \E i \in 1..Len(keys) : keys[i] = m
      BY DEF Keys
    <3>2. (\E i \in 1..Len(longer) : longer[i] = m)
             <=> \E i \in 1..Len(keys) : keys[i] = m
      BY <1>1, <1>2, <2>2
    <3> QED BY <2>2, <3>1, <3>2
  <2> QED BY <2>1, <2>2
<1>6. Keys(longer, S \cup {n})
  BY <1>2, <1>4, <1>5 DEF Keys
<1> QED BY <1>2, <1>6 DEF longer

(* dict.update() adds one vendor's key unless it is there.                 *)
LEMMA KeysUpdated ==
    ASSUME NEW keys, NEW S, Keys(keys, S), NEW i \in 1..3,
           SpecNames[i] \in S => providers[SpecNames[i]] # NoProvider
    PROVE  /\ Keys(keys \o KeyAdded(i),
                   S \cup (IF Added(SpecNames[i]) THEN {SpecNames[i]} ELSE {}))
           /\ Len(keys \o KeyAdded(i)) \in Nat
           /\ Len(keys) <= Len(keys \o KeyAdded(i))
<1>1. keys \in Seq(Names) /\ Len(keys) \in Nat
  BY DEF Keys
<1>2. CASE Added(SpecNames[i])
  <2>1. SpecNames[i] \in Names /\ SpecNames[i] \notin S
    BY <1>2 DEF Added, Names, Vendors, SpecNames
  <2> QED BY <1>1, <1>2, <2>1, KeysAppend DEF KeyAdded
<1>3. CASE ~Added(SpecNames[i])
  <2>1. keys \o KeyAdded(i) = keys
    BY <1>1, <1>3, ConcatEmptySeq DEF KeyAdded
  <2>2. S \cup {} = S
    OBVIOUS
  <2> QED BY <1>1, <1>3, <2>1, <2>2
<1> QED BY <1>2, <1>3

(* The number of keys is the number of names that have a provider.         *)
LEMMA KeysCount ==
    ASSUME NEW keys, NEW S \in SUBSET Names, Keys(keys, S)
    PROVE  /\ {keys[i] : i \in DOMAIN keys} = S
           /\ Cardinality(S) = Len(keys)
<1>1. /\ keys \in Seq(Names) /\ Len(keys) \in Nat
      /\ keys \in [1..Len(keys) -> Names] /\ DOMAIN keys = 1..Len(keys)
  BY LenProperties DEF Keys
<1>2. keys \in [1..Len(keys) -> S]
  BY <1>1 DEF Keys
<1>3. keys \in Bijection(1..Len(keys), S)
  <2>1. \A i, j \in 1..Len(keys) : keys[i] = keys[j] => i = j
    BY DEF Keys
  <2>2. \A n \in S : \E i \in 1..Len(keys) : keys[i] = n
    BY DEF Keys
  <2> QED BY <1>2, <2>1, <2>2, Fun_IsBij
<1>4. Cardinality(S) = Len(keys)
  BY <1>1, <1>3, FS_CountingElements DEF ExistsBijection
<1>5. {keys[i] : i \in DOMAIN keys} = S
  BY <1>1, <1>2 DEF Keys
<1> QED BY <1>4, <1>5

(* What the steps that touch neither dict nor the shutdown's loop keep.    *)
LEMMA KeysKept ==
    ASSUME KeysInv, UNCHANGED <<providers, order, visited, size>>
    PROVE  KeysInv'
BY DEF KeysInv, Present, Keys

LEMMA RegisterKeys ==
    ASSUME EntriesMade, KeysInv, NEW n \in Names, Register(n)
    PROVE  /\ KeysInv'
           /\ Len(order) \in Nat
           /\ order' = order \/ (providers[n] = NoProvider /\ order' = Append(order, n))
<1>1. /\ providers' = [providers EXCEPT ![n] = [kind |-> "agent", made |-> registered']]
      /\ order' = IF providers[n] = NoProvider THEN Append(order, n) ELSE order
      /\ visited' = visited /\ size' = size
  BY DEF Register, loop
<1>2. Present' = Present \cup {n}
  BY <1>1 DEF Present, EntriesMade, NoProvider
<1>3. Keys(order, Present) /\ order \in Seq(Names) /\ Len(order) \in Nat
  BY DEF KeysInv, Keys
<1>4. CASE providers[n] = NoProvider
  <2>1. n \notin Present
    BY <1>4 DEF Present
  <2>2. /\ Keys(order \o <<n>>, Present \cup {n})
        /\ Len(order \o <<n>>) = Len(order) + 1
        /\ order \o <<n>> = Append(order, n)
    BY <1>3, <2>1, KeysAppend
  <2>3. order' = order \o <<n>>
    BY <1>1, <1>4, <2>2
  <2>4. Len(order') = Len(order) + 1 /\ Keys(order', Present')
    BY <1>2, <2>2, <2>3
  <2>5. visited' \in 0..size' /\ size' \in 0..Len(order')
    BY <1>1, <1>3, <2>4 DEF KeysInv
  <2> QED BY <1>1, <1>3, <1>4, <2>4, <2>5 DEF KeysInv
<1>5. CASE providers[n] # NoProvider
  <2>1. Present' = Present /\ order' = order
    BY <1>1, <1>2, <1>5 DEF Present
  <2> QED BY <1>1, <1>3, <2>1 DEF KeysInv
<1> QED BY <1>4, <1>5

LEMMA StartupKeys ==
    ASSUME EntriesMade, lifespan \in Nat, KeysInv, Startup
    PROVE  KeysInv' /\ \A n \in Present' : \E i \in 1..Len(order') : order'[i] = n
<1>1. /\ providers' = [n \in Names |->
                         IF n \in Configured THEN [kind |-> "vendor", made |-> lifespan']
                         ELSE providers[n]]
      /\ order' = order \o KeyAdded(1) \o KeyAdded(2) \o KeyAdded(3)
      /\ visited' = visited /\ size' = size
  BY DEF Startup, Updated, loop
<1> DEFINE S1 == Present \cup (IF Added("gemini") THEN {"gemini"} ELSE {})
           S2 == S1 \cup (IF Added("openai") THEN {"openai"} ELSE {})
           S3 == S2 \cup (IF Added("anthropic") THEN {"anthropic"} ELSE {})
           k1 == order \o KeyAdded(1)
           k2 == k1 \o KeyAdded(2)
<1>2. SpecNames[1] = "gemini" /\ SpecNames[2] = "openai" /\ SpecNames[3] = "anthropic"
  BY DEF SpecNames
<1>3. Keys(order, Present) /\ order \in Seq(Names) /\ Len(order) \in Nat
  BY DEF KeysInv, Keys
<1>4. Keys(k1, S1) /\ Len(k1) \in Nat /\ Len(order) <= Len(k1)
  <2>1. SpecNames[1] \in Present => providers[SpecNames[1]] # NoProvider
    BY DEF Present
  <2>2. /\ Keys(order \o KeyAdded(1),
                Present \cup (IF Added(SpecNames[1]) THEN {SpecNames[1]} ELSE {}))
        /\ Len(order \o KeyAdded(1)) \in Nat
        /\ Len(order) <= Len(order \o KeyAdded(1))
    BY <1>3, <2>1, 1 \in 1..3, KeysUpdated, Zenon
  <2> QED BY <1>2, <2>2
<1>5. Keys(k2, S2) /\ Len(k2) \in Nat /\ Len(k1) <= Len(k2)
  <2>1. SpecNames[2] \in S1 => providers[SpecNames[2]] # NoProvider
    BY <1>2 DEF Present
  <2> HIDE DEF S1, k1
  <2>2. /\ Keys(k1 \o KeyAdded(2),
                S1 \cup (IF Added(SpecNames[2]) THEN {SpecNames[2]} ELSE {}))
        /\ Len(k1 \o KeyAdded(2)) \in Nat
        /\ Len(k1) <= Len(k1 \o KeyAdded(2))
    BY <1>4, <2>1, 2 \in 1..3, KeysUpdated, Zenon
  <2> QED BY <1>2, <2>2
<1>6. Keys(order', S3) /\ Len(order') \in Nat /\ Len(k2) <= Len(order')
  <2>1. SpecNames[3] \in S2 => providers[SpecNames[3]] # NoProvider
    BY <1>2 DEF Present
  <2>2. order' = k2 \o KeyAdded(3)
    BY <1>1
  <2> HIDE DEF S2, k2
  <2>3. /\ Keys(k2 \o KeyAdded(3),
                S2 \cup (IF Added(SpecNames[3]) THEN {SpecNames[3]} ELSE {}))
        /\ Len(k2 \o KeyAdded(3)) \in Nat
        /\ Len(k2) <= Len(k2 \o KeyAdded(3))
    BY <1>5, <2>1, 3 \in 1..3, KeysUpdated, Zenon
  <2> QED BY <1>2, <2>3, <2>2
<1>7. Present' = S3
  <2>1. ASSUME NEW n \in Names
        PROVE  providers'[n] # NoProvider <=> n \in Configured \/ providers[n] # NoProvider
    BY <1>1 DEF NoProvider
  <2>2. Configured \subseteq {"gemini", "openai", "anthropic"}
    BY DEF Configured, Vendors, SpecNames
  <2>3. {"gemini", "openai", "anthropic"} \subseteq Names
    BY DEF Names, Vendors, SpecNames
  <2>4. \A n \in Names : n \in S3 <=> n \in Present \/ Added(n)
    BY <2>2 DEF Added, Updated
  <2>5. S3 \subseteq Names
    BY <2>3 DEF Present
  <2> QED BY <2>1, <2>4, <2>5 DEF Present, Added, Updated
<1>8. KeysInv'
  <2> HIDE DEF S1, S2, S3, k1, k2
  <2>1. size' \in 0..Len(order') /\ visited' \in 0..size'
    BY <1>1, <1>3, <1>4, <1>5, <1>6 DEF KeysInv
  <2> QED BY <1>6, <1>7, <2>1 DEF KeysInv
<1>9. \A n \in Present' : \E i \in 1..Len(order') : order'[i] = n
  BY <1>8 DEF KeysInv, Keys, Present
<1> QED BY <1>8, <1>9

LEMMA NextKeys ==
    ASSUME EntriesMade, lifespan \in Nat, KeysInv, [Next]_vars
    PROVE  KeysInv'
<1>1. CASE CreateApp \/ RefuseToBoot \/ StartupFails
  BY <1>1, KeysKept DEF CreateApp, RefuseToBoot, StartupFails, loop
<1>2. ASSUME NEW n \in Names, Register(n) PROVE KeysInv'
  BY <1>2, RegisterKeys
<1>3. CASE Startup
  BY <1>3, StartupKeys
<1>4. CASE Stop
  <2>1. Keys(order, Present)' /\ Len(order) \in Nat
    BY <1>4 DEF Stop, closed, KeysInv, Keys, Present
  <2> QED BY <1>4, <2>1 DEF Stop, closed, KeysInv
<1>5. CASE Visit
  <2>1. /\ Keys(order, Present)' /\ Len(order) \in Nat
        /\ order' = order /\ size' = size /\ visited' = visited + 1 /\ visited < size
    BY <1>5 DEF Visit, closed, KeysInv, Keys, Present
  <2> QED BY <2>1 DEF KeysInv
<1>6. CASE \/ LoopBreaks \/ LoopEnds \/ AcloseReturns \/ AcloseRaises
           \/ CloseRedis \/ CloseClient
  BY <1>6, KeysKept DEF LoopBreaks, LoopEnds, AcloseReturns, AcloseRaises, CloseRedis,
                        CloseClient, closed, loop
<1>7. CASE UNCHANGED vars
  BY <1>7, KeysKept DEF vars, loop
<1> QED BY <1>1, <1>2, <1>3, <1>4, <1>5, <1>6, <1>7 DEF Next, ShutdownStep

LEMMA NextEntriesMade ==
    ASSUME Bounds, EntriesMade, [Next]_vars
    PROVE  EntriesMade'
<1>0. lifespan \in Nat /\ registered \in Nat
  BY LifecycleAssumption DEF Bounds
<1>1. CASE CreateApp
  <2>1. /\ breakers' = [n \in Names |-> IF n \in Configured THEN 0 ELSE NoBreaker]
        /\ UNCHANGED <<providers, lifespan, registered>>
    BY <1>1 DEF CreateApp
  <2>2. 0 \in 0..registered
    BY <1>0
  <2> QED BY <2>1, <2>2 DEF EntriesMade
<1>2. CASE RefuseToBoot
  BY <1>2 DEF RefuseToBoot, EntriesMade
<1>3. ASSUME NEW n \in Names, Register(n) PROVE EntriesMade'
  <2>1. /\ providers' = [providers EXCEPT ![n] = [kind |-> "agent", made |-> registered + 1]]
        /\ breakers' = [breakers EXCEPT ![n] = registered + 1]
        /\ registered' = registered + 1 /\ lifespan' = lifespan
    BY <1>3 DEF Register
  <2>2. registered + 1 \in Nat /\ 0..registered \subseteq 0..registered + 1
        /\ registered + 1 \in 0..registered + 1
    BY <1>0
  <2>3. \A m \in Names :
           providers'[m] = IF m = n THEN [kind |-> "agent", made |-> registered + 1]
                           ELSE providers[m]
    BY <2>1 DEF EntriesMade
  <2>4. providers' \in [Names -> [kind : {"none", "vendor", "agent"}, made : Nat]]
    BY <2>1, <2>2 DEF EntriesMade
  <2>5. breakers' \in [Names -> {NoBreaker} \cup 0..registered']
    BY <2>1, <2>2 DEF EntriesMade
  <2>6. ASSUME NEW m \in Names
        PROVE  /\ providers'[m].kind = "vendor"
                     => m \in Vendors /\ providers'[m].made <= lifespan'
               /\ providers'[m].kind = "agent" => providers'[m].made <= registered'
    <3>1. providers[m] \in [kind : {"none", "vendor", "agent"}, made : Nat]
      BY DEF EntriesMade
    <3> QED BY <1>0, <2>1, <2>3, <3>1 DEF EntriesMade
  <2> QED BY <2>4, <2>5, <2>6 DEF EntriesMade
<1>4. CASE Startup
  <2>1. /\ providers' = [n \in Names |->
                           IF n \in Configured THEN [kind |-> "vendor", made |-> lifespan + 1]
                           ELSE providers[n]]
        /\ lifespan' = lifespan + 1 /\ UNCHANGED <<breakers, registered>>
    BY <1>4 DEF Startup, Start, Updated
  <2>2. lifespan + 1 \in Nat /\ Configured \subseteq Vendors
    BY <1>0 DEF Configured
  <2>3. providers' \in [Names -> [kind : {"none", "vendor", "agent"}, made : Nat]]
    BY <2>1, <2>2 DEF EntriesMade
  <2>4. ASSUME NEW m \in Names
        PROVE  /\ providers'[m].kind = "vendor"
                     => m \in Vendors /\ providers'[m].made <= lifespan'
               /\ providers'[m].kind = "agent" => providers'[m].made <= registered'
    <3>1. providers[m] \in [kind : {"none", "vendor", "agent"}, made : Nat]
      BY DEF EntriesMade
    <3> QED BY <1>0, <2>1, <2>2, <3>1 DEF EntriesMade
  <2> QED BY <2>1, <2>3, <2>4 DEF EntriesMade
<1>5. CASE StartupFails
  <2>1. lifespan' = lifespan + 1 /\ UNCHANGED <<providers, breakers, registered>>
    BY <1>5 DEF StartupFails, Start
  <2> QED BY <1>0, <2>1 DEF EntriesMade
<1>6. CASE Stop \/ ShutdownStep
  <2>1. UNCHANGED <<providers, breakers, lifespan, registered>>
    BY <1>6 DEF Stop, ShutdownStep, LoopBreaks, Visit, LoopEnds, AcloseReturns,
                AcloseRaises, CloseRedis, CloseClient, closed
  <2> QED BY <2>1 DEF EntriesMade
<1>7. CASE UNCHANGED vars
  BY <1>7 DEF vars, EntriesMade
<1> QED BY <1>1, <1>2, <1>3, <1>4, <1>5, <1>6, <1>7 DEF Next

LEMMA NextBounds == ASSUME Bounds, [Next]_vars PROVE Bounds'
<1> USE LifecycleAssumption DEF Bounds
<1>1. CASE CreateApp
  BY <1>1 DEF CreateApp, resources
<1>2. CASE RefuseToBoot
  BY <1>2 DEF RefuseToBoot, resources
<1>3. ASSUME NEW n \in Names, Register(n) PROVE Bounds'
  <2>1. registered' = registered + 1 /\ registered' \in 0..MaxRegistrations
    BY <1>3 DEF Register
  <2>2. mishaps' \subseteq {"replaced", "grew", "raised"}
    BY <1>3 DEF Register
  <2> QED BY <1>3, <2>1, <2>2 DEF Register, resources
<1>4. CASE Startup \/ StartupFails
  <2>1. /\ lifespan' = lifespan + 1 /\ lifespan' \in 0..MaxLifespans
        /\ client' \in {client, lifespan'} /\ phase' \in {"serving", "failed"}
        /\ UNCHANGED <<config, registered, detector, mishaps>>
    BY <1>4 DEF Startup, StartupFails, Start
  <2> QED BY <2>1
<1>5. CASE Stop \/ ShutdownStep
  <2>1. UNCHANGED <<config, lifespan, registered, detector>>
    BY <1>5 DEF Stop, ShutdownStep, LoopBreaks, Visit, LoopEnds, AcloseReturns,
                AcloseRaises, CloseRedis, CloseClient, closed
  <2>2. /\ phase' \in {"iterating", "aclosing", "closing_redis", "unwinding", "ended"}
        /\ client' \in {client, 0}
        /\ mishaps' \in {mishaps, mishaps \cup {"raised"}}
    BY <1>5 DEF Stop, ShutdownStep, LoopBreaks, Visit, LoopEnds, AcloseReturns,
                AcloseRaises, CloseRedis, CloseClient, resources
  <2>3. client' \in 0..lifespan' /\ mishaps' \subseteq {"replaced", "grew", "raised"}
    BY <2>1, <2>2
  <2> QED BY <2>1, <2>2, <2>3
<1>6. CASE UNCHANGED vars
  BY <1>6 DEF vars, resources
<1> QED BY <1>1, <1>2, <1>3, <1>4, <1>5, <1>6 DEF Next

LEMMA NextOpened ==
    ASSUME lifespan \in Nat, OpenedByALifespan, [Next]_vars
    PROVE  OpenedByALifespan'
<1>1. CASE Startup \/ StartupFails
  <2>1. /\ lifespan' = lifespan + 1 /\ redis' = redis \cup {lifespan'}
        /\ pools' = pools \/ pools' = pools \cup {lifespan'}
    BY <1>1 DEF Startup, StartupFails, Start
  <2>2. 1..lifespan \subseteq 1..lifespan' /\ lifespan' \in 1..lifespan'
    BY <2>1
  <2> QED BY <2>1, <2>2, Zenon DEF OpenedByALifespan
<1>2. CASE \/ CreateApp \/ RefuseToBoot \/ (\E n \in Names : Register(n))
           \/ Stop \/ ShutdownStep \/ UNCHANGED vars
  <2>1. lifespan' = lifespan /\ redis' \subseteq redis /\ pools' \subseteq pools
    BY <1>2 DEF CreateApp, RefuseToBoot, Register, Stop, ShutdownStep, LoopBreaks,
                Visit, LoopEnds, AcloseReturns, AcloseRaises, CloseRedis, CloseClient,
                closed, resources, vars
  <2>2. redis' \subseteq 1..lifespan /\ pools' \subseteq 1..lifespan
    BY <2>1 DEF OpenedByALifespan
  <2> QED BY <2>1, <2>2 DEF OpenedByALifespan
<1> QED BY <1>1, <1>2 DEF Next

TypeInv == Bounds /\ OpenedByALifespan /\ EntriesMade /\ KeysInv

(* The two dicts and the key order stay in step, and whatever is in them   *)
(* was made by a lifespan or a registration that happened.                 *)
THEOREM TypeInvHolds == Spec => []TypeInv
<1>1. Init => TypeInv
  <2> SUFFICES ASSUME Init PROVE TypeInv
    OBVIOUS
  <2>1. Bounds
    <3>1. detector \in BOOLEAN
      BY DEF Init
    <3>2. config \in Configs /\ phase = "new" /\ mishaps = {}
      BY DEF Init
    <3>3. lifespan = 0 /\ registered = 0 /\ client = 0
      BY DEF Init
    <3> QED BY <3>1, <3>2, <3>3, LifecycleAssumption DEF Bounds
  <2>2. EntriesMade /\ OpenedByALifespan
    BY DEF Init, EntriesMade, OpenedByALifespan, NoProvider
  <2>3. /\ order = <<>> /\ order \in Seq(Names) /\ Len(order) = 0
        /\ Present = {} /\ size = 0 /\ visited = 0
    BY EmptySeq DEF Init, Present
  <2>4. KeysInv
    BY <2>3 DEF KeysInv, Keys
  <2> QED BY <2>1, <2>2, <2>4 DEF TypeInv
<1>2. TypeInv /\ [Next]_vars => TypeInv'
  <2> SUFFICES ASSUME TypeInv, [Next]_vars PROVE TypeInv'
    OBVIOUS
  <2>1. lifespan \in Nat
    BY LifecycleAssumption DEF TypeInv, Bounds
  <2> QED BY <2>1, NextBounds, NextOpened, NextEntriesMade, NextKeys DEF TypeInv
<1> QED BY <1>1, <1>2, PTL DEF Spec

(* Every entry was made by a lifespan or a registration that happened, and *)
(* the key order lists the keys of the providers dict once each.           *)
THEOREM TypeCorrect == Spec => []TypeOK
<1>1. TypeInv => TypeOK
  <2> SUFFICES ASSUME TypeInv PROVE TypeOK
    OBVIOUS
  <2>1. Present \in SUBSET Names /\ Keys(order, Present)
    BY DEF TypeInv, KeysInv, Present
  <2>2. {order[i] : i \in DOMAIN order} = Present /\ Cardinality(Present) = Len(order)
    BY <2>1, KeysCount
  <2> QED BY <2>2 DEF TypeInv, Bounds, OpenedByALifespan, EntriesMade, KeysInv, Present, TypeOK
<1> QED BY <1>1, TypeInvHolds, PTL

-----------------------------------------------------------------------------
(* What is open when, while nothing has gone wrong.  ShutdownReleases says *)
(* it of the two last phases only; every phase before them needs its part: *)
(* a pool can only be open while its provider is still to be handed to the *)
(* loop, and Redis until its own close.                                    *)

ClientInv == phase \in {"new", "refused", "created", "ended", "failed"} => client = 0

SizeInv == phase \in {"iterating", "aclosing"} => Len(order) = size \/ "grew" \in mishaps

RedisInv ==
    mishaps \cap {"raised", "grew"} = {} =>
        /\ redis \subseteq {lifespan}
        /\ phase \in {"new", "refused", "created", "unwinding", "ended"} => redis = {}

(* The phases in which the pool of the lifespan may be open.               *)
PoolPhases == {"serving", "iterating", "aclosing"}

PoolsInv ==
    mishaps = {} =>
        /\ pools \subseteq {lifespan}
        /\ pools # {} => phase \in PoolPhases /\ Owns("anthropic")
        /\ pools # {} /\ phase = "iterating" =>
              \E i \in visited + 1..size : order[i] = "anthropic"

ResourcesInv == ClientInv /\ SizeInv /\ RedisInv /\ PoolsInv

(* Only a shutdown, and only its last step, leads to "ended", and only a   *)
(* startup to "failed".                                                    *)
LEMMA NextClient == ASSUME ClientInv, [Next]_vars PROVE ClientInv'
<1> USE DEF ClientInv
<1>1. CASE CreateApp \/ RefuseToBoot \/ (\E n \in Names : Register(n)) \/ UNCHANGED vars
  BY <1>1 DEF CreateApp, RefuseToBoot, Register, vars, resources
<1>2. CASE Startup \/ StartupFails
  BY <1>2 DEF Startup, StartupFails, Start
<1>3. CASE Stop \/ ShutdownStep
  BY <1>3 DEF Stop, ShutdownStep, LoopBreaks, Visit, LoopEnds, AcloseReturns,
              AcloseRaises, CloseRedis, CloseClient, resources
<1> QED BY <1>1, <1>2, <1>3 DEF Next

(* A name added while the loop awaits is a mishap: else the dict keeps the *)
(* size it had when the loop began.                                        *)
LEMMA NextSize == ASSUME SizeInv, [Next]_vars PROVE SizeInv'
<1> USE DEF SizeInv
<1>1. CASE CreateApp \/ RefuseToBoot \/ Startup \/ StartupFails
  BY <1>1 DEF CreateApp, RefuseToBoot, Startup, StartupFails
<1>2. ASSUME NEW n \in Names, Register(n) PROVE SizeInv'
  <2>1. CASE providers[n] = NoProvider
    BY <1>2, <2>1 DEF Register, loop, OthersRun
  <2>2. CASE providers[n] # NoProvider
    <3>1. order' = order /\ size' = size /\ phase' = phase /\ mishaps \subseteq mishaps'
      BY <1>2, <2>2 DEF Register, loop
    <3> QED BY <3>1
  <2> QED BY <2>1, <2>2
<1>3. CASE Stop
  BY <1>3 DEF Stop, closed
<1>4. CASE LoopBreaks \/ LoopEnds \/ AcloseRaises \/ CloseRedis \/ CloseClient
  BY <1>4 DEF LoopBreaks, LoopEnds, AcloseRaises, CloseRedis, CloseClient
<1>5. CASE Visit \/ AcloseReturns \/ UNCHANGED vars
  BY <1>5 DEF Visit, AcloseReturns, closed, loop, vars
<1> QED BY <1>1, <1>2, <1>3, <1>4, <1>5 DEF Next, ShutdownStep

(* Every way out of a shutdown passes the close of Redis, but for an       *)
(* exception of an aclose() and for a loop that breaks.                    *)
LEMMA NextRedis == ASSUME SizeInv, RedisInv, [Next]_vars PROVE RedisInv'
<1> USE DEF RedisInv
<1>1. CASE CreateApp \/ RefuseToBoot \/ UNCHANGED vars
  BY <1>1 DEF CreateApp, RefuseToBoot, resources, vars
<1>2. ASSUME NEW n \in Names, Register(n) PROVE RedisInv'
  <2>1. mishaps \subseteq mishaps' /\ UNCHANGED <<phase, lifespan, redis>>
    BY <1>2 DEF Register, resources
  <2> QED BY <2>1
<1>3. CASE Startup \/ StartupFails
  <2>1. /\ phase \in {"created", "ended"} /\ phase' \in {"serving", "failed"}
        /\ redis' = redis \cup {lifespan'} /\ mishaps' = mishaps
    BY <1>3 DEF Startup, StartupFails, Start
  <2> QED BY <2>1
<1>4. CASE LoopBreaks
  BY <1>4 DEF LoopBreaks, SizeInv
<1>5. CASE AcloseRaises
  BY <1>5 DEF AcloseRaises
<1>6. CASE CloseRedis
  <2>1. /\ lifespan' = lifespan
        /\ \/ redis' = redis \ {lifespan} /\ mishaps' = mishaps
           \/ "raised" \in mishaps'
    BY <1>6 DEF CloseRedis, closed
  <2> QED BY <2>1
<1>7. CASE Stop \/ Visit \/ LoopEnds \/ AcloseReturns
  BY <1>7 DEF Stop, Visit, LoopEnds, AcloseReturns, closed, resources
<1>8. CASE CloseClient
  BY <1>8 DEF CloseClient, closed
<1> QED BY <1>1, <1>2, <1>3, <1>4, <1>5, <1>6, <1>7, <1>8 DEF Next, ShutdownStep

(* AnthropicProvider is the last in SPECS: when an extra is missing, of    *)
(* whichever vendor, its pool was not opened.                              *)
LEMMA OnlyFullTablesOwnPools == Missing # {} => Built \cap PoolOwners = {}
<1> SUFFICES ASSUME Missing # {}, "anthropic" \in Built PROVE FALSE
  BY DEF PoolOwners
<1>1. PICK i \in 1..3 : /\ SpecNames[i] = "anthropic"
                        /\ \A k \in 1..i : SpecNames[k] \notin Missing
  BY DEF Built, SpecNames
<1>2. i = 3
  BY <1>1 DEF SpecNames
<1>3. \A k \in 1..3 : SpecNames[k] \notin Missing
  BY <1>1, <1>2
<1>4. /\ SpecNames[1] \notin Missing /\ SpecNames[2] \notin Missing
      /\ SpecNames[3] \notin Missing
  BY <1>3, 1 \in 1..3, 2 \in 1..3, 3 \in 1..3
<1>5. Missing \subseteq {SpecNames[1], SpecNames[2], SpecNames[3]}
  BY DEF Missing, Configured, Vendors, SpecNames
<1> QED BY <1>4, <1>5

LEMMA NextPools ==
    ASSUME TypeInv, SizeInv, PoolsInv, [Next]_vars
    PROVE  PoolsInv'
<1> SUFFICES ASSUME mishaps' = {}
             PROVE  /\ pools' \subseteq {lifespan'}
                    /\ pools' # {} => phase' \in PoolPhases /\ Owns("anthropic")'
                    /\ pools' # {} /\ phase' = "iterating" =>
                          \E i \in visited' + 1..size' : order'[i] = "anthropic"
  BY DEF PoolsInv
<1>0. "anthropic" \in Names
  BY DEF Names, Vendors, SpecNames
<1>1. CASE CreateApp \/ RefuseToBoot
  BY <1>1 DEF CreateApp, RefuseToBoot, resources, PoolsInv, PoolPhases
<1>2. ASSUME NEW n \in Names, Register(n)
      PROVE  /\ pools' \subseteq {lifespan'}
             /\ pools' # {} => phase' \in PoolPhases /\ Owns("anthropic")'
             /\ phase' # "iterating"
  <2>1. /\ mishaps = {} /\ ~Owns(n) /\ UNCHANGED <<phase, lifespan, pools>>
        /\ phase # "iterating"
    BY <1>2 DEF Register, resources, OthersRun
  <2>2. Owns("anthropic") => providers'["anthropic"] = providers["anthropic"]
    BY <1>0, <1>2, <2>1 DEF Register, TypeInv, EntriesMade
  <2> QED BY <2>1, <2>2 DEF PoolsInv, Owns
<1>3. CASE Startup
  <2>1. /\ phase \in {"created", "ended"} /\ phase' = "serving" /\ mishaps = {}
        /\ \/ pools' = pools
           \/ pools' = {lifespan'} /\ "anthropic" \in Built
    <3>1. /\ phase \in {"created", "ended"} /\ phase' = "serving" /\ mishaps = {}
          /\ pools' = IF Built \cap PoolOwners = {} THEN pools ELSE pools \cup {lifespan'}
      BY <1>3 DEF Startup, Start
    <3>2. pools = {}
      BY <3>1 DEF PoolsInv, PoolPhases
    <3>3. Built \cap PoolOwners # {} => "anthropic" \in Built
      BY DEF PoolOwners
    <3>4. CASE Built \cap PoolOwners = {}
      BY <3>1, <3>4
    <3>5. CASE Built \cap PoolOwners # {}
      BY <3>1, <3>2, <3>3, <3>5
    <3> QED BY <3>4, <3>5
  <2>2. pools = {}
    BY <2>1 DEF PoolsInv, PoolPhases
  <2>3. "anthropic" \in Built => Owns("anthropic")'
    <3>1. "anthropic" \in Built => "anthropic" \in Configured
      BY DEF Built
    <3>2. "anthropic" \in Configured => providers'["anthropic"].kind = "vendor"
      BY <1>0, <1>3 DEF Startup, Updated
    <3> QED BY <3>1, <3>2 DEF Owns, PoolOwners
  <2> QED BY <2>1, <2>2, <2>3 DEF PoolPhases
<1>4. CASE StartupFails
  <2>1. /\ phase \in {"created", "ended"} /\ mishaps = {} /\ pools' = pools
    BY <1>4, OnlyFullTablesOwnPools DEF StartupFails, Start
  <2> QED BY <2>1 DEF PoolsInv, PoolPhases
<1>5. CASE Stop
  <2>1. /\ phase = "serving" /\ phase' = "iterating" /\ visited' = 0 /\ size' = Len(order)
        /\ UNCHANGED <<lifespan, pools, providers, order, mishaps>>
    BY <1>5 DEF Stop, closed, resources
  <2>2. Owns("anthropic") => \E i \in 1..Len(order) : order[i] = "anthropic"
    <3>1. Owns("anthropic") => "anthropic" \in Present
      BY <1>0 DEF Owns, Present, NoProvider
    <3> QED BY <1>0, <3>1 DEF TypeInv, KeysInv, Keys
  <2>3. 0 + 1 = 1
    OBVIOUS
  <2>4. Owns("anthropic")' <=> Owns("anthropic")
    BY <2>1 DEF Owns
  <2>5. pools \subseteq {lifespan} /\ (pools # {} => Owns("anthropic"))
    BY <2>1 DEF PoolsInv
  <2> QED BY <2>1, <2>2, <2>3, <2>4, <2>5 DEF PoolPhases
<1>6. CASE Visit
  <2>1. /\ phase = "iterating" /\ visited' = visited + 1
        /\ phase' = IF Owns(order[visited + 1]) THEN "aclosing" ELSE "iterating"
        /\ UNCHANGED <<lifespan, pools, providers, order, size, mishaps>>
    BY <1>6 DEF Visit, HasAclose, closed, resources
  <2>2. /\ Owns("anthropic")' <=> Owns("anthropic")
        /\ pools \subseteq {lifespan}
        /\ pools # {} => Owns("anthropic")
        /\ pools # {} => \E i \in visited + 1..size : order[i] = "anthropic"
    BY <2>1 DEF PoolsInv, Owns
  <2>3. visited \in Nat /\ size \in Nat
    BY DEF TypeInv, KeysInv, Keys
  <2>4. ASSUME pools # {}, phase' = "iterating"
        PROVE  \E i \in visited' + 1..size' : order'[i] = "anthropic"
    <3>1. PICK i \in visited + 1..size : order[i] = "anthropic"
      BY <2>2, <2>4
    <3>2. i # visited + 1
      BY <2>1, <2>2, <2>4, <3>1
    <3>3. i \in visited' + 1..size'
      BY <2>1, <2>3, <3>1, <3>2
    <3> QED BY <2>1, <3>1, <3>3
  <2> QED BY <2>1, <2>2, <2>4 DEF PoolPhases
<1>7. CASE LoopEnds
  <2>1. /\ phase = "iterating" /\ visited = size /\ mishaps = {}
        /\ UNCHANGED <<pools, lifespan>>
    BY <1>7 DEF LoopEnds, closed, resources
  <2>2. visited \in Nat /\ size \in Nat
    BY DEF TypeInv, KeysInv, Keys
  <2>3. pools = {}
    BY <2>1, <2>2 DEF PoolsInv
  <2> QED BY <2>1, <2>3
<1>8. CASE AcloseReturns
  <2>1. /\ lifespan' = lifespan /\ mishaps = {} /\ pools' = pools \ {lifespan}
    BY <1>8 DEF AcloseReturns, closed
  <2> QED BY <2>1 DEF PoolsInv
<1>9. CASE LoopBreaks
  BY <1>9 DEF LoopBreaks, SizeInv
<1>10. CASE AcloseRaises
  BY <1>10 DEF AcloseRaises
<1>11. CASE CloseRedis \/ CloseClient
  <2>1. /\ phase \in {"closing_redis", "unwinding"} /\ mishaps = {} /\ pools' = pools
    BY <1>11 DEF CloseRedis, CloseClient
  <2> QED BY <2>1 DEF PoolsInv, PoolPhases
<1>12. CASE UNCHANGED vars
  BY <1>12 DEF vars, resources, loop, PoolsInv, Owns
<1> QED BY <1>1, <1>2, <1>3, <1>4, <1>5, <1>6, <1>7, <1>8, <1>9, <1>10, <1>11, <1>12
        DEF Next, ShutdownStep

(* A lifespan leaves nothing open without one of the three causes, and     *)
(* only two of them cost Redis.                                            *)
THEOREM ResourcesClosed == Spec => []ShutdownReleases
<1>1. Init => ResourcesInv
  BY DEF Init, ResourcesInv, ClientInv, SizeInv, RedisInv, PoolsInv
<1>2. TypeInv /\ ResourcesInv /\ [Next]_vars => ResourcesInv'
  BY NextClient, NextSize, NextRedis, NextPools DEF ResourcesInv
<1>3. ResourcesInv => ShutdownReleases
  BY DEF ResourcesInv, ClientInv, RedisInv, PoolsInv, PoolPhases, ShutdownReleases
<1> QED BY <1>1, <1>2, <1>3, TypeInvHolds, PTL DEF Spec

=============================================================================
