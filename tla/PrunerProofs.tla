---------------------------- MODULE PrunerProofs ----------------------------
(***************************************************************************)
(* What the pruner keeps, of any conversation.  The loop of                *)
(* _sliding_window is a fold over the positions of the turns, from the     *)
(* last to the first; LoopMeans says of each stage of it which positions   *)
(* it has kept and what it has counted, and is shown by way of a smallest  *)
(* set of positions for which it would be false.  Fingerprints are built   *)
(* by a fold as well, and by a recursion for the decimal lengths; that no  *)
(* two turns share one goes by the first field in which they differ.       *)
(***************************************************************************)
EXTENDS Pruner, FoldTheorems, SequenceTheorems

-----------------------------------------------------------------------------
(* Sizes.                                                                  *)

SizesOf(t) == [i \in DOMAIN t |-> TurnSize(t[i])]
TokensOf(t) == [i \in DOMAIN t |-> Tokens(TurnSize(t[i]))]

LEMMA SumOfNaturals ==
    ASSUME NEW n \in Nat, NEW f \in [1..n -> Nat]
    PROVE  SumFunction(f) \in Nat
<1>1. IsFiniteSet(1..n)
  BY FS_Interval
<1>2. Total(f, 1..n) \in Nat
  BY <1>1, TotalNatural
<1> QED
  BY <1>2, SumsAreTotals

LEMMA CharsAreNatural ==
    ASSUME PrunerAssumption, NEW x \in Seq(DOMAIN Chars)
    PROVE  CharsOf(x) \in Nat
<1>1. [i \in DOMAIN x |-> Chars[x[i]]] \in [1..Len(x) -> Nat] /\ Len(x) \in Nat
  BY DEF PrunerAssumption
<1> QED
  BY <1>1, SumOfNaturals DEF CharsOf

LEMMA TurnSizeIsNatural ==
    ASSUME PrunerAssumption, NEW t \in Turns
    PROVE  TurnSize(t) \in Nat
<1>1. Fields[t] \in Seq(Seq(DOMAIN Chars)) /\ Fields[t] # <<>>
  BY DEF PrunerAssumption
<1>2. TextsOf(t) \in Seq(Seq(DOMAIN Chars))
  <2> DEFINE F == Fields[t]
  <2>1. F \in Seq(Seq(DOMAIN Chars)) /\ F # <<>>
    BY <1>1
  <2> HIDE DEF F
  <2>2. Tail(F) \in Seq(Seq(DOMAIN Chars))
    BY <2>1
  <2> QED
    BY <2>2 DEF F, TextsOf
<1>3. \A i \in DOMAIN TextsOf(t) : CharsOf(TextsOf(t)[i]) \in Nat
  BY <1>2, CharsAreNatural
<1>4. /\ Len(TextsOf(t)) \in Nat
      /\ [i \in DOMAIN TextsOf(t) |-> CharsOf(TextsOf(t)[i])] \in [1..Len(TextsOf(t)) -> Nat]
  BY <1>2, <1>3
<1>5. SumFunction([i \in DOMAIN TextsOf(t) |-> CharsOf(TextsOf(t)[i])]) \in Nat
  BY <1>4, SumOfNaturals
<1> QED
  BY <1>5 DEF TurnSize, PerTurnOverhead

LEMMA SystemSizeIsNatural ==
    ASSUME PrunerAssumption, NEW s \in SystemChars
    PROVE  SystemSize(s) \in Nat
BY DEF PrunerAssumption, SystemSize, NoSystem, PerTurnOverhead

(* Rounding up is never below the exact count, and rounding two parts      *)
(* never below rounding the whole.                                         *)
LEMMA RoundedUp ==
    ASSUME NEW q \in Nat
    PROVE  ExactTokens(q) \in Nat /\ Tokens(q) \in Nat /\ ExactTokens(q) <= Tokens(q)
<1>1. ExactTokens(q) \in Nat
  BY DEF ExactTokens
<1> QED
  BY <1>1 DEF Tokens

LEMMA RoundedApart ==
    ASSUME NEW a \in Nat, NEW q \in Nat
    PROVE  ExactTokens(a + q) <= ExactTokens(a) + Tokens(q)
<1>1. ExactTokens(a + q) <= ExactTokens(a) + ExactTokens(q)
  BY DEF ExactTokens
<1>2. ExactTokens(a + q) \in Nat /\ ExactTokens(a) \in Nat
  BY DEF ExactTokens
<1> QED
  BY <1>1, <1>2, RoundedUp

LEMMA TablesOfConversation ==
    ASSUME PrunerAssumption, NEW t \in Seq(Turns)
    PROVE  /\ IsFiniteSet(DOMAIN t) /\ DOMAIN t \subseteq Nat
           /\ \A i \in DOMAIN t : SizesOf(t)[i] \in Nat /\ TokensOf(t)[i] \in Nat
           /\ \A i \in DOMAIN t : TokensOf(t)[i] = Tokens(SizesOf(t)[i])
<1>1. DOMAIN t = 1..Len(t) /\ Len(t) \in Nat
  OBVIOUS
<1>2. \A i \in DOMAIN t : TurnSize(t[i]) \in Nat
  BY TurnSizeIsNatural
<1>3. IsFiniteSet(DOMAIN t) /\ DOMAIN t \subseteq Nat
  BY <1>1, FS_Interval
<1>4. \A i \in DOMAIN t : Tokens(TurnSize(t[i])) \in Nat
  BY <1>2, RoundedUp
<1>5. \A i \in DOMAIN t : /\ SizesOf(t)[i] = TurnSize(t[i])
                          /\ TokensOf(t)[i] = Tokens(TurnSize(t[i]))
  BY DEF SizesOf, TokensOf
<1> QED
  BY <1>2, <1>3, <1>4, <1>5

(* Summing the rounded-up turns of any part of a conversation is on the    *)
(* safe side.                                                              *)
LEMMA RoundingIsSafe ==
    ASSUME PrunerAssumption, NEW t \in Seq(Turns), NEW a \in Nat,
           NEW K \in SUBSET (DOMAIN t)
    PROVE  ExactTokens(a + Total(SizesOf(t), K)) <= Tokens(a) + Total(TokensOf(t), K)
<1> DEFINE f == SizesOf(t)
           g == TokensOf(t)
           X == DOMAIN t
           C == {u \in SUBSET X :
                    ~(ExactTokens(a + Total(f, u)) <= Tokens(a) + Total(g, u))}
<1> SUFFICES ASSUME C # {} PROVE FALSE
  OBVIOUS
<1>0. /\ IsFiniteSet(X)
      /\ \A i \in X : f[i] \in Nat /\ g[i] \in Nat /\ g[i] = Tokens(f[i])
  BY TablesOfConversation
<1> HIDE DEF f, g, X
<1>1. PICK u \in C : \A v \in SUBSET u : v # u => v \notin C
  <2>1. C \subseteq SUBSET X
    OBVIOUS
  <2> HIDE DEF C
  <2> QED
    BY <1>0, <2>1, SmallestSubset
<1>2. u \in SUBSET X /\ ~(ExactTokens(a + Total(f, u)) <= Tokens(a) + Total(g, u))
  OBVIOUS
<1>3. CASE u = {}
  <2>1. Total(f, u) = 0 /\ Total(g, u) = 0
    BY <1>3, TotalEmpty
  <2> QED
    BY <1>2, <2>1, RoundedUp
<1>4. CASE u # {}
  <2>1. PICK x \in u : TRUE
    BY <1>4
  <2> DEFINE v == u \ {x}
  <2>2. /\ IsFiniteSet(u) /\ IsFiniteSet(v)
        /\ \A i \in u : f[i] \in Int /\ g[i] \in Int
        /\ \A i \in v : f[i] \in Nat /\ g[i] \in Nat
    BY <1>0, <1>2, FS_Subset
  <2>3. Total(f, u) = f[x] + Total(f, v) /\ Total(g, u) = g[x] + Total(g, v)
    <3>1. (\A i \in u : f[i] \in Int) /\ (\A i \in u : g[i] \in Int)
      BY <2>2
    <3>2. Total(f, u) = f[x] + Total(f, v)
      BY <2>1, <2>2, <3>1, TotalTakesOut
    <3>3. Total(g, u) = g[x] + Total(g, v)
      BY <2>1, <2>2, <3>1, TotalTakesOut
    <3> QED
      BY <3>2, <3>3
  <2>4. Total(f, v) \in Nat /\ Total(g, v) \in Nat
    BY <2>2, TotalNatural
  <2>5. ExactTokens(a + Total(f, v)) <= Tokens(a) + Total(g, v)
    BY <1>1, <1>2, <2>1
  <2>6. f[x] \in Nat /\ g[x] \in Nat /\ g[x] = Tokens(f[x])
    BY <1>0, <1>2, <2>1
  <2> DEFINE p == a + Total(f, v)
  <2>7. p \in Nat /\ a + Total(f, u) = p + f[x]
    BY <2>3, <2>4, <2>6
  <2>8. ExactTokens(p + f[x]) <= ExactTokens(p) + Tokens(f[x])
    <3> HIDE DEF p
    <3> QED
      BY <2>6, <2>7, RoundedApart
  <2>9. ExactTokens(p + f[x]) \in Nat /\ ExactTokens(p) \in Nat /\ Tokens(a) \in Nat
    <3>1. p + f[x] \in Nat
      BY <2>6, <2>7
    <3> HIDE DEF p
    <3> QED
      BY <2>7, <3>1, RoundedUp
  <2> HIDE DEF v
  <2> QED
    BY <1>2, <2>3, <2>4, <2>5, <2>6, <2>7, <2>8, <2>9
<1> QED
  BY <1>3, <1>4

-----------------------------------------------------------------------------
(* The loop.  FoldRight is a function over the sets of positions, which    *)
(* takes the smallest position last.                                       *)

Start(s) == [kept |-> {}, running |-> Tokens(SystemSize(s))]

Look(t, D, b, i, w) ==
    IF i \in D /\ Fits(w, t[i], b)
    THEN [kept |-> w.kept \cup {i}, running |-> w.running + Tokens(TurnSize(t[i]))]
    ELSE w

Positions(t) == [i \in DOMAIN t |-> i]

Stages(g, t, D, s, b, X) ==
    g = [S \in SUBSET X |-> IF S = {} THEN Start(s)
                            ELSE Look(t, D, b, Positions(t)[Min(S)], g[S \ {Min(S)}])]

LEMMA StagesAgree ==
    ASSUME NEW t, NEW D, NEW s, NEW b, NEW X \in SUBSET Nat, NEW Y \in SUBSET Nat,
           IsFiniteSet(X), NEW g, NEW h,
           Stages(g, t, D, s, b, X), Stages(h, t, D, s, b, Y), NEW S \in SUBSET (X \cap Y)
    PROVE  g[S] = h[S]
<1> DEFINE C == {u \in SUBSET X : u \in SUBSET Y /\ g[u] # h[u]}
<1> SUFFICES ASSUME C # {} PROVE FALSE
  OBVIOUS
<1>1. PICK u \in C : \A v \in SUBSET u : v # u => v \notin C
  <2>1. C \subseteq SUBSET X
    OBVIOUS
  <2> HIDE DEF C
  <2> QED
    BY <2>1, SmallestSubset
<1> DEFINE v == u \ {Min(u)}
<1>2. /\ u \in SUBSET X /\ u \in SUBSET Y /\ g[u] # h[u]
      /\ g[u] = IF u = {} THEN Start(s) ELSE Look(t, D, b, Positions(t)[Min(u)], g[v])
      /\ h[u] = IF u = {} THEN Start(s) ELSE Look(t, D, b, Positions(t)[Min(u)], h[v])
  BY DEF Stages
<1>3. u # {}
  BY <1>2
<1>4. v \in SUBSET u /\ v # u
  BY <1>2, <1>3, LeastPosition
<1>5. g[v] = h[v]
  <2> HIDE DEF v
  <2> QED
    BY <1>1, <1>2, <1>4
<1> QED
  BY <1>2, <1>3, <1>5

LEMMA StagesExist ==
    ASSUME NEW t, NEW D, NEW s, NEW b, NEW X \in SUBSET Nat, IsFiniteSet(X)
    PROVE  \E g : Stages(g, t, D, s, b, X)
<1> DEFINE C == {T \in SUBSET X : ~ \E g : Stages(g, t, D, s, b, T)}
<1> SUFFICES ASSUME C # {} PROVE FALSE
  OBVIOUS
<1>1. PICK T \in C : \A u \in SUBSET T : u # T => u \notin C
  <2>1. C \subseteq SUBSET X
    OBVIOUS
  <2> HIDE DEF C
  <2> QED
    BY <2>1, SmallestSubset
<1>2. \A u \in SUBSET T : u # T => \E g : Stages(g, t, D, s, b, u)
  BY <1>1
<1> DEFINE Of(u) == CHOOSE g : Stages(g, t, D, s, b, u)
           Less(u) == u \ {Min(u)}
           G == [u \in SUBSET T |-> IF u = {} THEN Start(s)
                                    ELSE Look(t, D, b, Positions(t)[Min(u)], Of(Less(u))[Less(u)])]
<1>3. \A u \in SUBSET T : u # T => Stages(Of(u), t, D, s, b, u)
  BY <1>2
<1>4. \A u \in SUBSET T : u # {} => Less(u) \in SUBSET u /\ Less(u) # u
  BY LeastPosition
<1>5. ASSUME NEW a \in SUBSET T, a # {} PROVE G[Less(a)] = Of(Less(a))[Less(a)]
  <2> DEFINE u == Less(a)
             v == Less(u)
  <2>1. u \in SUBSET T /\ u # T
    <3>1. u \in SUBSET a /\ u # a
      BY <1>4, <1>5
    <3> HIDE DEF u
    <3> QED
      BY <3>1
  <2>2. Of(u)[u] = IF u = {} THEN Start(s) ELSE Look(t, D, b, Positions(t)[Min(u)], Of(u)[v])
    <3>1. Stages(Of(u), t, D, s, b, u)
      BY <1>3, <2>1
    <3> HIDE DEF Of, u
    <3> QED
      BY <3>1 DEF Stages
  <2>3. G[u] = IF u = {} THEN Start(s) ELSE Look(t, D, b, Positions(t)[Min(u)], Of(v)[v])
    BY <2>1
  <2>4. CASE u = {}
    BY <2>2, <2>3, <2>4
  <2>5. CASE u # {}
    <3>1. v \in SUBSET u /\ v # T
      BY <1>4, <2>1, <2>5
    <3>2. Stages(Of(u), t, D, s, b, u) /\ Stages(Of(v), t, D, s, b, v)
      BY <1>3, <2>1, <3>1
    <3>3. IsFiniteSet(u) /\ u \in SUBSET Nat /\ v \in SUBSET Nat /\ v \in SUBSET (u \cap v)
      BY <1>1, <2>1, <3>1, FS_Subset
    <3>4. Of(u)[v] = Of(v)[v]
      <4> DEFINE g == Of(u)
                 h == Of(v)
      <4>1. Stages(g, t, D, s, b, u) /\ Stages(h, t, D, s, b, v)
        BY <3>2
      <4> HIDE DEF u, v, g, h, Of, Less
      <4>2. g[v] = h[v]
        BY <3>3, <4>1, StagesAgree
      <4> QED
        BY <4>2 DEF g, h
    <3>5. Of(u)[u] = G[u]
      <4> HIDE DEF u, v, Of, Less, G
      <4> QED
        BY <2>2, <2>3, <2>5, <3>4
    <3> QED
      BY <3>5
  <2> QED
    BY <2>4, <2>5
<1>6. Stages(G, t, D, s, b, T)
  <2> HIDE DEF Of
  <2>1. G = [u \in SUBSET T |-> IF u = {} THEN Start(s)
                                ELSE Look(t, D, b, Positions(t)[Min(u)], G[Less(u)])]
    BY <1>5
  <2> HIDE DEF G
  <2> QED
    BY <2>1 DEF Stages
<1> QED
  BY <1>1, <1>6

(* What _sliding_window returns is what its last stage has kept.           *)
LEMMA WindowIsLastStage ==
    ASSUME NEW t, NEW D, NEW s, NEW b
    PROVE  Window(t, D, s, b) =
              (CHOOSE g : Stages(g, t, D, s, b, DOMAIN Positions(t)))[DOMAIN Positions(t)].kept
BY DEF Window, FoldRight, MapThenFoldSet, Stages, Look, Start, Positions

-----------------------------------------------------------------------------
(* What a stage of the loop has done to the positions S it has seen.       *)

CountedOf(t, s, K) == Tokens(SystemSize(s)) + Total(TokensOf(t), K)

Later(K, i) == {j \in K : j > i}

StillFits(t, s, b, K, i) ==
    Later(K, i) = {} \/ CountedOf(t, s, Later(K, i)) + Tokens(TurnSize(t[i])) <= b

LoopMeans(t, D, s, b, S, w) ==
    /\ w.kept \in SUBSET (S \cap D)
    /\ w.running = CountedOf(t, s, w.kept)
    /\ Cardinality(w.kept) > 1 => w.running <= b
    /\ \A i \in S : i \in w.kept <=> i \in D /\ StillFits(t, s, b, w.kept, i)

LEMMA CountedIsNatural ==
    ASSUME PrunerAssumption, NEW t \in Seq(Turns), NEW s \in SystemChars,
           NEW K \in SUBSET (DOMAIN t)
    PROVE  CountedOf(t, s, K) \in Nat
<1>1. IsFiniteSet(K) /\ \A i \in K : TokensOf(t)[i] \in Nat
  BY TablesOfConversation, FS_Subset
<1>2. Total(TokensOf(t), K) \in Nat
  BY <1>1, TotalNatural
<1>3. Tokens(SystemSize(s)) \in Nat
  BY SystemSizeIsNatural, RoundedUp
<1> QED
  BY <1>2, <1>3 DEF CountedOf

(* Keeping one more turn adds what it is estimated at.                     *)
LEMMA CountedOneMore ==
    ASSUME PrunerAssumption, NEW t \in Seq(Turns), NEW s \in SystemChars,
           NEW K \in SUBSET (DOMAIN t), NEW m \in DOMAIN t, m \notin K
    PROVE  CountedOf(t, s, K \cup {m}) = CountedOf(t, s, K) + Tokens(TurnSize(t[m]))
<1> DEFINE f == TokensOf(t)
<1>1. IsFiniteSet(K) /\ (\A i \in K : f[i] \in Int) /\ f[m] \in Int
  BY TablesOfConversation, FS_Subset
<1>2. f[m] = Tokens(TurnSize(t[m]))
  BY DEF TokensOf
<1> HIDE DEF f
<1>3. Total(f, K \cup {m}) = Total(f, K) + f[m]
  BY <1>1, TotalAdds
<1>4. Total(f, K) \in Int
  BY <1>1, TotalType
<1>5. Tokens(SystemSize(s)) \in Nat
  BY SystemSizeIsNatural, RoundedUp
<1> QED
  BY <1>1, <1>2, <1>3, <1>4, <1>5 DEF CountedOf, f

LEMMA LoopStep ==
    ASSUME PrunerAssumption, NEW t \in Seq(Turns), NEW s \in SystemChars, NEW b \in Nat,
           NEW D, NEW S \in SUBSET (DOMAIN t), S # {},
           NEW w, LoopMeans(t, D, s, b, S \ {Min(S)}, w)
    PROVE  LoopMeans(t, D, s, b, S, Look(t, D, b, Min(S), w))
<1> DEFINE m == Min(S)
           z == Look(t, D, b, m, w)
           size == Tokens(TurnSize(t[m]))
<1>1. /\ m \in S /\ m \in DOMAIN t
      /\ \A j \in S \ {m} : j \in Nat /\ j > m
      /\ \A j \in S : j \in Nat
  <2>1. S \in SUBSET Nat
    BY TablesOfConversation
  <2> QED
    BY <2>1, LeastPosition
<1>2. /\ w.kept \in SUBSET ((S \ {m}) \cap D)
      /\ w.running = CountedOf(t, s, w.kept)
      /\ Cardinality(w.kept) > 1 => w.running <= b
      /\ \A i \in S \ {m} : i \in w.kept <=> i \in D /\ StillFits(t, s, b, w.kept, i)
  BY DEF LoopMeans
<1>3. m \notin w.kept /\ w.kept \in SUBSET (DOMAIN t) /\ Later(w.kept, m) = w.kept
  BY <1>1, <1>2 DEF Later
<1>4. Fits(w, t[m], b) <=> StillFits(t, s, b, w.kept, m)
  BY <1>2, <1>3 DEF Fits, StillFits
<1> HIDE DEF m
<1>5. CASE m \in D /\ Fits(w, t[m], b)
  <2> DEFINE K == w.kept \cup {m}
  <2>1. z.kept = K /\ z.running = w.running + size
    BY <1>5 DEF Look
  <2>2. z.kept \in SUBSET (S \cap D)
    BY <1>1, <1>2, <1>5, <2>1
  <2>3. z.running = CountedOf(t, s, z.kept)
    <3>1. CountedOf(t, s, K) = CountedOf(t, s, w.kept) + size
      <4>1. w.kept \in SUBSET (DOMAIN t) /\ m \in DOMAIN t /\ m \notin w.kept
        BY <1>1, <1>3
      <4> QED
        BY <4>1, CountedOneMore
    <3> HIDE DEF z, K, size
    <3> QED
      BY <1>2, <2>1, <3>1
  <2>4. Cardinality(z.kept) > 1 => z.running <= b
    <3>1. CASE w.kept = {}
      <4>1. z.kept = {m} /\ Cardinality({m}) = 1
        BY <2>1, <3>1, FS_Singleton
      <4> HIDE DEF z
      <4> QED
        BY <4>1
    <3>2. CASE w.kept # {}
      BY <1>5, <2>1, <3>2 DEF Fits
    <3> QED
      BY <3>1, <3>2
  <2>5. Later(K, m) = w.kept /\ \A i \in S \ {m} : Later(K, i) = Later(w.kept, i)
    BY <1>1, <1>2 DEF Later
  <2>6. ASSUME NEW i \in S
        PROVE  i \in z.kept <=> i \in D /\ StillFits(t, s, b, z.kept, i)
    <3>1. CASE i = m
      <4>1. StillFits(t, s, b, K, m)
        BY <1>3, <1>4, <1>5, <2>5 DEF StillFits
      <4> QED
        BY <1>5, <2>1, <3>1, <4>1
    <3>2. CASE i # m
      <4>1. StillFits(t, s, b, K, i) <=> StillFits(t, s, b, w.kept, i)
        BY <2>5, <3>2 DEF StillFits
      <4>2. i \in K <=> i \in w.kept
        BY <3>2
      <4> QED
        BY <1>2, <2>1, <3>2, <4>1, <4>2
    <3> QED
      BY <3>1, <3>2
  <2> HIDE DEF z
  <2> QED
    BY <2>2, <2>3, <2>4, <2>6 DEF LoopMeans, z, m
<1>6. CASE ~(m \in D /\ Fits(w, t[m], b))
  <2>1. z = w
    BY <1>6 DEF Look
  <2>2. w.kept \in SUBSET (S \cap D)
    BY <1>2
  <2>3. ASSUME NEW i \in S
        PROVE  i \in w.kept <=> i \in D /\ StillFits(t, s, b, w.kept, i)
    <3>1. CASE i = m
      BY <1>3, <1>4, <1>6, <3>1
    <3>2. CASE i # m
      BY <1>2, <3>2
    <3> QED
      BY <3>1, <3>2
  <2>4. LoopMeans(t, D, s, b, S, w)
    BY <1>2, <2>2, <2>3 DEF LoopMeans
  <2> HIDE DEF z
  <2> QED
    BY <2>1, <2>4 DEF z, m
<1> QED
  BY <1>5, <1>6

LEMMA LoopIsMeant ==
    ASSUME PrunerAssumption, NEW t \in Seq(Turns), NEW s \in SystemChars, NEW b \in Nat,
           NEW D
    PROVE  \E w : LoopMeans(t, D, s, b, DOMAIN t, w) /\ w.kept = Window(t, D, s, b)
<1> DEFINE X == DOMAIN Positions(t)
           g == CHOOSE h : Stages(h, t, D, s, b, X)
           C == {S \in SUBSET X : ~LoopMeans(t, D, s, b, S, g[S])}
<1>1. X = DOMAIN t /\ (\A i \in X : Positions(t)[i] = i) /\ IsFiniteSet(X) /\ X \in SUBSET Nat
  BY TablesOfConversation DEF Positions
<1> HIDE DEF X
<1>2. Stages(g, t, D, s, b, X)
  BY <1>1, StagesExist
<1> HIDE DEF g
<1>3. ASSUME C # {} PROVE FALSE
  <2>1. PICK S \in C : \A v \in SUBSET S : v # S => v \notin C
    <3>1. C \subseteq SUBSET X
      OBVIOUS
    <3> HIDE DEF C
    <3> QED
      BY <1>1, <1>3, <3>1, SmallestSubset
  <2>2. S \in SUBSET X /\ ~LoopMeans(t, D, s, b, S, g[S])
    OBVIOUS
  <2>3. g[S] = IF S = {} THEN Start(s)
               ELSE Look(t, D, b, Positions(t)[Min(S)], g[S \ {Min(S)}])
    BY <1>2, <2>2 DEF Stages
  <2>4. CASE S = {}
    <3>1. g[S] = Start(s)
      BY <2>3, <2>4
    <3>2. Start(s).kept = {} /\ Start(s).running = Tokens(SystemSize(s))
      BY DEF Start
    <3>3. Tokens(SystemSize(s)) \in Nat
      BY SystemSizeIsNatural, RoundedUp
    <3>4. CountedOf(t, s, {}) = Tokens(SystemSize(s))
      BY <3>3, TotalEmpty DEF CountedOf
    <3>5. LoopMeans(t, D, s, b, S, g[S])
      BY <2>4, <3>1, <3>2, <3>4, FS_EmptySet DEF LoopMeans
    <3> QED
      BY <2>2, <3>5
  <2>5. CASE S # {}
    <3>1. /\ Min(S) \in S
          /\ S \ {Min(S)} \in SUBSET S /\ S \ {Min(S)} # S
      BY <1>1, <2>2, <2>5, LeastPosition
    <3>2. g[S] = Look(t, D, b, Min(S), g[S \ {Min(S)}])
      BY <1>1, <2>2, <2>3, <2>5, <3>1
    <3>3. LoopMeans(t, D, s, b, S \ {Min(S)}, g[S \ {Min(S)}])
      BY <2>1, <2>2, <3>1
    <3>4. LoopMeans(t, D, s, b, S, Look(t, D, b, Min(S), g[S \ {Min(S)}]))
      BY <1>1, <2>2, <2>5, <3>3, LoopStep
    <3> QED
      BY <2>2, <3>2, <3>4
  <2> QED
    BY <2>4, <2>5
<1>4. LoopMeans(t, D, s, b, X, g[X])
  BY <1>3
<1>5. Window(t, D, s, b) = g[X].kept
  BY WindowIsLastStage DEF g, X
<1> QED
  BY <1>1, <1>4, <1>5

-----------------------------------------------------------------------------
(* Lengths in decimal.  Decimal is a function by recursion, so it is first *)
(* shown to be defined: up to N, for each N, and so altogether.            *)

DigitOf(n) == Digits[(n % 10) + 1]
NextDecimal(f, n) == IF n < 10 THEN <<Digits[n + 1]>> ELSE Append(f[n \div 10], DigitOf(n))
UpTo(f, N) == f = [n \in 0..N |-> NextDecimal(f, n)]

LEMMA UpToAgree ==
    ASSUME NEW M \in Nat, NEW N \in Nat, NEW f, NEW g, UpTo(f, M), UpTo(g, N)
    PROVE  \A n \in Nat : n <= M /\ n <= N => f[n] = g[n]
<1> DEFINE C == {n \in Nat : n <= M /\ n <= N /\ f[n] # g[n]}
<1> SUFFICES ASSUME C # {} PROVE FALSE
  OBVIOUS
<1>1. PICK n \in C : \A m \in C : n <= m
  <2>1. C \in SUBSET Nat
    OBVIOUS
  <2> HIDE DEF C
  <2> QED
    BY <2>1, LeastNumber
<1>2. n \in 0..M /\ n \in 0..N /\ f[n] # g[n]
  OBVIOUS
<1>3. f[n] = NextDecimal(f, n) /\ g[n] = NextDecimal(g, n)
  BY <1>2 DEF UpTo
<1>4. n >= 10 => f[n \div 10] = g[n \div 10]
  <2> SUFFICES ASSUME n >= 10 PROVE f[n \div 10] = g[n \div 10]
    OBVIOUS
  <2>1. n \div 10 \in Nat /\ n \div 10 < n
    BY <1>2
  <2> QED
    BY <1>1, <1>2, <2>1
<1> QED
  BY <1>2, <1>3, <1>4 DEF NextDecimal

LEMMA UpToExists == \A N \in Nat : \E f : UpTo(f, N)
<1> DEFINE C == {N \in Nat : ~ \E f : UpTo(f, N)}
<1> SUFFICES ASSUME C # {} PROVE FALSE
  OBVIOUS
<1>1. PICK N \in C : \A m \in C : N <= m
  <2>1. C \in SUBSET Nat
    OBVIOUS
  <2> HIDE DEF C
  <2> QED
    BY <2>1, LeastNumber
<1>2. N \in Nat /\ ~ \E f : UpTo(f, N)
  OBVIOUS
<1>3. CASE N = 0
  <2> DEFINE g == [n \in 0..N |-> <<Digits[n + 1]>>]
  <2>1. g = [n \in 0..N |-> NextDecimal(g, n)]
    BY <1>3 DEF NextDecimal
  <2>2. UpTo(g, N)
    <3> HIDE DEF g
    <3> QED
      BY <2>1 DEF UpTo
  <2> QED
    BY <1>2, <2>2
<1>4. CASE N # 0
  <2>1. N - 1 \in Nat
    BY <1>2, <1>4
  <2>2. PICK f : UpTo(f, N - 1)
    BY <1>1, <2>1
  <2> DEFINE g == [n \in 0..N |-> IF n = N THEN NextDecimal(f, N) ELSE f[n]]
  <2>3. ASSUME NEW n \in 0..N PROVE g[n] = NextDecimal(g, n)
    <3>1. g[n] = NextDecimal(f, n)
      <4>1. CASE n = N
        BY <4>1
      <4>2. CASE n # N
        <5>1. n \in 0..(N - 1)
          BY <1>2, <4>2
        <5> QED
          BY <2>2, <4>2, <5>1 DEF UpTo
      <4> QED
        BY <4>1, <4>2
    <3>2. n >= 10 => g[n \div 10] = f[n \div 10]
      <4>1. n >= 10 => n \div 10 \in 0..N /\ n \div 10 # N
        BY <1>2
      <4> QED
        BY <4>1
    <3> HIDE DEF g
    <3> QED
      BY <1>2, <3>1, <3>2 DEF NextDecimal
  <2>4. UpTo(g, N)
    <3>1. g = [n \in 0..N |-> NextDecimal(g, n)]
      <4>1. g = [n \in 0..N |-> g[n]]
        OBVIOUS
      <4> HIDE DEF g
      <4> QED
        BY <2>3, <4>1
    <3> HIDE DEF g
    <3> QED
      BY <3>1 DEF UpTo
  <2> QED
    BY <1>2, <2>4
<1> QED
  BY <1>3, <1>4

LEMMA DecimalIs == \A n \in Nat : Decimal[n] = NextDecimal(Decimal, n)
<1> DEFINE Of(N) == CHOOSE f : UpTo(f, N)
           G == [n \in Nat |-> Of(n)[n]]
<1>1. \A N \in Nat : UpTo(Of(N), N)
  BY UpToExists
<1>2. ASSUME NEW n \in Nat PROVE G[n] = NextDecimal(G, n)
  <2>1. G[n] = NextDecimal(Of(n), n)
    <3>1. UpTo(Of(n), n)
      BY <1>1
    <3>2. G[n] = Of(n)[n]
      OBVIOUS
    <3> HIDE DEF G, Of
    <3>3. n \in 0..n
      OBVIOUS
    <3> QED
      BY <3>1, <3>2, <3>3 DEF UpTo
  <2>2. n >= 10 => G[n \div 10] = Of(n)[n \div 10]
    <3> SUFFICES ASSUME n >= 10 PROVE G[n \div 10] = Of(n)[n \div 10]
      OBVIOUS
    <3> DEFINE m == n \div 10
    <3>1. m \in Nat /\ m <= n
      OBVIOUS
    <3>2. G[m] = Of(m)[m]
      BY <3>1
    <3>3. UpTo(Of(m), m) /\ UpTo(Of(n), n)
      <4> HIDE DEF m, Of
      <4> QED
        BY <1>1, <3>1
    <3>4. Of(m)[m] = Of(n)[m]
      <4> DEFINE f == Of(m)
                 g == Of(n)
      <4>1. UpTo(f, m) /\ UpTo(g, n)
        BY <3>3
      <4> HIDE DEF f, g, m, Of
      <4>2. f[m] = g[m]
        BY <3>1, <4>1, UpToAgree
      <4> QED
        BY <4>2 DEF f, g
    <3> QED
      BY <3>2, <3>4
  <2> HIDE DEF G, Of
  <2> QED
    BY <2>1, <2>2 DEF NextDecimal
<1>3. G = [n \in Nat |-> NextDecimal(G, n)]
  <2>1. G = [n \in Nat |-> G[n]]
    OBVIOUS
  <2> HIDE DEF G
  <2> QED
    BY <1>2, <2>1
<1>4. \E f : f = [n \in Nat |-> NextDecimal(f, n)]
  <2> HIDE DEF G
  <2> QED
    BY <1>3
<1>5. Decimal = CHOOSE f : f = [n \in Nat |-> NextDecimal(f, n)]
  BY DEF Decimal, NextDecimal, DigitOf
<1>6. Decimal = [n \in Nat |-> NextDecimal(Decimal, n)]
  BY <1>4, <1>5
<1> QED
  BY <1>6

LEMMA SmallDecimal == \A n \in Nat : n < 10 => Decimal[n] = <<Digits[n + 1]>>
BY DecimalIs DEF NextDecimal

LEMMA LargeDecimal ==
    \A n \in Nat : n >= 10 => Decimal[n] = Append(Decimal[n \div 10], DigitOf(n))
<1> SUFFICES ASSUME NEW n \in Nat, n >= 10
             PROVE  Decimal[n] = Append(Decimal[n \div 10], DigitOf(n))
  OBVIOUS
<1>1. ~(n < 10)
  OBVIOUS
<1>2. Decimal[n] = NextDecimal(Decimal, n)
  BY DecimalIs
<1> QED
  BY <1>1, <1>2, Zenon DEF NextDecimal

Numerals == {"0", "1", "2", "3", "4", "5", "6", "7", "8", "9"}

LEMMA DigitsDiffer ==
    /\ \A a \in 0..9 : Digits[a + 1] \in Numerals
    /\ \A a, b \in 0..9 : Digits[a + 1] = Digits[b + 1] => a = b
    /\ ":" \notin Numerals
<1>1. \A a \in 0..9 : a = 0 \/ a = 1 \/ a = 2 \/ a = 3 \/ a = 4 \/ a = 5 \/ a = 6 \/ a = 7
                         \/ a = 8 \/ a = 9
  OBVIOUS
<1>2. /\ Digits[0 + 1] = "0" /\ Digits[1 + 1] = "1" /\ Digits[2 + 1] = "2"
      /\ Digits[3 + 1] = "3" /\ Digits[4 + 1] = "4" /\ Digits[5 + 1] = "5"
      /\ Digits[6 + 1] = "6" /\ Digits[7 + 1] = "7" /\ Digits[8 + 1] = "8"
      /\ Digits[9 + 1] = "9"
  BY DEF Digits
<1>3. \A a \in 0..9 : Digits[a + 1] \in Numerals
  BY <1>1, <1>2 DEF Numerals
<1>4. ASSUME NEW a \in 0..9, NEW b \in 0..9, Digits[a + 1] = Digits[b + 1] PROVE a = b
  BY <1>1, <1>2, <1>4
<1>5. ":" \notin Numerals
  BY DEF Numerals
<1> QED
  BY <1>3, <1>4, <1>5

LEMMA DecimalForm == \A n \in Nat : Decimal[n] \in Seq(Numerals) /\ Decimal[n] # <<>>
<1> DEFINE C == {n \in Nat : ~(Decimal[n] \in Seq(Numerals) /\ Decimal[n] # <<>>)}
<1> SUFFICES ASSUME C # {} PROVE FALSE
  OBVIOUS
<1>1. PICK n \in C : \A m \in C : n <= m
  <2>1. C \in SUBSET Nat
    OBVIOUS
  <2> HIDE DEF C
  <2> QED
    BY <2>1, LeastNumber
<1>2. n \in Nat /\ ~(Decimal[n] \in Seq(Numerals) /\ Decimal[n] # <<>>)
  OBVIOUS
<1>3. CASE n < 10
  <2>1. Digits[n + 1] \in Numerals
    BY <1>2, <1>3, DigitsDiffer
  <2>2. Decimal[n] = <<Digits[n + 1]>>
    BY <1>2, <1>3, SmallDecimal
  <2> QED
    BY <1>2, <2>1, <2>2
<1>4. CASE n >= 10
  <2>1. n \div 10 \in Nat /\ n \div 10 < n /\ n % 10 \in 0..9
    BY <1>2, <1>4
  <2>2. Decimal[n \div 10] \in Seq(Numerals)
    BY <1>1, <1>2, <2>1
  <2>3. DigitOf(n) \in Numerals
    BY <2>1, DigitsDiffer DEF DigitOf
  <2>4. Decimal[n] = Append(Decimal[n \div 10], DigitOf(n))
    BY <1>2, <1>4, LargeDecimal
  <2>5. \A e \in Seq(Numerals), g \in Numerals :
           Append(e, g) \in Seq(Numerals) /\ Append(e, g) # <<>>
    BY AppendProperties
  <2> HIDE DEF C
  <2>6. Decimal[n] \in Seq(Numerals) /\ Decimal[n] # <<>>
    BY <2>2, <2>3, <2>4, <2>5, Zenon
  <2> QED
    BY <1>2, <2>6
<1> QED
  BY <1>2, <1>3, <1>4

(* Different lengths are written differently.                              *)
LEMMA DecimalTellsApart ==
    ASSUME NEW m \in Nat, NEW n \in Nat, Decimal[m] = Decimal[n] PROVE m = n
<1> DEFINE C == {k \in Nat : \E l \in Nat : Decimal[k] = Decimal[l] /\ k # l}
<1> SUFFICES ASSUME C # {} PROVE FALSE
  OBVIOUS
<1>1. PICK k \in C : \A j \in C : k <= j
  <2>1. C \in SUBSET Nat
    OBVIOUS
  <2> HIDE DEF C
  <2> QED
    BY <2>1, LeastNumber
<1>2. PICK l \in Nat : Decimal[k] = Decimal[l] /\ k # l
  OBVIOUS
<1>3. k \in Nat
  OBVIOUS
<1>4. \A j \in Nat : j \div 10 \in Nat /\ j % 10 \in 0..9
  OBVIOUS
<1>5. ASSUME NEW j \in Nat, j >= 10
      PROVE  /\ Decimal[j] = Append(Decimal[j \div 10], DigitOf(j))
             /\ Decimal[j \div 10] \in Seq(Numerals) /\ Decimal[j \div 10] # <<>>
             /\ Len(Decimal[j]) = Len(Decimal[j \div 10]) + 1 /\ Len(Decimal[j \div 10]) > 0
  <2>1. Decimal[j] = Append(Decimal[j \div 10], DigitOf(j))
    BY <1>5, LargeDecimal
  <2>2. Decimal[j \div 10] \in Seq(Numerals) /\ Decimal[j \div 10] # <<>>
    BY <1>4, DecimalForm
  <2> QED
    BY <2>1, <2>2
<1>6. ASSUME NEW j \in Nat, j < 10
      PROVE  Decimal[j] = <<Digits[j + 1]>> /\ Len(Decimal[j]) = 1
  <2>1. Decimal[j] = <<Digits[j + 1]>>
    BY <1>6, SmallDecimal
  <2> QED
    BY <2>1
<1>7. CASE k < 10 /\ l < 10
  <2>1. Digits[k + 1] = Digits[l + 1]
    BY <1>2, <1>3, <1>6, <1>7
  <2> QED
    BY <1>2, <1>3, <1>7, <2>1, DigitsDiffer
<1>8. CASE k < 10 /\ l >= 10
  <2>1. Len(Decimal[k]) = 1
    BY <1>3, <1>6, <1>8
  <2>2. l \div 10 \in Nat /\ Decimal[l \div 10] \in Seq(Numerals)
    BY <1>4, <1>5, <1>8
  <2>3. Len(Decimal[l]) > 1
    BY <1>5, <1>8, <2>2
  <2> QED
    BY <1>2, <2>1, <2>3
<1>9. CASE k >= 10 /\ l < 10
  <2>1. Len(Decimal[l]) = 1
    BY <1>6, <1>9
  <2>2. k \div 10 \in Nat /\ Decimal[k \div 10] \in Seq(Numerals)
    BY <1>3, <1>4, <1>5, <1>9
  <2>3. Len(Decimal[k]) > 1
    BY <1>3, <1>5, <1>9, <2>2
  <2> QED
    BY <1>2, <2>1, <2>3
<1>10. CASE k >= 10 /\ l >= 10
  <2> DEFINE d == Decimal[k \div 10]
             e == Decimal[l \div 10]
  <2>1. d \in Seq(Numerals) /\ e \in Seq(Numerals)
    BY <1>3, <1>5, <1>10
  <2>2. Append(d, DigitOf(k)) = Append(e, DigitOf(l))
    BY <1>2, <1>3, <1>5, <1>10
  <2>3. d = e /\ DigitOf(k) = DigitOf(l)
    <3> HIDE DEF d, e
    <3>1. DigitOf(k) \in Numerals /\ DigitOf(l) \in Numerals
      BY <1>3, <1>4, DigitsDiffer DEF DigitOf
    <3> QED
      BY <2>1, <2>2, <3>1, AppendInjective
  <2>4. k \div 10 \in Nat /\ l \div 10 \in Nat /\ k \div 10 < k
    BY <1>3, <1>10
  <2>5. k \div 10 = l \div 10
    BY <1>1, <2>3, <2>4
  <2>6. k % 10 = l % 10
    BY <1>3, <1>4, <2>3, DigitsDiffer DEF DigitOf
  <2> QED
    BY <1>2, <1>3, <2>5, <2>6
<1> QED
  BY <1>3, <1>7, <1>8, <1>9, <1>10

-----------------------------------------------------------------------------
(* encode_fields, a field at a time.                                       *)

Characters == DOMAIN Chars \cup Numerals \cup {":"}
FieldLists == Seq(Seq(DOMAIN Chars)) \ {<<>>}

Piece(x) == Decimal[CharsOf(x)] \o <<":">> \o x
Pieces(fields) == [i \in DOMAIN fields |-> Piece(fields[i])]

(* Where what is between prefix and colon and after it are.                *)
LEMMA PieceForm ==
    ASSUME PrunerAssumption, NEW x \in Seq(DOMAIN Chars)
    PROVE  LET d == Decimal[CharsOf(x)] IN
           /\ d \in Seq(Numerals) /\ Len(d) \in Nat /\ Len(x) \in Nat
           /\ Piece(x) \in Seq(Characters)
           /\ Len(Piece(x)) = Len(d) + 1 + Len(x)
           /\ \A i \in 1..Len(d) : Piece(x)[i] = d[i]
           /\ Piece(x)[Len(d) + 1] = ":"
           /\ \A i \in 1..Len(x) : Piece(x)[Len(d) + 1 + i] = x[i]
<1> DEFINE d == Decimal[CharsOf(x)]
           c == <<":">>
<1>1. d \in Seq(Numerals)
  BY CharsAreNatural, DecimalForm
<1>2. d \in Seq(Characters) /\ c \in Seq(Characters) /\ x \in Seq(Characters)
      /\ Len(c) = 1 /\ c[1] = ":"
  <2>1. Numerals \subseteq Characters /\ DOMAIN Chars \subseteq Characters /\ ":" \in Characters
    BY DEF Characters
  <2> HIDE DEF d
  <2> QED
    BY <1>1, <2>1
<1> HIDE DEF d, c
<1>3. /\ d \o c \in Seq(Characters) /\ Len(d \o c) = Len(d) + 1
      /\ \A i \in 1..Len(d) : (d \o c)[i] = d[i]
      /\ (d \o c)[Len(d) + 1] = ":"
  <2>0. d \in Seq(Characters) /\ c \in Seq(Characters)
    BY <1>2
  <2>1. /\ d \o c \in Seq(Characters) /\ Len(d \o c) = Len(d) + Len(c)
        /\ \A i \in 1..Len(d) : (d \o c)[i] = d[i]
        /\ \A i \in 1..Len(c) : (d \o c)[Len(d) + i] = c[i]
    BY <2>0, JoinedSeqs
  <2> QED
    BY <1>2, <2>1
<1> DEFINE e == d \o c
<1>4. Piece(x) = e \o x
  BY DEF Piece, d, c
<1> HIDE DEF e
<1>9. /\ e \o x \in Seq(Characters) /\ Len(e \o x) = Len(e) + Len(x)
      /\ \A i \in 1..Len(e) : (e \o x)[i] = e[i]
      /\ \A i \in 1..Len(x) : (e \o x)[Len(e) + i] = x[i]
  <2>1. e \in Seq(Characters)
    BY <1>3 DEF e
  <2> QED
    BY <1>2, <2>1, JoinedSeqs
<1>10. Len(e) = Len(d) + 1 /\ e[Len(d) + 1] = ":" /\ \A i \in 1..Len(d) : e[i] = d[i]
  BY <1>3 DEF e
<1>5. Len(d) \in Nat /\ Len(x) \in Nat
  BY <1>2
<1>6. \A i \in 1..Len(d) : Piece(x)[i] = d[i]
  BY <1>4, <1>5, <1>9, <1>10
<1>7. Piece(x)[Len(d) + 1] = ":"
  BY <1>4, <1>5, <1>9, <1>10
<1>8. \A i \in 1..Len(x) : Piece(x)[Len(d) + 1 + i] = x[i]
  BY <1>4, <1>9, <1>10
<1>11. Piece(x) \in Seq(Characters) /\ Len(Piece(x)) = Len(d) + 1 + Len(x)
  BY <1>4, <1>9, <1>10
<1> QED
  BY <1>1, <1>5, <1>6, <1>7, <1>8, <1>11 DEF d

(* A text has more characters than any other it begins with.               *)
LEMMA LongerHasMore ==
    ASSUME PrunerAssumption, NEW x \in Seq(DOMAIN Chars), NEW y \in Seq(DOMAIN Chars),
           Len(x) < Len(y), \A i \in 1..Len(x) : x[i] = y[i]
    PROVE  CharsOf(x) < CharsOf(y)
<1> DEFINE f == [i \in DOMAIN x |-> Chars[x[i]]]
           g == [i \in DOMAIN y |-> Chars[y[i]]]
           X == 1..Len(x)
           Y == 1..Len(y)
           k == Len(x) + 1
<1>1. Len(x) \in Nat /\ Len(y) \in Nat /\ DOMAIN x = X /\ DOMAIN y = Y
  OBVIOUS
<1>2. CharsOf(x) = Total(f, X) /\ CharsOf(y) = Total(g, Y)
  <2>1. DOMAIN f = X /\ DOMAIN g = Y
    BY <1>1
  <2>2. CharsOf(x) = SumFunction(f) /\ CharsOf(y) = SumFunction(g)
    BY DEF CharsOf
  <2> HIDE DEF f, g
  <2> QED
    BY <2>1, <2>2, SumsAreTotals
<1>3. /\ \A i \in X : f[i] = g[i]
      /\ \A i \in Y : g[i] \in Nat \ {0}
  BY <1>1 DEF PrunerAssumption
<1>4. IsFiniteSet(X) /\ IsFiniteSet(Y) /\ IsFiniteSet(Y \ {k})
      /\ k \in Y /\ X \in SUBSET (Y \ {k}) /\ X \in SUBSET Y
  <2>1. IsFiniteSet(X) /\ IsFiniteSet(Y)
    BY <1>1, FS_Interval
  <2>2. k \in Y /\ X \in SUBSET (Y \ {k}) /\ X \in SUBSET Y
    BY <1>1
  <2>3. IsFiniteSet(Y \ {k})
    BY <2>1, FS_Subset
  <2> QED
    BY <2>1, <2>2, <2>3
<1> HIDE DEF f, g, X, Y, k
<1>5. Total(f, X) = Total(g, X)
  BY <1>3, <1>4, TotalOfSame
<1>6. Total(g, Y) = g[k] + Total(g, Y \ {k})
  BY <1>3, <1>4, TotalTakesOut
<1>7. Total(g, X) <= Total(g, Y \ {k})
  BY <1>3, <1>4, TotalGrows
<1>8. Total(g, X) \in Nat /\ Total(g, Y \ {k}) \in Nat
  BY <1>3, <1>4, TotalNatural
<1> QED
  BY <1>2, <1>3, <1>4, <1>5, <1>6, <1>7, <1>8

FoundAt(x, e, p) == \A i \in 1..Len(Piece(x)) : Piece(x)[i] = e[p + i]

(* What stands in a text after the place where a field was found.          *)
LEMMA FoundForm ==
    ASSUME PrunerAssumption, NEW x \in Seq(DOMAIN Chars), NEW e, NEW p \in Nat,
           FoundAt(x, e, p)
    PROVE  LET d == Decimal[CharsOf(x)] IN
           /\ \A i \in 1..Len(d) : e[p + i] = d[i]
           /\ e[p + (Len(d) + 1)] = ":"
           /\ \A i \in 1..Len(x) : e[p + (Len(d) + 1 + i)] = x[i]
<1> DEFINE d == Decimal[CharsOf(x)]
           z == Piece(x)
<1>1. /\ Len(d) \in Nat /\ Len(x) \in Nat /\ Len(z) = Len(d) + 1 + Len(x)
      /\ \A i \in 1..Len(d) : z[i] = d[i]
      /\ z[Len(d) + 1] = ":"
      /\ \A i \in 1..Len(x) : z[Len(d) + 1 + i] = x[i]
  BY PieceForm
<1>2. \A i \in 1..Len(z) : z[i] = e[p + i]
  BY DEF FoundAt
<1> HIDE DEF d, z
<1>3. ASSUME NEW i \in 1..Len(d) PROVE e[p + i] = d[i]
  <2>1. i \in 1..Len(z)
    BY <1>1
  <2> QED
    BY <1>1, <1>2, <2>1
<1>4. e[p + (Len(d) + 1)] = ":"
  <2>1. Len(d) + 1 \in 1..Len(z)
    BY <1>1
  <2> QED
    BY <1>1, <1>2, <2>1
<1>5. ASSUME NEW i \in 1..Len(x) PROVE e[p + (Len(d) + 1 + i)] = x[i]
  <2>1. Len(d) + 1 + i \in 1..Len(z)
    BY <1>1
  <2> QED
    BY <1>1, <1>2, <2>1
<1> QED
  BY <1>3, <1>4, <1>5 DEF d

(* Of two fields that begin at one place of a text, neither can be taken   *)
(* for the other: the colons are in one place, so the lengths are the      *)
(* same, and with them the fields.                                         *)
LEMMA PieceTellsApart ==
    ASSUME PrunerAssumption, NEW x \in Seq(DOMAIN Chars), NEW y \in Seq(DOMAIN Chars),
           NEW e, NEW p \in Nat, FoundAt(x, e, p), FoundAt(y, e, p)
    PROVE  x = y
<1> DEFINE a == Decimal[CharsOf(x)]
           b == Decimal[CharsOf(y)]
<1>1. /\ a \in Seq(Numerals) /\ Len(a) \in Nat /\ Len(x) \in Nat
      /\ Len(Piece(x)) = Len(a) + 1 + Len(x)
      /\ \A i \in 1..Len(a) : Piece(x)[i] = a[i]
      /\ Piece(x)[Len(a) + 1] = ":"
      /\ \A i \in 1..Len(x) : Piece(x)[Len(a) + 1 + i] = x[i]
  BY PieceForm
<1>2. /\ b \in Seq(Numerals) /\ Len(b) \in Nat /\ Len(y) \in Nat
      /\ Len(Piece(y)) = Len(b) + 1 + Len(y)
      /\ \A i \in 1..Len(b) : Piece(y)[i] = b[i]
      /\ Piece(y)[Len(b) + 1] = ":"
      /\ \A i \in 1..Len(y) : Piece(y)[Len(b) + 1 + i] = y[i]
  BY PieceForm
<1>3. /\ \A i \in 1..Len(a) : e[p + i] = a[i]
      /\ e[p + (Len(a) + 1)] = ":"
      /\ \A i \in 1..Len(x) : e[p + (Len(a) + 1 + i)] = x[i]
  BY FoundForm
<1>4. /\ \A i \in 1..Len(b) : e[p + i] = b[i]
      /\ e[p + (Len(b) + 1)] = ":"
      /\ \A i \in 1..Len(y) : e[p + (Len(b) + 1 + i)] = y[i]
  BY FoundForm
<1> HIDE DEF a, b
<1>5. \A i \in 1..Len(a) : a[i] # ":"
  BY <1>1, DigitsDiffer
<1>6. \A i \in 1..Len(b) : b[i] # ":"
  BY <1>2, DigitsDiffer
<1>7. Len(a) = Len(b)
  <2>1. ~(Len(a) < Len(b))
    <3> SUFFICES ASSUME Len(a) < Len(b) PROVE FALSE
      OBVIOUS
    <3>1. Len(a) + 1 \in 1..Len(b)
      BY <1>1, <1>2
    <3> QED
      BY <1>3, <1>4, <1>6, <3>1
  <2>2. ~(Len(b) < Len(a))
    <3> SUFFICES ASSUME Len(b) < Len(a) PROVE FALSE
      OBVIOUS
    <3>1. Len(b) + 1 \in 1..Len(a)
      BY <1>1, <1>2
    <3> QED
      BY <1>3, <1>4, <1>5, <3>1
  <2> QED
    BY <1>1, <1>2, <2>1, <2>2
<1>8. a = b
  <2>1. \A i \in 1..Len(a) : a[i] = b[i]
    BY <1>3, <1>4, <1>7
  <2> QED
    BY <1>1, <1>2, <1>7, <2>1, SeqEqual
<1>9. CharsOf(x) \in Nat /\ CharsOf(y) \in Nat
  BY CharsAreNatural
<1>10. CharsOf(x) = CharsOf(y)
  BY <1>8, <1>9, DecimalTellsApart DEF a, b
<1>11. \A i \in Nat : i \in 1..Len(x) /\ i \in 1..Len(y) => x[i] = y[i]
  BY <1>3, <1>4, <1>7
<1>12. ~(Len(x) < Len(y))
  <2> SUFFICES ASSUME Len(x) < Len(y) PROVE FALSE
    OBVIOUS
  <2>1. \A i \in 1..Len(x) : x[i] = y[i]
    BY <1>1, <1>2, <1>11
  <2>2. CharsOf(x) < CharsOf(y)
    BY <2>1, LongerHasMore
  <2> QED
    BY <1>9, <1>10, <2>2
<1>13. ~(Len(y) < Len(x))
  <2> SUFFICES ASSUME Len(y) < Len(x) PROVE FALSE
    OBVIOUS
  <2>1. \A i \in 1..Len(y) : y[i] = x[i]
    BY <1>1, <1>2, <1>11
  <2>2. CharsOf(y) < CharsOf(x)
    BY <2>1, LongerHasMore
  <2> QED
    BY <1>9, <1>10, <2>2
<1>14. Len(x) = Len(y)
  BY <1>1, <1>2, <1>12, <1>13
<1>15. \A i \in 1..Len(x) : x[i] = y[i]
  BY <1>1, <1>11, <1>14
<1> QED
  BY <1>14, <1>15, SeqEqual

LEMMA EncodedInStages ==
    ASSUME NEW F \in FieldLists
    PROVE  \E g : Built(g, Pieces(F), Len(F)) /\ EncodeFields(F) = g[Len(F)]
<1> DEFINE w == Pieces(F)
           g == CHOOSE h : Built(h, w, Len(F))
<1>1. F \in Seq(Seq(DOMAIN Chars)) /\ F # <<>>
  BY DEF FieldLists
<1>2. Len(w) = Len(F) /\ Len(F) \in Nat /\ Len(F) # 0
  BY <1>1 DEF Pieces
<1>3. Built(g, w, Len(F))
  <2> HIDE DEF w
  <2> QED
    BY <1>2, BuiltExists
<1>4. EncodeFields(F) = FlattenSeq(w)
  BY DEF EncodeFields, Pieces, Piece
<1>5. FlattenSeq(w) = g[Len(F)]
  <2>1. g = CHOOSE h : h = [i \in 1..Len(w) |-> IF i = 1 THEN w[i] ELSE h[i - 1] \o w[i]]
    BY <1>2 DEF Built
  <2> HIDE DEF w, g
  <2> QED
    BY <1>2, <2>1 DEF FlattenSeq
<1> QED
  BY <1>3, <1>4, <1>5

(* How much there is before the k-th field is put there.                   *)
Before(g, k) == IF k = 1 THEN 0 ELSE Len(g[k - 1])

LEMMA StageForm ==
    ASSUME PrunerAssumption, NEW F \in FieldLists, NEW g, Built(g, Pieces(F), Len(F))
    PROVE  \A k \in 1..Len(F) :
              /\ g[k] \in Seq(Characters)
              /\ Before(g, k) \in Nat
              /\ Len(g[k]) = Before(g, k) + Len(Piece(F[k]))
              /\ \A i \in 1..Before(g, k) : g[k][i] = g[k - 1][i]
              /\ \A i \in 1..Len(Piece(F[k])) : Piece(F[k])[i] = g[k][Before(g, k) + i]
<1> DEFINE Good(k) == /\ g[k] \in Seq(Characters)
                      /\ Before(g, k) \in Nat
                      /\ Len(g[k]) = Before(g, k) + Len(Piece(F[k]))
                      /\ \A i \in 1..Before(g, k) : g[k][i] = g[k - 1][i]
                      /\ \A i \in 1..Len(Piece(F[k])) : Piece(F[k])[i] = g[k][Before(g, k) + i]
           C == {k \in Nat : k \in 1..Len(F) /\ ~Good(k)}
<1> SUFFICES ASSUME C # {} PROVE FALSE
  <2>1. \A k \in 1..Len(F) : k \in Nat
    OBVIOUS
  <2> HIDE DEF Good
  <2>2. \A k \in 1..Len(F) : Good(k)
    BY <2>1
  <2> QED
    BY <2>2 DEF Good
<1>1. PICK k \in C : \A m \in C : k <= m
  <2>1. C \in SUBSET Nat
    OBVIOUS
  <2> HIDE DEF C
  <2> QED
    BY <2>1, LeastNumber
<1>2. k \in Nat /\ k \in 1..Len(F) /\ ~Good(k)
  <2> HIDE DEF Good
  <2> QED
    OBVIOUS
<1>3. F \in Seq(Seq(DOMAIN Chars)) /\ Len(F) \in Nat
  BY DEF FieldLists
<1>4. F[k] \in Seq(DOMAIN Chars)
  BY <1>2, <1>3
<1> DEFINE z == Piece(F[k])
<1>5. z \in Seq(Characters)
  BY <1>4, PieceForm
<1>6. Pieces(F)[k] = z
  BY <1>2, <1>3 DEF Pieces
<1>7. g[k] = IF k = 1 THEN z ELSE g[k - 1] \o z
  BY <1>2, <1>6 DEF Built
<1>8. CASE k = 1
  <2>1. g[k] = z /\ Before(g, k) = 0
    BY <1>7, <1>8 DEF Before
  <2>2. Good(k)
    <3> HIDE DEF z
    <3>1. /\ g[k] \in Seq(Characters) /\ Before(g, k) \in Nat /\ Len(g[k]) = Before(g, k) + Len(z)
          /\ \A i \in 1..Before(g, k) : g[k][i] = g[k - 1][i]
          /\ \A i \in 1..Len(z) : z[i] = g[k][Before(g, k) + i]
      BY <1>5, <2>1
    <3> QED
      BY <3>1 DEF z
  <2> HIDE DEF Good
  <2> QED
    BY <1>2, <2>2
<1>9. CASE k # 1
  <2> DEFINE y == g[k - 1]
  <2>1. k - 1 \in Nat /\ k - 1 \in 1..Len(F) /\ ~(k <= k - 1)
    BY <1>2, <1>3, <1>9
  <2>2. y \in Seq(Characters)
    <3>1. Good(k - 1)
      <4> HIDE DEF Good
      <4> QED
        BY <1>1, <2>1
    <3> QED
      BY <3>1
  <2>3. g[k] = y \o z /\ Before(g, k) = Len(y)
    BY <1>7, <1>9 DEF Before
  <2>4. Good(k)
    <3> HIDE DEF z
    <3>1. /\ y \o z \in Seq(Characters) /\ Len(y \o z) = Len(y) + Len(z) /\ Len(y) \in Nat
          /\ \A i \in 1..Len(y) : (y \o z)[i] = y[i]
          /\ \A i \in 1..Len(z) : (y \o z)[Len(y) + i] = z[i]
      <4> HIDE DEF y
      <4> QED
        BY <1>5, <2>2, JoinedSeqs
    <3>2. /\ g[k] \in Seq(Characters) /\ Before(g, k) \in Nat /\ Len(g[k]) = Before(g, k) + Len(z)
          /\ \A i \in 1..Before(g, k) : g[k][i] = y[i]
          /\ \A i \in 1..Len(z) : z[i] = g[k][Before(g, k) + i]
      <4> HIDE DEF y
      <4> QED
        BY <2>3, <3>1
    <3> QED
      BY <3>2 DEF z
  <2> HIDE DEF Good
  <2> QED
    BY <1>2, <2>4
<1> QED
  BY <1>8, <1>9

(* What is put together first stays in its place.                          *)
LEMMA StagesArePrefixes ==
    ASSUME PrunerAssumption, NEW F \in FieldLists, NEW g, Built(g, Pieces(F), Len(F)),
           NEW j \in 1..Len(F)
    PROVE  \A k \in 1..Len(F) : j <= k =>
              /\ Len(g[j]) <= Len(g[k])
              /\ \A i \in 1..Len(g[j]) : g[j][i] = g[k][i]
<1> DEFINE Good(k) == /\ Len(g[j]) <= Len(g[k])
                      /\ \A i \in 1..Len(g[j]) : g[j][i] = g[k][i]
           C == {k \in Nat : k \in 1..Len(F) /\ j <= k /\ ~Good(k)}
<1> SUFFICES ASSUME C # {} PROVE FALSE
  <2>1. \A k \in 1..Len(F) : k \in Nat
    OBVIOUS
  <2> HIDE DEF Good
  <2>2. \A k \in 1..Len(F) : j <= k => Good(k)
    BY <2>1
  <2> QED
    BY <2>2 DEF Good
<1>1. PICK k \in C : \A m \in C : k <= m
  <2>1. C \in SUBSET Nat
    OBVIOUS
  <2> HIDE DEF C
  <2> QED
    BY <2>1, LeastNumber
<1>2. k \in Nat /\ k \in 1..Len(F) /\ j <= k /\ ~Good(k)
  <2> HIDE DEF Good
  <2> QED
    OBVIOUS
<1>3. Len(F) \in Nat /\ j \in Nat
  BY DEF FieldLists
<1>4. \A m \in 1..Len(F) : g[m] \in Seq(Characters) /\ Len(g[m]) \in Nat
  <2>1. \A m \in 1..Len(F) : g[m] \in Seq(Characters)
    BY StageForm
  <2> QED
    BY <2>1
<1>5. k # j
  <2> SUFFICES ASSUME k = j PROVE FALSE
    OBVIOUS
  <2>1. Good(k)
    BY <1>4
  <2> HIDE DEF Good
  <2> QED
    BY <1>2, <2>1
<1>6. k - 1 \in Nat /\ k - 1 \in 1..Len(F) /\ j <= k - 1 /\ ~(k <= k - 1) /\ k # 1
  BY <1>2, <1>3, <1>5
<1>7. Good(k - 1)
  <2> HIDE DEF Good
  <2> QED
    BY <1>1, <1>6
<1>8. /\ Len(g[k]) = Len(g[k - 1]) + Len(Piece(F[k]))
      /\ \A i \in 1..Len(g[k - 1]) : g[k][i] = g[k - 1][i]
  <2>1. Before(g, k) = Len(g[k - 1])
    BY <1>6 DEF Before
  <2>2. /\ Len(g[k]) = Before(g, k) + Len(Piece(F[k]))
        /\ \A i \in 1..Before(g, k) : g[k][i] = g[k - 1][i]
    BY <1>2, StageForm
  <2> HIDE DEF C, Good
  <2> QED
    BY <2>1, <2>2
<1>9. Len(Piece(F[k])) \in Nat
  <2>1. F[k] \in Seq(DOMAIN Chars)
    BY <1>2 DEF FieldLists
  <2>2. Piece(F[k]) \in Seq(Characters)
    BY <2>1, PieceForm
  <2> QED
    BY <2>2
<1>10. Len(g[j]) \in Nat /\ Len(g[k]) \in Nat /\ Len(g[k - 1]) \in Nat
  BY <1>2, <1>4, <1>6
<1>11. Good(k)
  <2>1. Len(g[j]) <= Len(g[k - 1]) /\ \A i \in 1..Len(g[j]) : g[j][i] = g[k - 1][i]
    BY <1>7
  <2> DEFINE l == Len(g[j])
             m == Len(g[k - 1])
             n == Len(g[k])
  <2>2. l \in Nat /\ m \in Nat /\ n \in Nat /\ l <= m /\ m <= n
    <3>1. Len(g[k - 1]) <= Len(g[k])
      <4> DEFINE o == Len(Piece(F[k]))
      <4>1. n = m + o /\ o \in Nat /\ m \in Nat
        BY <1>8, <1>9, <1>10
      <4> HIDE DEF m, n, o
      <4>2. m <= n
        BY <4>1
      <4> QED
        BY <4>2 DEF m, n
    <3> QED
      BY <1>10, <2>1, <3>1
  <2>3. \A i \in 1..m : g[k][i] = g[k - 1][i]
    BY <1>8
  <2>4. \A i \in 1..l : g[j][i] = g[k - 1][i]
    BY <2>1
  <2>5. l <= n /\ \A i \in 1..l : g[j][i] = g[k][i]
    <3> HIDE DEF l, m, n, C, Good
    <3> QED
      BY <2>2, <2>3, <2>4
  <2> QED
    BY <2>5
<1> HIDE DEF Good
<1> QED
  BY <1>2, <1>11

LEMMA SameEncoding ==
    ASSUME PrunerAssumption, NEW F \in FieldLists, NEW G \in FieldLists,
           EncodeFields(F) = EncodeFields(G), Len(F) <= Len(G)
    PROVE  F = G
<1> DEFINE e == EncodeFields(F)
           M == Len(F)
           N == Len(G)
<1>1. PICK g : Built(g, Pieces(F), Len(F)) /\ e = g[M]
  BY EncodedInStages
<1>2. PICK h : Built(h, Pieces(G), Len(G)) /\ e = h[N]
  BY EncodedInStages
<1> HIDE DEF e
<1>3. /\ M \in Nat /\ N \in Nat /\ 1 <= M /\ M <= N
      /\ \A k \in 1..M : F[k] \in Seq(DOMAIN Chars)
      /\ \A k \in 1..N : G[k] \in Seq(DOMAIN Chars)
  BY DEF FieldLists
<1>4. \A k \in 1..M : /\ g[k] \in Seq(Characters) /\ Before(g, k) \in Nat
                      /\ Len(g[k]) = Before(g, k) + Len(Piece(F[k]))
                      /\ \A i \in 1..Len(Piece(F[k])) : Piece(F[k])[i] = g[k][Before(g, k) + i]
  BY <1>1, StageForm
<1>5. \A k \in 1..N : /\ h[k] \in Seq(Characters) /\ Before(h, k) \in Nat
                      /\ Len(h[k]) = Before(h, k) + Len(Piece(G[k]))
                      /\ \A i \in 1..Len(Piece(G[k])) : Piece(G[k])[i] = h[k][Before(h, k) + i]
  BY <1>2, StageForm
<1>6. ASSUME NEW k \in 1..M
      PROVE  Len(g[k]) <= Len(e) /\ \A i \in 1..Len(g[k]) : g[k][i] = e[i]
  <2>1. M \in 1..Len(F) /\ k <= M
    BY <1>3
  <2> QED
    BY <1>1, <2>1, StagesArePrefixes
<1>7. ASSUME NEW k \in 1..N
      PROVE  Len(h[k]) <= Len(e) /\ \A i \in 1..Len(h[k]) : h[k][i] = e[i]
  <2>1. N \in 1..Len(G) /\ k <= N
    BY <1>3
  <2> QED
    BY <1>2, <2>1, StagesArePrefixes
<1>8. \A k \in 1..M : Len(Piece(F[k])) \in Nat /\ Len(g[k]) \in Nat
  <2>1. \A k \in 1..M : Piece(F[k]) \in Seq(Characters)
    BY <1>3, PieceForm
  <2> QED
    BY <1>4, <2>1
<1>9. \A k \in 1..N : Len(Piece(G[k])) \in Nat /\ Len(h[k]) \in Nat /\ Len(Piece(G[k])) > 0
  <2>1. ASSUME NEW k \in 1..N PROVE Len(Piece(G[k])) \in Nat /\ Len(Piece(G[k])) > 0
    <3> DEFINE x == G[k]
               d == Decimal[CharsOf(x)]
    <3>1. x \in Seq(DOMAIN Chars)
      BY <1>3
    <3>2. Len(d) \in Nat /\ Len(x) \in Nat /\ Len(Piece(x)) = Len(d) + 1 + Len(x)
      <4> HIDE DEF x
      <4> QED
        BY <3>1, PieceForm
    <3> HIDE DEF x, d
    <3>3. Len(Piece(x)) \in Nat /\ Len(Piece(x)) > 0
      BY <3>2
    <3> QED
      BY <3>3 DEF x
  <2> QED
    BY <1>5, <2>1
<1>10. \A k \in 1..M : g[k] = h[k] /\ F[k] = G[k]
  <2> DEFINE Good(k) == g[k] = h[k] /\ F[k] = G[k]
             C == {k \in Nat : k \in 1..M /\ ~Good(k)}
  <2> SUFFICES ASSUME C # {} PROVE FALSE
    <3>1. \A k \in 1..M : k \in Nat
      OBVIOUS
    <3> HIDE DEF Good
    <3>2. \A k \in 1..M : Good(k)
      BY <3>1
    <3> QED
      BY <3>2 DEF Good
  <2>1. PICK k \in C : \A m \in C : k <= m
    <3>1. C \in SUBSET Nat
      OBVIOUS
    <3> HIDE DEF C
    <3> QED
      BY <3>1, LeastNumber
  <2>2. k \in Nat /\ k \in 1..M /\ k \in 1..N /\ ~Good(k)
    <3> HIDE DEF Good
    <3> QED
      BY <1>3
  <2>3. Before(g, k) = Before(h, k) /\ (k # 1 => g[k - 1] = h[k - 1])
    <3>1. CASE k = 1
      BY <3>1 DEF Before
    <3>2. CASE k # 1
      <4>1. k - 1 \in Nat /\ k - 1 \in 1..M /\ ~(k <= k - 1)
        BY <1>3, <2>2, <3>2
      <4>2. Good(k - 1)
        <5> HIDE DEF Good
        <5> QED
          BY <2>1, <4>1
      <4> QED
        BY <3>2, <4>2 DEF Before
    <3> QED
      BY <3>1, <3>2
  <2> DEFINE p == Before(g, k)
             x == F[k]
             y == G[k]
  <2>4. p \in Nat /\ x \in Seq(DOMAIN Chars) /\ y \in Seq(DOMAIN Chars)
    BY <1>3, <1>4, <2>2
  <2>5. FoundAt(x, e, p)
    <3>1. Len(g[k]) = p + Len(Piece(x)) /\ p \in Nat /\ Len(Piece(x)) \in Nat
      BY <1>4, <1>8, <2>2
    <3>2. \A i \in 1..Len(Piece(x)) : Piece(x)[i] = g[k][p + i]
      BY <1>4, <2>2
    <3>3. \A i \in 1..Len(g[k]) : g[k][i] = e[i]
      BY <1>6, <2>2
    <3> HIDE DEF p, x, C, Good
    <3>4. ASSUME NEW i \in 1..Len(Piece(x)) PROVE Piece(x)[i] = e[p + i]
      <4>1. p + i \in 1..Len(g[k])
        BY <3>1
      <4> QED
        BY <3>2, <3>3, <4>1
    <3> QED
      BY <3>4 DEF FoundAt
  <2>6. FoundAt(y, e, p)
    <3>1. Len(h[k]) = p + Len(Piece(y)) /\ p \in Nat /\ Len(Piece(y)) \in Nat
      BY <1>5, <1>9, <2>2, <2>3
    <3>2. \A i \in 1..Len(Piece(y)) : Piece(y)[i] = h[k][p + i]
      BY <1>5, <2>2, <2>3
    <3>3. \A i \in 1..Len(h[k]) : h[k][i] = e[i]
      BY <1>7, <2>2
    <3> HIDE DEF p, y, C, Good
    <3>4. ASSUME NEW i \in 1..Len(Piece(y)) PROVE Piece(y)[i] = e[p + i]
      <4>1. p + i \in 1..Len(h[k])
        BY <3>1
      <4> QED
        BY <3>2, <3>3, <4>1
    <3> QED
      BY <3>4 DEF FoundAt
  <2>7. x = y
    <3> HIDE DEF p, x, y, C, Good
    <3> QED
      BY <2>4, <2>5, <2>6, PieceTellsApart
  <2>8. g[k] = h[k]
    <3>1. Pieces(F)[k] = Piece(F[k]) /\ Pieces(G)[k] = Piece(G[k])
      <4>1. k \in DOMAIN F /\ k \in DOMAIN G
        <5>1. DOMAIN F = 1..Len(F) /\ DOMAIN G = 1..Len(G)
          BY <1>3 DEF FieldLists
        <5> QED
          BY <1>3, <2>2, <5>1
      <4> QED
        BY <4>1 DEF Pieces
    <3>2. g[k] = IF k = 1 THEN Pieces(F)[k] ELSE g[k - 1] \o Pieces(F)[k]
      BY <1>1, <2>2 DEF Built
    <3>3. h[k] = IF k = 1 THEN Pieces(G)[k] ELSE h[k - 1] \o Pieces(G)[k]
      BY <1>2, <2>2 DEF Built
    <3> QED
      BY <2>3, <2>7, <3>1, <3>2, <3>3
  <2> QED
    BY <2>2, <2>7, <2>8
<1>11. M = N
  <2> SUFFICES ASSUME M < N PROVE FALSE
    BY <1>3
  <2>1. M \in 1..M /\ M \in 1..N /\ M + 1 \in 1..N /\ M + 1 # 1 /\ (M + 1) - 1 = M
    BY <1>3
  <2>2. g[M] = h[M]
    BY <1>10, <2>1
  <2>3. h[M] = e
    BY <1>1, <2>2
  <2>4. Before(h, M + 1) = Len(e)
    BY <2>1, <2>3 DEF Before
  <2>5. /\ Len(h[M + 1]) = Len(e) + Len(Piece(G[M + 1])) /\ Len(Piece(G[M + 1])) \in Nat
        /\ Len(Piece(G[M + 1])) > 0 /\ Len(e) \in Nat
    BY <1>5, <1>9, <2>1, <2>4
  <2>6. Len(h[M + 1]) <= Len(e)
    BY <1>7, <2>1
  <2> QED
    BY <2>5, <2>6
<1>12. \A k \in 1..Len(F) : F[k] = G[k]
  BY <1>10
<1> QED
  BY <1>11, <1>12, SeqEqual DEF FieldLists

(* encode_fields is injective: whatever characters the fields contain, of  *)
(* digits and colons too.                                                  *)
THEOREM EncodingIsInjective ==
    ASSUME PrunerAssumption, NEW F \in FieldLists, NEW G \in FieldLists,
           EncodeFields(F) = EncodeFields(G)
    PROVE  F = G
<1>1. Len(F) \in Nat /\ Len(G) \in Nat
  BY DEF FieldLists
<1>2. CASE Len(F) <= Len(G)
  BY <1>2, SameEncoding
<1>3. CASE Len(G) <= Len(F)
  BY <1>3, SameEncoding
<1> QED
  BY <1>1, <1>2, <1>3

(* So a fingerprint tells turns apart.                                     *)
LEMMA FingerprintsDiffer ==
    ASSUME PrunerAssumption, NEW t \in Turns, NEW u \in Turns, Fingerprint(t) = Fingerprint(u)
    PROVE  t = u
<1>1. Fields[t] \in FieldLists /\ Fields[u] \in FieldLists
  BY DEF PrunerAssumption, FieldLists
<1>2. Fields[t] = Fields[u]
  BY <1>1, EncodingIsInjective DEF Fingerprint
<1> QED
  BY <1>2 DEF PrunerAssumption

-----------------------------------------------------------------------------
(* What prune() answers, at every request.                                 *)

PrunedInv ==
    /\ turns \in Seq(Turns)
    /\ system \in SystemChars /\ budget \in Budgets
    /\ \/ kept = Prune(turns, system, budget)
       \/ /\ turns = <<>>
          /\ kept = {}

THEOREM PrunedInvHolds == ASSUME PrunerAssumption PROVE Spec => []PrunedInv
<1>1. Init => PrunedInv
  BY DEF Init, PrunedInv
<1>2. PrunedInv /\ [Next]_vars => PrunedInv'
  <2> SUFFICES ASSUME PrunedInv, [Next]_vars PROVE PrunedInv'
    OBVIOUS
  <2>1. ASSUME NEW t \in Turns, Request(t) PROVE PrunedInv'
    <3>1. turns' = Append(turns, t) /\ turns \in Seq(Turns)
      BY <2>1 DEF Request, PrunedInv
    <3>2. turns' \in Seq(Turns)
      BY <3>1
    <3>3. kept' = Prune(turns', system, budget) /\ system' = system /\ budget' = budget
      BY <2>1 DEF Request
    <3>4. kept' = Prune(turns', system', budget')
      BY <3>3
    <3>5. system' \in SystemChars /\ budget' \in Budgets
      BY <3>3 DEF PrunedInv
    <3> QED
      BY <3>2, <3>4, <3>5 DEF PrunedInv
  <2>2. CASE UNCHANGED vars
    BY <2>2 DEF vars, PrunedInv
  <2> QED
    BY <2>1, <2>2 DEF Next
<1> QED
  BY <1>1, <1>2, PTL DEF Spec

(* The kept turns of a conversation that had to be cut.                    *)
LEMMA CutByTheLoop ==
    ASSUME PrunerAssumption, PrunedInv,
           ~(Tokens(Size(turns, DOMAIN turns, system)) <= budget), turns # <<>>
    PROVE  \E w : /\ LoopMeans(turns, Deduped(turns), system, budget, DOMAIN turns, w)
                  /\ w.kept = kept
<1>1. budget \in Nat
  BY DEF PrunedInv, PrunerAssumption
<1>2. kept = Window(turns, Deduped(turns), system, budget)
  BY DEF PrunedInv, Prune
<1> QED
  BY <1>1, <1>2, LoopIsMeant DEF PrunedInv

LEMMA SizeIsTotal ==
    ASSUME NEW t, NEW S, NEW s
    PROVE  Size(t, S, s) = SystemSize(s) + Total(SizesOf(t), S)
BY SumsAreTotals DEF Size, SizesOf

LEMMA CountedIsTotal ==
    ASSUME NEW S PROVE Counted(S) = CountedOf(turns, system, S)
BY SumsAreTotals DEF Counted, CountedOf, TokensOf

LEMMA CutFits == PrunerAssumption /\ PrunedInv => KeptFitsExactly
<1> SUFFICES ASSUME PrunerAssumption, PrunedInv, kept # DOMAIN turns, Cardinality(kept) > 1
             PROVE  ExactTokens(Size(turns, kept, system)) <= budget
  BY DEF KeptFitsExactly
<1>1. turns # <<>> /\ ~(Tokens(Size(turns, DOMAIN turns, system)) <= budget)
  <2>1. kept # {}
    BY FS_EmptySet
  <2>2. kept = Prune(turns, system, budget)
    BY <2>1 DEF PrunedInv
  <2>3. ~(Tokens(Size(turns, DOMAIN turns, system)) <= budget)
    BY <2>2 DEF Prune
  <2>4. kept = Window(turns, Deduped(turns), system, budget)
    BY <2>2, <2>3 DEF Prune
  <2>5. turns \in Seq(Turns) /\ system \in SystemChars /\ budget \in Nat
    BY DEF PrunedInv, PrunerAssumption
  <2>6. kept \subseteq DOMAIN turns
    BY <2>4, <2>5, LoopIsMeant DEF LoopMeans
  <2>7. turns # <<>>
    BY <2>1, <2>6
  <2> QED
    BY <2>3, <2>7
<1>2. PICK w : /\ LoopMeans(turns, Deduped(turns), system, budget, DOMAIN turns, w)
               /\ w.kept = kept
  BY <1>1, CutByTheLoop
<1>3. /\ kept \in SUBSET (DOMAIN turns)
      /\ CountedOf(turns, system, kept) <= budget
  BY <1>2 DEF LoopMeans
<1> DEFINE a == SystemSize(system)
<1>4. a \in Nat /\ turns \in Seq(Turns) /\ budget \in Nat
  BY SystemSizeIsNatural DEF PrunedInv, PrunerAssumption
<1>5. ExactTokens(a + Total(SizesOf(turns), kept)) <= CountedOf(turns, system, kept)
  BY <1>3, <1>4, RoundingIsSafe DEF CountedOf
<1>6. CountedOf(turns, system, kept) \in Nat
  BY <1>3, CountedIsNatural DEF PrunedInv
<1>7. Size(turns, kept, system) = a + Total(SizesOf(turns), kept)
  BY SizeIsTotal
<1>8. ExactTokens(Size(turns, kept, system)) \in Nat
  <2>1. IsFiniteSet(kept) /\ \A i \in kept : SizesOf(turns)[i] \in Nat
    BY <1>3, <1>4, TablesOfConversation, FS_Subset
  <2>2. Total(SizesOf(turns), kept) \in Nat
    BY <2>1, TotalNatural
  <2>3. a + Total(SizesOf(turns), kept) \in Nat
    BY <1>4, <2>2
  <2> QED
    BY <1>7, <2>3, RoundedUp
<1> QED
  BY <1>3, <1>4, <1>5, <1>6, <1>7, <1>8

(* More than one turn is only kept if all of them, counted exactly and     *)
(* together with the system instruction, fit the budget.                   *)
THEOREM CutConversationsFit ==
    ASSUME PrunerAssumption PROVE Spec => []KeptFitsExactly
<1>1. PrunedInv => KeptFitsExactly
  BY CutFits
<1> QED
  BY <1>1, PrunedInvHolds, PTL

(* The other two rest on fingerprints telling turns apart.                 *)
LEMMA DedupKeepsNew ==
    ASSUME PrunerAssumption, PrunedInv PROVE Deduped(turns) = New
<1>1. \A i \in DOMAIN turns : turns[i] \in Turns
  BY DEF PrunedInv
<1>2. \A i, j \in DOMAIN turns :
         Fingerprint(turns[i]) = Fingerprint(turns[j]) <=> turns[i] = turns[j]
  BY <1>1, FingerprintsDiffer
<1> QED
  BY <1>2 DEF Deduped, New

(* Deduplication and loop together, without either: a conversation within  *)
(* its budget is returned as it is; of one over it, a turn is kept if and  *)
(* only if it repeats none before it and either nothing later is kept or   *)
(* it still fits after all that is.                                        *)
KeptIffStillFits ==
    \A i \in DOMAIN turns :
        i \in kept <=>
            \/ Tokens(Size(turns, DOMAIN turns, system)) <= budget
            \/ /\ i \in New
               /\ \/ Later(kept, i) = {}
                  \/ Counted(Later(kept, i)) + Tokens(TurnSize(turns[i])) <= budget

LEMMA LoopIsReference ==
    PrunerAssumption /\ PrunedInv => KeptIffStillFits
<1> SUFFICES ASSUME PrunerAssumption, PrunedInv, NEW i \in DOMAIN turns
             PROVE  i \in kept <=>
                       \/ Tokens(Size(turns, DOMAIN turns, system)) <= budget
                       \/ /\ i \in New
                          /\ \/ Later(kept, i) = {}
                             \/ Counted(Later(kept, i)) + Tokens(TurnSize(turns[i])) <= budget
  BY DEF KeptIffStillFits
<1>1. turns # <<>>
  OBVIOUS
<1>2. CASE Tokens(Size(turns, DOMAIN turns, system)) <= budget
  <2>1. kept = DOMAIN turns
    BY <1>1, <1>2 DEF PrunedInv, Prune
  <2> QED
    BY <1>2, <2>1
<1>3. CASE ~(Tokens(Size(turns, DOMAIN turns, system)) <= budget)
  <2>1. PICK w : /\ LoopMeans(turns, Deduped(turns), system, budget, DOMAIN turns, w)
                 /\ w.kept = kept
    BY <1>1, <1>3, CutByTheLoop
  <2>2. i \in kept <=> i \in New /\ StillFits(turns, system, budget, kept, i)
    BY <2>1, DedupKeepsNew DEF LoopMeans
  <2>3. Counted(Later(kept, i)) = CountedOf(turns, system, Later(kept, i))
    BY CountedIsTotal
  <2> QED
    BY <1>3, <2>2, <2>3 DEF StillFits
<1> QED
  BY <1>2, <1>3

(* What counts for some turns counts for more of them.                     *)
LEMMA CountedGrows ==
    ASSUME PrunerAssumption, PrunedInv, NEW M \in SUBSET (DOMAIN turns), NEW K \in SUBSET M
    PROVE  Counted(K) \in Nat /\ Counted(M) \in Nat /\ Counted(K) <= Counted(M)
<1>1. turns \in Seq(Turns) /\ system \in SystemChars
  BY DEF PrunedInv
<1> DEFINE f == TokensOf(turns)
<1>2. IsFiniteSet(M) /\ \A j \in M : f[j] \in Nat
  BY <1>1, TablesOfConversation, FS_Subset
<1>3. IsFiniteSet(K) /\ \A j \in K : f[j] \in Nat
  BY <1>2, FS_Subset
<1> HIDE DEF f
<1>4. Total(f, K) <= Total(f, M) /\ Total(f, K) \in Nat /\ Total(f, M) \in Nat
  BY <1>2, <1>3, TotalGrows, TotalNatural
<1>5. Tokens(SystemSize(system)) \in Nat
  BY <1>1, SystemSizeIsNatural, RoundedUp
<1>6. /\ CountedOf(turns, system, K) \in Nat /\ CountedOf(turns, system, M) \in Nat
      /\ CountedOf(turns, system, K) <= CountedOf(turns, system, M)
  BY <1>4, <1>5 DEF CountedOf, f
<1> QED
  BY <1>6, CountedIsTotal

(* What is kept after a turn is new and comes after it, so it counts for   *)
(* no more than all that is new from that turn on.                         *)
LEMMA RecentFits ==
    PrunerAssumption /\ PrunedInv /\ KeptIffStillFits => RecentThatFitKept
<1> SUFFICES ASSUME PrunerAssumption, PrunedInv, KeptIffStillFits, NEW i \in New,
                    \/ Counted({j \in New : j >= i}) <= budget
                    \/ {j \in New : j >= i} = {i}
             PROVE  i \in kept
  BY DEF RecentThatFitKept
<1> DEFINE L == Later(kept, i)
           from == {j \in New : j >= i}
<1>1. /\ turns \in Seq(Turns) /\ system \in SystemChars /\ budget \in Nat
      /\ i \in DOMAIN turns /\ New \in SUBSET (DOMAIN turns)
  BY DEF PrunedInv, PrunerAssumption, New
<1>2. CASE Tokens(Size(turns, DOMAIN turns, system)) <= budget
  BY <1>1, <1>2 DEF KeptIffStillFits
<1>3. CASE ~(Tokens(Size(turns, DOMAIN turns, system)) <= budget)
  <2>1. kept \in SUBSET New
    <3>1. turns # <<>>
      BY <1>1
    <3>2. kept \in SUBSET (DOMAIN turns)
      BY <1>3, <3>1, CutByTheLoop DEF LoopMeans
    <3> QED
      BY <1>3, <3>2 DEF KeptIffStillFits
  <2>2. /\ i \notin L /\ L \cup {i} \in SUBSET from
        /\ L \in SUBSET (DOMAIN turns) /\ from \in SUBSET (DOMAIN turns)
    <3>1. i \in Nat /\ \A j \in New : j \in Nat
      BY <1>1
    <3> QED
      BY <1>1, <2>1, <3>1 DEF Later
  <2>3. CASE from = {i}
    <3>1. L = {}
      BY <2>2, <2>3
    <3> QED
      BY <1>1, <3>1 DEF KeptIffStillFits
  <2>4. CASE Counted(from) <= budget
    <3>1. CountedOf(turns, system, L \cup {i})
             = CountedOf(turns, system, L) + Tokens(TurnSize(turns[i]))
      BY <1>1, <2>2, CountedOneMore
    <3>2. /\ Counted(L \cup {i}) <= Counted(from)
          /\ Counted(L \cup {i}) \in Nat /\ Counted(from) \in Nat
      BY <2>2, CountedGrows
    <3>3. Counted(L) + Tokens(TurnSize(turns[i])) = Counted(L \cup {i})
      BY <3>1, CountedIsTotal
    <3>4. Counted(L) + Tokens(TurnSize(turns[i])) <= budget
      BY <1>1, <2>4, <3>2, <3>3
    <3> QED
      BY <1>1, <3>4 DEF KeptIffStillFits
  <2> QED
    BY <2>3, <2>4
<1> QED
  BY <1>2, <1>3

(* The recent turns that fit are kept, of every conversation, for every    *)
(* budget and system instruction, ...                                      *)
THEOREM RecentTurnsKept ==
    ASSUME PrunerAssumption PROVE Spec => []RecentThatFitKept
<1>1. PrunedInv => RecentThatFitKept
  BY LoopIsReference, RecentFits
<1> QED
  BY <1>1, PrunedInvHolds, PTL

(* ... so if all that is new in a conversation fits, all of it is kept.    *)
THEOREM NothingNewDropped ==
    ASSUME PrunerAssumption PROVE Spec => []OnlyRepeatsDropped
<1>1. PrunedInv /\ RecentThatFitKept => OnlyRepeatsDropped
  <2> SUFFICES ASSUME PrunedInv, RecentThatFitKept, Counted(New) <= budget, NEW i \in New
               PROVE  i \in kept
    BY DEF OnlyRepeatsDropped
  <2>1. New \in SUBSET (DOMAIN turns) /\ {j \in New : j >= i} \in SUBSET New /\ budget \in Nat
    BY DEF New, PrunedInv, PrunerAssumption
  <2>2. /\ Counted({j \in New : j >= i}) <= Counted(New)
        /\ Counted({j \in New : j >= i}) \in Nat /\ Counted(New) \in Nat
    BY <2>1, CountedGrows
  <2>3. Counted({j \in New : j >= i}) <= budget
    BY <2>1, <2>2
  <2> QED
    BY <2>3 DEF RecentThatFitKept
<1> QED
  BY <1>1, PrunedInvHolds, RecentTurnsKept, PTL

=============================================================================
