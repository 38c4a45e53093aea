---------------------------- MODULE FoldTheorems ----------------------------
(***************************************************************************)
(* What MapThenSumSet and FlattenSeq compute.  The limiter's properties    *)
(* sum histories over the stamps of a window, and a proof about a step     *)
(* needs to know how one entry of the history moves the sum; an encoded    *)
(* turn and the text of an answer are sequences joined to one, and a step  *)
(* joins one more.  Both operators look up a recursive function, so first  *)
(* that function has to be shown to exist; the rest follows from its       *)
(* equation.  Each induction is by way of a minimal counterexample: among  *)
(* the finite subsets of a set, or among the numbers.                      *)
(***************************************************************************)
EXTENDS Integers, SequencesExt, FiniteSetTheorems, WellFoundedInduction, TLAPS

Total(f, S) == MapThenSumSet(LAMBDA x : f[x], S)

(* The element MapThenSumSet takes first, and the table it looks up.       *)
Pick(s) == CHOOSE x \in s : TRUE
Table(g, f, S) ==
    g = [s \in SUBSET S |-> IF s = {} THEN 0 ELSE f[Pick(s)] + g[s \ {Pick(s)}]]

LEMMA TotalLooksUp ==
    ASSUME NEW f, NEW S PROVE Total(f, S) = (CHOOSE g : Table(g, f, S))[S]
BY DEF Total, MapThenSumSet, MapThenFoldSet, Table, Pick

(* A set of finite subsets of S that is not empty has a smallest member.   *)
LEMMA SmallestSubset ==
    ASSUME NEW S, IsFiniteSet(S), NEW C, C \subseteq SUBSET S, C # {}
    PROVE  \E s \in C : \A u \in SUBSET s : u # s => u \notin C
<1>1. IsWellFoundedOn(StrictSubsetOrdering(S), SUBSET S)
  BY FS_StrictSubsetOrderingWellFounded, FS_FiniteSubsetsOfFinite
<1>2. PICK s \in C : \A u \in C : <<u, s>> \notin StrictSubsetOrdering(S)
  BY <1>1, WFMin
<1>3. ASSUME NEW u \in SUBSET s, u # s, u \in C PROVE FALSE
  <2>1. <<u, s>> \in (SUBSET S) \X (SUBSET S)
    BY <1>3
  <2>2. <<u, s>>[1] \subseteq <<u, s>>[2] /\ <<u, s>>[1] # <<u, s>>[2]
    BY <1>3
  <2>3. <<u, s>> \in StrictSubsetOrdering(S)
    BY <2>1, <2>2 DEF StrictSubsetOrdering
  <2> QED BY <1>2, <1>3, <2>3
<1> QED BY <1>3

LEMMA PickedOut ==
    ASSUME NEW s, s # {}
    PROVE  /\ Pick(s) \in s
           /\ s \ {Pick(s)} \in SUBSET s
           /\ s \ {Pick(s)} # s
BY DEF Pick

(* Two tables agree where both are defined.                                *)
LEMMA TablesAgree ==
    ASSUME NEW f, NEW S, NEW T, IsFiniteSet(S), NEW g, NEW h,
           Table(g, f, S), Table(h, f, T), NEW s \in SUBSET (S \cap T)
    PROVE  g[s] = h[s]
<1> DEFINE C == {u \in SUBSET S : u \in SUBSET T /\ g[u] # h[u]}
<1> SUFFICES ASSUME C # {} PROVE FALSE
  OBVIOUS
<1>1. PICK u \in C : \A v \in SUBSET u : v # u => v \notin C
  <2>1. C \subseteq SUBSET S
    OBVIOUS
  <2> HIDE DEF C
  <2> QED BY <2>1, SmallestSubset
<1>2. /\ u \in SUBSET S /\ u \in SUBSET T
      /\ g[u] = IF u = {} THEN 0 ELSE f[Pick(u)] + g[u \ {Pick(u)}]
      /\ h[u] = IF u = {} THEN 0 ELSE f[Pick(u)] + h[u \ {Pick(u)}]
  BY DEF Table
<1>3. u # {}
  BY <1>2
<1>4. /\ u \ {Pick(u)} \in SUBSET u /\ u \ {Pick(u)} # u
  BY <1>3, PickedOut
<1>5. g[u \ {Pick(u)}] = h[u \ {Pick(u)}]
  BY <1>1, <1>2, <1>4
<1> QED BY <1>2, <1>3, <1>5

(* The table exists: one for a set is made from those of its proper        *)
(* subsets.                                                                *)
LEMMA TableExists ==
    ASSUME NEW f, NEW S, IsFiniteSet(S) PROVE \E g : Table(g, f, S)
<1> DEFINE C == {T \in SUBSET S : ~ \E g : Table(g, f, T)}
<1> SUFFICES ASSUME C # {} PROVE FALSE
  OBVIOUS
<1>1. PICK T \in C : \A u \in SUBSET T : u # T => u \notin C
  <2>1. C \subseteq SUBSET S
    OBVIOUS
  <2> HIDE DEF C
  <2> QED BY <2>1, SmallestSubset
<1>2. \A u \in SUBSET T : u # T => \E g : Table(g, f, u)
  BY <1>1
<1> DEFINE Of(u) == CHOOSE g : Table(g, f, u)
           G == [s \in SUBSET T |-> IF s = {} THEN 0
                                    ELSE f[Pick(s)] + Of(s \ {Pick(s)})[s \ {Pick(s)}]]
<1>3. \A u \in SUBSET T : u # T => Table(Of(u), f, u)
  BY <1>2
<1>4. ASSUME NEW s \in SUBSET T, s # {}
      PROVE  G[s \ {Pick(s)}] = Of(s \ {Pick(s)})[s \ {Pick(s)}]
  <2> DEFINE u == s \ {Pick(s)}
             v == u \ {Pick(u)}
  <2>1. u \in SUBSET T /\ u # T
    BY <1>4, PickedOut
  <2>2. Of(u)[u] = IF u = {} THEN 0 ELSE f[Pick(u)] + Of(u)[v]
    <3>1. Table(Of(u), f, u)
      BY <1>3, <2>1
    <3> HIDE DEF Of, u
    <3> QED BY <3>1 DEF Table
  <2>3. G[u] = IF u = {} THEN 0 ELSE f[Pick(u)] + Of(v)[v]
    BY <2>1
  <2>4. CASE u = {}
    BY <2>2, <2>3, <2>4
  <2>5. CASE u # {}
    <3>1. v \in SUBSET u /\ v # T
      BY <2>1, <2>5, PickedOut
    <3>2. Table(Of(u), f, u) /\ Table(Of(v), f, v) /\ IsFiniteSet(u)
      BY <1>1, <1>3, <2>1, <3>1, FS_Subset
    <3>3. Of(u)[v] = Of(v)[v]
      <4> HIDE DEF u, v, Of
      <4>1. v \in SUBSET (u \cap v)
        BY <3>1
      <4> QED BY <3>2, <4>1, TablesAgree
    <3>4. Of(u)[u] = G[u]
      <4> HIDE DEF u, v, Of, G
      <4> QED BY <2>2, <2>3, <2>5, <3>3
    <3> QED BY <3>4
  <2> QED BY <2>4, <2>5
<1>5. Table(G, f, T)
  <2> HIDE DEF Of
  <2>1. G = [s \in SUBSET T |-> IF s = {} THEN 0 ELSE f[Pick(s)] + G[s \ {Pick(s)}]]
    BY <1>4
  <2> HIDE DEF G
  <2> QED BY <2>1 DEF Table
<1> QED BY <1>1, <1>5

-----------------------------------------------------------------------------
(* What a sum is.                                                          *)

LEMMA TotalEmpty == ASSUME NEW f PROVE Total(f, {}) = 0
<1>1. PICK g : Table(g, f, {})
  BY TableExists, FS_EmptySet
<1>2. Table((CHOOSE h : Table(h, f, {})), f, {})
  BY <1>1
<1> QED BY <1>2, TotalLooksUp DEF Table

LEMMA TotalPicks ==
    ASSUME NEW f, NEW S, IsFiniteSet(S), S # {}
    PROVE  Total(f, S) = f[Pick(S)] + Total(f, S \ {Pick(S)})
<1> DEFINE T == S \ {Pick(S)}
           g == CHOOSE h : Table(h, f, S)
           k == CHOOSE h : Table(h, f, T)
<1>1. T \in SUBSET S /\ IsFiniteSet(T)
  BY FS_Subset
<1>2. Table(g, f, S) /\ Table(k, f, T)
  BY <1>1, TableExists
<1>3. Total(f, S) = g[S] /\ Total(f, T) = k[T]
  BY TotalLooksUp
<1>4. g[S] = f[Pick(S)] + g[T]
  <2> HIDE DEF g
  <2> QED BY <1>2 DEF Table
<1>5. g[T] = k[T]
  <2>1. T \in SUBSET (S \cap T)
    BY <1>1
  <2> HIDE DEF g, k, T
  <2> QED BY <1>2, <2>1, TablesAgree
<1> QED BY <1>3, <1>4, <1>5

LEMMA TotalType ==
    ASSUME NEW f, NEW S, IsFiniteSet(S), \A x \in S : f[x] \in Int
    PROVE  Total(f, S) \in Int
<1> DEFINE C == {T \in SUBSET S : Total(f, T) \notin Int}
<1> SUFFICES ASSUME C # {} PROVE FALSE
  OBVIOUS
<1>1. PICK T \in C : \A u \in SUBSET T : u # T => u \notin C
  <2>1. C \subseteq SUBSET S
    OBVIOUS
  <2> HIDE DEF C
  <2> QED BY <2>1, SmallestSubset
<1>2. T # {}
  BY TotalEmpty
<1>3. /\ Pick(T) \in S /\ Total(f, T \ {Pick(T)}) \in Int
      /\ IsFiniteSet(T)
  BY <1>1, <1>2, PickedOut, FS_Subset
<1>4. Total(f, T) = f[Pick(T)] + Total(f, T \ {Pick(T)})
  BY <1>2, <1>3, TotalPicks
<1> QED BY <1>3, <1>4

LEMMA TotalNatural ==
    ASSUME NEW f, NEW S, IsFiniteSet(S), \A x \in S : f[x] \in Nat
    PROVE  Total(f, S) \in Nat
<1> DEFINE C == {T \in SUBSET S : Total(f, T) \notin Nat}
<1> SUFFICES ASSUME C # {} PROVE FALSE
  OBVIOUS
<1>1. PICK T \in C : \A u \in SUBSET T : u # T => u \notin C
  <2>1. C \subseteq SUBSET S
    OBVIOUS
  <2> HIDE DEF C
  <2> QED BY <2>1, SmallestSubset
<1>2. T # {}
  BY TotalEmpty
<1>3. /\ Pick(T) \in S /\ Total(f, T \ {Pick(T)}) \in Nat
      /\ IsFiniteSet(T)
  BY <1>1, <1>2, PickedOut, FS_Subset
<1>4. Total(f, T) = f[Pick(T)] + Total(f, T \ {Pick(T)})
  BY <1>2, <1>3, TotalPicks
<1> QED BY <1>3, <1>4

(* The order in which MapThenSumSet takes the elements does not matter.    *)
LEMMA TotalTakesOut ==
    ASSUME NEW f, NEW S, IsFiniteSet(S), \A x \in S : f[x] \in Int, NEW x \in S
    PROVE  Total(f, S) = f[x] + Total(f, S \ {x})
<1> DEFINE C == {T \in SUBSET S : \E y \in T : Total(f, T) # f[y] + Total(f, T \ {y})}
<1> SUFFICES ASSUME C # {} PROVE FALSE
  OBVIOUS
<1>1. PICK T \in C : \A u \in SUBSET T : u # T => u \notin C
  <2>1. C \subseteq SUBSET S
    OBVIOUS
  <2> HIDE DEF C
  <2> QED BY <2>1, SmallestSubset
<1>2. PICK y \in T : Total(f, T) # f[y] + Total(f, T \ {y})
  OBVIOUS
<1> DEFINE p == Pick(T)
<1>3. /\ p \in T /\ T \subseteq S /\ IsFiniteSet(T)
      /\ Total(f, T) = f[p] + Total(f, T \ {p})
  BY <1>2, PickedOut, TotalPicks, FS_Subset
<1> HIDE DEF p
<1>4. y # p
  BY <1>2, <1>3
<1>5. /\ T \ {p} \in SUBSET S /\ T \ {p} \in SUBSET T /\ T \ {p} # T /\ y \in T \ {p}
      /\ T \ {y} \in SUBSET S /\ T \ {y} \in SUBSET T /\ T \ {y} # T /\ p \in T \ {y}
  BY <1>3, <1>4
<1>6. /\ Total(f, T \ {p}) = f[y] + Total(f, (T \ {p}) \ {y})
      /\ Total(f, T \ {y}) = f[p] + Total(f, (T \ {y}) \ {p})
  BY <1>1, <1>5
<1>7. (T \ {p}) \ {y} = (T \ {y}) \ {p}
  OBVIOUS
<1> DEFINE rest == Total(f, (T \ {p}) \ {y})
<1>8. rest \in Int /\ f[p] \in Int /\ f[y] \in Int
  <2>1. (T \ {p}) \ {y} \in SUBSET S
    BY <1>3
  <2> QED BY <1>3, <2>1, TotalType, FS_Subset
<1>9. /\ Total(f, T) = f[p] + (f[y] + rest)
      /\ Total(f, T \ {y}) = f[p] + rest
  BY <1>3, <1>6, <1>7
<1> HIDE DEF rest
<1> QED BY <1>2, <1>8, <1>9

(* A sum depends on the entries it is over and on no others.               *)
LEMMA TotalOfSame ==
    ASSUME NEW f, NEW g, NEW S, IsFiniteSet(S), \A x \in S : f[x] = g[x]
    PROVE  Total(f, S) = Total(g, S)
<1> DEFINE C == {T \in SUBSET S : Total(f, T) # Total(g, T)}
<1> SUFFICES ASSUME C # {} PROVE FALSE
  OBVIOUS
<1>1. PICK T \in C : \A u \in SUBSET T : u # T => u \notin C
  <2>1. C \subseteq SUBSET S
    OBVIOUS
  <2> HIDE DEF C
  <2> QED BY <2>1, SmallestSubset
<1>2. T # {}
  BY TotalEmpty
<1>3. /\ Pick(T) \in S /\ IsFiniteSet(T)
      /\ Total(f, T \ {Pick(T)}) = Total(g, T \ {Pick(T)})
  BY <1>1, <1>2, PickedOut, FS_Subset
<1>4. /\ Total(f, T) = f[Pick(T)] + Total(f, T \ {Pick(T)})
      /\ Total(g, T) = g[Pick(T)] + Total(g, T \ {Pick(T)})
  BY <1>2, <1>3, TotalPicks
<1> QED BY <1>3, <1>4

LEMMA TotalOfZeros ==
    ASSUME NEW f, NEW S, IsFiniteSet(S), \A x \in S : f[x] = 0
    PROVE  Total(f, S) = 0
<1> DEFINE C == {T \in SUBSET S : Total(f, T) # 0}
<1> SUFFICES ASSUME C # {} PROVE FALSE
  OBVIOUS
<1>1. PICK T \in C : \A u \in SUBSET T : u # T => u \notin C
  <2>1. C \subseteq SUBSET S
    OBVIOUS
  <2> HIDE DEF C
  <2> QED BY <2>1, SmallestSubset
<1>2. T # {}
  BY TotalEmpty
<1>3. Pick(T) \in S /\ IsFiniteSet(T) /\ Total(f, T \ {Pick(T)}) = 0
  BY <1>1, <1>2, PickedOut, FS_Subset
<1>4. Total(f, T) = f[Pick(T)] + Total(f, T \ {Pick(T)})
  BY <1>2, <1>3, TotalPicks
<1> QED BY <1>3, <1>4

(* What a step that moves one entry by d does to a sum.                    *)
LEMMA TotalMoves ==
    ASSUME NEW f, NEW g, NEW S, IsFiniteSet(S), NEW x, NEW d \in Int,
           \A y \in S : f[y] \in Int,
           \A y \in S : g[y] = IF y = x THEN f[y] + d ELSE f[y]
    PROVE  Total(g, S) = Total(f, S) + (IF x \in S THEN d ELSE 0)
<1>1. \A y \in S : g[y] \in Int
  OBVIOUS
<1>2. Total(f, S) \in Int
  BY TotalType
<1>3. CASE x \in S
  <2>1. /\ Total(f, S) = f[x] + Total(f, S \ {x})
        /\ Total(g, S) = g[x] + Total(g, S \ {x})
    BY <1>1, <1>3, TotalTakesOut
  <2>2. IsFiniteSet(S \ {x})
    BY FS_Subset
  <2>3. \A y \in S \ {x} : f[y] = g[y]
    OBVIOUS
  <2>4. Total(f, S \ {x}) = Total(g, S \ {x})
    BY <2>2, <2>3, TotalOfSame
  <2>5. Total(f, S \ {x}) \in Int /\ f[x] \in Int /\ g[x] = f[x] + d
    BY <1>3, <2>2, TotalType
  <2> QED
    BY <1>3, <2>1, <2>4, <2>5
<1>4. CASE x \notin S
  <2>1. \A y \in S : f[y] = g[y]
    BY <1>4
  <2>2. Total(f, S) = Total(g, S)
    BY <2>1, TotalOfSame
  <2> QED
    BY <1>2, <1>4, <2>2
<1> QED
  BY <1>3, <1>4

(* One more element adds its value.                                        *)
LEMMA TotalAdds ==
    ASSUME NEW f, NEW S, IsFiniteSet(S), \A y \in S : f[y] \in Int,
           NEW x, x \notin S, f[x] \in Int
    PROVE  Total(f, S \cup {x}) = Total(f, S) + f[x]
<1> DEFINE U == S \cup {x}
<1>1. IsFiniteSet(U) /\ (\A y \in U : f[y] \in Int) /\ x \in U
  BY FS_AddElement
<1>2. U \ {x} = S
  OBVIOUS
<1> HIDE DEF U
<1>3. Total(f, U) = f[x] + Total(f, U \ {x})
  BY <1>1, TotalTakesOut
<1>4. Total(f, U) = f[x] + Total(f, S)
  BY <1>2, <1>3
<1>5. Total(f, S) \in Int
  BY TotalType
<1> QED
  BY <1>4, <1>5 DEF U

(* A sum of naturals over fewer elements is no larger.                     *)
LEMMA TotalGrows ==
    ASSUME NEW f, NEW S, IsFiniteSet(S), \A y \in S : f[y] \in Nat, NEW T \in SUBSET S
    PROVE  Total(f, T) <= Total(f, S)
<1> DEFINE C == {u \in SUBSET S : T \subseteq u /\ ~(Total(f, T) <= Total(f, u))}
<1> SUFFICES ASSUME C # {} PROVE FALSE
  OBVIOUS
<1>1. PICK u \in C : \A v \in SUBSET u : v # u => v \notin C
  <2>1. C \subseteq SUBSET S
    OBVIOUS
  <2> HIDE DEF C
  <2> QED
    BY <2>1, SmallestSubset
<1>2. u \in SUBSET S /\ T \subseteq u /\ ~(Total(f, T) <= Total(f, u))
  OBVIOUS
<1>3. /\ IsFiniteSet(u) /\ \A y \in u : f[y] \in Int
      /\ Total(f, T) \in Int
  <2>1. IsFiniteSet(T) /\ IsFiniteSet(u)
    BY <1>2, FS_Subset
  <2> QED
    BY <1>2, <2>1, TotalType
<1>4. PICK x \in u : x \notin T
  BY <1>2, <1>3
<1>5. Total(f, u) = f[x] + Total(f, u \ {x})
  BY <1>3, TotalTakesOut
<1>6. Total(f, T) <= Total(f, u \ {x})
  <2>1. u \ {x} \in SUBSET u /\ u \ {x} # u /\ T \subseteq u \ {x}
    BY <1>2, <1>4
  <2> QED
    BY <1>1, <1>2, <2>1
<1>7. Total(f, u \ {x}) \in Int
  <2>1. IsFiniteSet(u \ {x})
    BY <1>3, FS_Subset
  <2> QED
    BY <1>3, <2>1, TotalType
<1> QED
  BY <1>2, <1>3, <1>5, <1>6, <1>7

-----------------------------------------------------------------------------
(* The sums of the Functions module are these sums.                        *)
LEMMA SumsAreTotals ==
    ASSUME NEW f, NEW S
    PROVE  SumFunctionOnSet(f, S) = Total(f, S) /\ SumFunction(f) = Total(f, DOMAIN f)
BY DEF SumFunction, SumFunctionOnSet, FoldFunctionOnSet, Total, MapThenSumSet

-----------------------------------------------------------------------------
(* The least and the largest of some numbers.                              *)

LEMMA LeastPosition ==
    ASSUME NEW S \in SUBSET Nat, S # {}
    PROVE  /\ Min(S) \in S
           /\ \A j \in S : Min(S) <= j
           /\ S \ {Min(S)} \in SUBSET S /\ S \ {Min(S)} # S
<1> DEFINE R == {ss \in Nat \X Nat : ss[1] < ss[2]}
<1>1. IsWellFoundedOn(R, Nat)
  BY NatLessThanWellFounded DEF OpToRel
<1>2. PICK x \in S : \A y \in S : <<y, x>> \notin R
  <2> HIDE DEF R
  <2> QED
    BY <1>1, WFMin
<1>3. ASSUME NEW y \in S PROVE x <= y
  <2>1. <<y, x>> \in Nat \X Nat /\ <<y, x>>[1] = y /\ <<y, x>>[2] = x
    OBVIOUS
  <2>2. ~(y < x)
    BY <1>2, <2>1
  <2> QED
    BY <2>2
<1>4. Min(S) \in S /\ \A j \in S : Min(S) <= j
  BY <1>3 DEF Min
<1> QED
  BY <1>4

LEMMA LeastNumber ==
    ASSUME NEW C \in SUBSET Nat, C # {} PROVE \E n \in C : \A m \in C : n <= m
BY LeastPosition

LEMMA LargestIsNew ==
    ASSUME NEW S, NEW k \in Nat, S \subseteq 1..k
    PROVE  Max(S \cup {k + 1}) = k + 1
<1>1. \A y \in S \cup {k + 1} : k + 1 >= y /\ y \in Int
  OBVIOUS
<1>2. \A x \in S \cup {k + 1} : (\A y \in S \cup {k + 1} : x >= y) => x = k + 1
  BY <1>1
<1> QED
  BY <1>1, <1>2 DEF Max

LEMMA LargestThere ==
    ASSUME NEW k \in Nat, NEW S \in SUBSET (0..k), S # {}
    PROVE  Max(S) \in S /\ \A y \in S : y <= Max(S)
<1> DEFINE C == {j \in Nat : j <= k /\ k - j \in S}
<1>1. PICK j \in C : \A h \in C : j <= h
  <2>1. C \in SUBSET Nat /\ C # {}
    <3>1. PICK x \in S : TRUE
      OBVIOUS
    <3>2. k - x \in Nat /\ k - x <= k /\ k - (k - x) = x
      BY <3>1
    <3> QED
      BY <3>2
  <2> HIDE DEF C
  <2> QED
    BY <2>1, LeastNumber
<1>2. j \in Nat /\ k - j \in S
  OBVIOUS
<1>3. ASSUME NEW y \in S PROVE k - j >= y
  <2>1. y \in Nat /\ k - y \in Nat /\ k - y <= k /\ k - (k - y) = y
    OBVIOUS
  <2>2. k - y \in C
    BY <2>1
  <2> HIDE DEF C
  <2> QED
    BY <1>1, <1>2, <2>1, <2>2
<1>4. \E x \in S : \A y \in S : x >= y
  BY <1>2, <1>3
<1>5. Max(S) \in S /\ \A y \in S : Max(S) >= y
  BY <1>4 DEF Max
<1> QED
  BY <1>5

-----------------------------------------------------------------------------
(* Sequences that are joined, and cut.                                     *)

LEMMA JoinedSeqs ==
    ASSUME NEW S, NEW s \in Seq(S), NEW t \in Seq(S)
    PROVE  /\ s \o t \in Seq(S) /\ Len(s \o t) = Len(s) + Len(t)
           /\ \A i \in 1..Len(s) : (s \o t)[i] = s[i]
           /\ \A i \in 1..Len(t) : (s \o t)[Len(s) + i] = t[i]
OBVIOUS

(* What a sequence is without its first n elements.                        *)
LEMMA SuffixForm ==
    ASSUME NEW S, NEW s \in Seq(S), NEW n \in 0..Len(s), NEW t, t = SubSeq(s, n + 1, Len(s))
    PROVE  /\ t \in Seq(S) /\ Len(t) = Len(s) - n
           /\ DOMAIN t = 1..(Len(s) - n)
           /\ \A j \in DOMAIN t : t[j] = s[n + j] /\ n + j \in DOMAIN s
<1>1. Len(s) \in Nat /\ n \in Nat /\ n <= Len(s)
  OBVIOUS
<1>2. t \in Seq(S)
  BY <1>1
<1>3. Len(t) = Len(s) - n /\ DOMAIN t = 1..(Len(s) - n)
  BY <1>1
<1>4. ASSUME NEW j \in DOMAIN t PROVE t[j] = s[n + j] /\ n + j \in DOMAIN s
  BY <1>1, <1>3
<1> QED
  BY <1>2, <1>3, <1>4

(* What FlattenSeq has put together after the first k of its sequences.    *)
Built(g, w, n) == g = [i \in 1..n |-> IF i = 1 THEN w[i] ELSE g[i - 1] \o w[i]]

LEMMA BuiltExists == ASSUME NEW w PROVE \A n \in Nat : \E g : Built(g, w, n)
<1> DEFINE C == {n \in Nat : ~ \E g : Built(g, w, n)}
<1> SUFFICES ASSUME C # {} PROVE FALSE
  OBVIOUS
<1>1. PICK n \in C : \A m \in C : n <= m
  <2>1. C \in SUBSET Nat
    OBVIOUS
  <2> HIDE DEF C
  <2> QED
    BY <2>1, LeastNumber
<1>2. n \in Nat /\ ~ \E g : Built(g, w, n)
  OBVIOUS
<1>3. CASE n = 0
  <2> DEFINE g == [i \in 1..n |-> w[i]]
  <2>1. 1..n = {}
    BY <1>3
  <2>2. g = [i \in 1..n |-> IF i = 1 THEN w[i] ELSE g[i - 1] \o w[i]]
    BY <2>1
  <2> HIDE DEF g
  <2> QED
    BY <1>2, <2>2 DEF Built
<1>4. CASE n # 0
  <2>1. n - 1 \in Nat
    BY <1>2, <1>4
  <2>2. PICK f : Built(f, w, n - 1)
    BY <1>1, <2>1
  <2> DEFINE g == [i \in 1..n |-> IF i = n THEN (IF i = 1 THEN w[i] ELSE f[i - 1] \o w[i])
                                           ELSE f[i]]
  <2>3. ASSUME NEW i \in 1..n PROVE g[i] = IF i = 1 THEN w[i] ELSE g[i - 1] \o w[i]
    <3>1. g[i] = IF i = 1 THEN w[i] ELSE f[i - 1] \o w[i]
      <4>1. CASE i = n
        BY <4>1
      <4>2. CASE i # n
        <5>1. i \in 1..(n - 1)
          BY <1>2, <4>2
        <5> QED
          BY <2>2, <4>2, <5>1 DEF Built
      <4> QED
        BY <4>1, <4>2
    <3>2. i # 1 => g[i - 1] = f[i - 1]
      <4>1. i # 1 => i - 1 \in 1..n /\ i - 1 # n
        BY <1>2
      <4> QED
        BY <4>1
    <3> HIDE DEF g
    <3> QED
      BY <3>1, <3>2
  <2>4. g = [i \in 1..n |-> IF i = 1 THEN w[i] ELSE g[i - 1] \o w[i]]
    <3>1. g = [i \in 1..n |-> g[i]]
      OBVIOUS
    <3> HIDE DEF g
    <3> QED
      BY <2>3, <3>1
  <2> HIDE DEF g
  <2> QED
    BY <1>2, <2>4 DEF Built
<1> QED
  BY <1>3, <1>4

(* Nothing is joined to nothing, and one more goes to the end.             *)
LEMMA FlattenNone == ASSUME NEW f PROVE FlattenSeq([i \in 1..0 |-> f[i]]) = <<>>
BY DEF FlattenSeq

LEMMA FlattenOneMore ==
    ASSUME NEW S, NEW n \in Nat, NEW f \in [1..(n + 1) -> Seq(S)]
    PROVE  FlattenSeq(f) = FlattenSeq([i \in 1..n |-> f[i]]) \o f[n + 1]
<1> DEFINE e == [i \in 1..n |-> f[i]]
           g == CHOOSE h : Built(h, f, n + 1)
           k == CHOOSE h : Built(h, e, n)
<1>1. Built(g, f, n + 1) /\ Built(k, e, n)
  <2>1. n + 1 \in Nat
    OBVIOUS
  <2> QED
    BY <2>1, BuiltExists
<1>2. f \in Seq(Seq(S)) /\ Len(f) = n + 1 /\ e \in Seq(Seq(S)) /\ Len(e) = n
  OBVIOUS
<1>3. FlattenSeq(f) = g[n + 1]
  <2>1. g = CHOOSE h : h = [i \in 1..Len(f) |-> IF i = 1 THEN f[i] ELSE h[i - 1] \o f[i]]
    BY <1>2 DEF Built
  <2> HIDE DEF g
  <2> QED
    BY <1>2, <2>1 DEF FlattenSeq
<1>4. CASE n = 0
  <2>1. g[n + 1] = f[1]
    BY <1>1, <1>4 DEF Built
  <2>2. e = <<>> /\ FlattenSeq(e) = <<>>
    BY <1>4, FlattenNone
  <2>3. <<>> \o f[1] = f[1]
    BY <1>4
  <2> HIDE DEF e, g
  <2> QED
    BY <1>3, <1>4, <2>1, <2>2, <2>3
<1>5. CASE n # 0
  <2>1. FlattenSeq(e) = k[n]
    <3>1. k = CHOOSE h : h = [i \in 1..Len(e) |-> IF i = 1 THEN e[i] ELSE h[i - 1] \o e[i]]
      BY <1>2 DEF Built
    <3> HIDE DEF k, e
    <3> QED
      BY <1>2, <1>5, <3>1 DEF FlattenSeq
  <2>2. g[n + 1] = g[n] \o f[n + 1]
    <3>1. n + 1 \in 1..(n + 1) /\ n + 1 # 1 /\ (n + 1) - 1 = n
      BY <1>5
    <3> HIDE DEF g, k, e
    <3> QED
      BY <1>1, <3>1 DEF Built
  <2>3. \A i \in 1..n : g[i] = k[i]
    <3> DEFINE C == {i \in Nat : i \in 1..n /\ g[i] # k[i]}
    <3> SUFFICES ASSUME NEW a \in 1..n, g[a] # k[a] PROVE FALSE
      OBVIOUS
    <3>0. a \in C
      <4> HIDE DEF g, k
      <4> QED
        OBVIOUS
    <3>1. PICK i \in C : \A j \in C : i <= j
      <4>1. C \in SUBSET Nat
        OBVIOUS
      <4> HIDE DEF C
      <4> QED
        BY <3>0, <4>1, LeastNumber
    <3>2. i \in 1..n /\ g[i] # k[i]
      OBVIOUS
    <3>3. /\ g[i] = IF i = 1 THEN f[i] ELSE g[i - 1] \o f[i]
          /\ k[i] = IF i = 1 THEN f[i] ELSE k[i - 1] \o f[i]
      <4>1. i \in 1..(n + 1) /\ e[i] = f[i]
        BY <3>2
      <4> HIDE DEF g, k, e, C
      <4> QED
        BY <1>1, <3>2, <4>1 DEF Built
    <3>4. i # 1 => g[i - 1] = k[i - 1]
      <4> SUFFICES ASSUME i # 1, g[i - 1] # k[i - 1] PROVE FALSE
        OBVIOUS
      <4>1. i - 1 \in 1..n /\ i - 1 \in Nat
        BY <3>2
      <4>2. i - 1 \in C
        BY <4>1
      <4> HIDE DEF C, g, k
      <4> QED
        BY <3>1, <3>2, <4>2
    <3> HIDE DEF g, k, C
    <3> QED
      BY <3>2, <3>3, <3>4
  <2>4. g[n] = k[n]
    <3> HIDE DEF g, k
    <3> QED
      BY <1>5, <2>3
  <2> HIDE DEF g, k
  <2> QED
    BY <1>3, <2>1, <2>2, <2>4
<1> QED
  BY <1>4, <1>5

=============================================================================
