------------------------------- MODULE Pruner -------------------------------
(***************************************************************************)
(* TokenEstimator (ratelimit.py) and TokenBudgetPruner (pruning.py).  The  *)
(* gateway keeps no conversation: a client adds a turn and sends the whole *)
(* conversation again, and prune() answers from that alone.  What it       *)
(* returns is given here by the positions of the turns it keeps.           *)
(*                                                                         *)
(* A turn is its role and texts: the code looks at nothing else.  A text   *)
(* is a sequence of passages, of so many characters each.  Sizes are       *)
(* counted in quarter tokens, the unit of chars / 4 + 4 * turns.           *)
(***************************************************************************)
EXTENDS Integers, SequencesExt

CONSTANTS
    Turns,          \* the turns there may be
    Fields,         \* the role and the texts of each
    Chars,          \* the characters of each passage
    SystemChars,    \* what system instructions may have; NoSystem is none
    Budgets,        \* the values budget_for(model) may return
    MaxTurns        \* bound: the turns of the longest conversation

NoSystem == -1

ASSUME PrunerAssumption ==
    /\ \A t, u \in Turns : Fields[t] = Fields[u] => t = u
    /\ \A p \in DOMAIN Chars : Chars[p] \in Nat \ {0}
    /\ \A t \in Turns : Fields[t] \in Seq(Seq(DOMAIN Chars)) \ {<<>>}
    /\ SystemChars \subseteq Nat \cup {NoSystem}
    /\ Budgets \subseteq Nat
    /\ MaxTurns \in Nat

VARIABLES
    turns,      \* the conversation of the latest request
    system,     \* the characters of its system instruction
    budget,     \* the budget of its model
    kept        \* the positions of the turns that prune() returned

vars == <<turns, system, budget, kept>>

-----------------------------------------------------------------------------
(* The estimator.                                                          *)

PerTurnOverhead == 16

(* 1.1 is stored 0.4 / 2^52 too large, so 10 * j * 1.1 exceeds 11 * j by   *)
(* 4 * j / 2^52; it is rounded up to the next double, and then by ceil to  *)
(* the next integer, if that is more than half the spacing of doubles.     *)
RoundsUp(j) ==
    \E e \in 0..30 : 2^e <= 11 * j /\ 11 * j < 2^(e + 1) /\ 2^e < 8 * j

(* The exact ceil(q / 4 * 11 / 10).                                        *)
ExactTokens(q) == (11 * q + 39) \div 40

(* math.ceil(raw * 1.1) in double arithmetic, for raw = q / 4.             *)
Tokens(q) ==
    IF q % 40 = 0 /\ RoundsUp(q \div 40) THEN ExactTokens(q) + 1
                                         ELSE ExactTokens(q)

CharsOf(text) == SumFunction([i \in DOMAIN text |-> Chars[text[i]]])
TextsOf(t) == Tail(Fields[t])
TurnSize(t) ==
    PerTurnOverhead + SumFunction([i \in DOMAIN TextsOf(t) |-> CharsOf(TextsOf(t)[i])])
SystemSize(s) == IF s = NoSystem THEN 0 ELSE s + PerTurnOverhead

(* The size of what is left of conversation t at the positions S.          *)
Size(t, S, s) ==
    SystemSize(s) + SumFunctionOnSet([i \in DOMAIN t |-> TurnSize(t[i])], S)

-----------------------------------------------------------------------------
(* The pruner.                                                             *)

(* Faulty: as it once was, fields between separators a text may contain.   *)
Faulty_EncodeFields(fields) == FlattenSeq([i \in DOMAIN fields |-> <<"|">> \o fields[i]])

(* What str() makes of a length.                                           *)
Digits == <<"0", "1", "2", "3", "4", "5", "6", "7", "8", "9">>
Decimal[n \in Nat] ==
    IF n < 10 THEN <<Digits[n + 1]>> ELSE Append(Decimal[n \div 10], Digits[(n % 10) + 1])

(* encode_fields: every field is preceded by its length and a colon.       *)
EncodeFields(fields) ==
    FlattenSeq([i \in DOMAIN fields |-> Decimal[CharsOf(fields[i])] \o <<":">> \o fields[i]])

Fingerprint(t) == EncodeFields(Fields[t])

(* _dedupe_exact: the first of several equal turns is the one kept.        *)
Deduped(t) ==
    LET f == [i \in DOMAIN t |-> Fingerprint(t[i])]
    IN  {i \in DOMAIN t : \A j \in DOMAIN t : j < i => f[j] # f[i]}

(* Faulty: the turn being looked at is not counted.                        *)
Faulty_Fits(w, turn, b) == w.kept = {} \/ w.running <= b

(* The condition of _sliding_window's loop, on its two locals.             *)
Fits(w, turn, b) == w.kept = {} \/ w.running + Tokens(TurnSize(turn)) <= b

(* Faulty: the loop starts from the first turn.                            *)
Faulty_Window(t, D, s, b) ==
    LET Look(w, i) ==
            IF i \in D /\ Fits(w, t[i], b)
            THEN [kept |-> w.kept \cup {i},
                  running |-> w.running + Tokens(TurnSize(t[i]))]
            ELSE w
    IN FoldLeft(Look, [kept |-> {}, running |-> Tokens(SystemSize(s))],
                [i \in DOMAIN t |-> i]).kept

(* _sliding_window: from the last turn to the first, `continue' where one  *)
(* does not fit.                                                           *)
Window(t, D, s, b) ==
    LET Look(i, w) ==
            IF i \in D /\ Fits(w, t[i], b)
            THEN [kept |-> w.kept \cup {i},
                  running |-> w.running + Tokens(TurnSize(t[i]))]
            ELSE w
    IN FoldRight(Look, [i \in DOMAIN t |-> i],
                 [kept |-> {}, running |-> Tokens(SystemSize(s))]).kept

Prune(t, s, b) ==
    IF Tokens(Size(t, DOMAIN t, s)) <= b
    THEN DOMAIN t
    ELSE Window(t, Deduped(t), s, b)

-----------------------------------------------------------------------------
Init ==
    /\ turns = <<>>
    /\ system \in SystemChars
    /\ budget \in Budgets
    /\ kept = {}

Request(t) ==
    /\ Len(turns) < MaxTurns
    /\ turns' = Append(turns, t)
    /\ kept' = Prune(turns', system, budget)
    /\ UNCHANGED <<system, budget>>

Next == \E t \in Turns : Request(t)

Spec == Init /\ [][Next]_vars

-----------------------------------------------------------------------------
(* Summing the rounded-up turns one by one is on the safe side: what is    *)
(* left, counted exactly and as a whole with the system instruction, fits  *)
(* the budget, unless it is a single turn.                                 *)
KeptFitsExactly ==
    kept # DOMAIN turns /\ Cardinality(kept) > 1
        => ExactTokens(Size(turns, kept, system)) <= budget

(* The positions of the turns that say what none before them said.         *)
New == {i \in DOMAIN turns : \A j \in DOMAIN turns : j < i => turns[j] # turns[i]}

(* What _sliding_window counts for the turns at the positions S: each is   *)
(* estimated and rounded up by itself, and so is the system instruction.   *)
Counted(S) ==
    Tokens(SystemSize(system))
        + SumFunctionOnSet([i \in DOMAIN turns |-> Tokens(TurnSize(turns[i]))], S)

(* docs/security.md: no turn is taken for a repetition of a different one, *)
(* whatever its texts contain.  If all that is new fits, all of it is kept. *)
OnlyRepeatsDropped == Counted(New) <= budget => New \subseteq kept

(* docs/tutorial/context-pruning.md: "keeping the system instruction and   *)
(* the most recent turns that fit".  From the end of the conversation back *)
(* to the first turn that is too much, whatever says something new is      *)
(* kept; and the last that does is kept, even if it alone is too much.     *)
RecentThatFitKept ==
    \A i \in New :
        LET from == {j \in New : j >= i}
        IN  Counted(from) <= budget \/ from = {i} => i \in kept

(* The same line: "The single most recent turn always survives, even if it *)
(* alone exceeds the budget"; at least what it says then reaches the model. *)
MostRecentSurvives ==
    turns # <<>> => \E i \in kept : turns[i] = turns[Len(turns)]

(* _sliding_window: "drop oldest first"; so no turn is kept when a later   *)
(* one that is no repetition is dropped.                                   *)
OldestGoFirst == \A i, j \in New : i < j /\ i \in kept => j \in kept

(* pruning.py:83, which says both: whatever the conversation, at least one *)
(* of them is kept.  A conversation that breaks this breaks either one.    *)
RecencyHonoured == MostRecentSurvives \/ OldestGoFirst

=============================================================================
