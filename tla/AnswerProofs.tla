---------------------------- MODULE AnswerProofs ----------------------------
(***************************************************************************)
(* The way of an answer, in two parts.  First StreamProxy: IInv is an      *)
(* invariant of it, for any retry limits and any length of the streams,    *)
(* and so are the properties it contains.  Then Translation: for any       *)
(* events an upstream may send, cut into chunks anywhere,                  *)
(* TranslationInvariant says where each of their bytes is, and what is     *)
(* known of those that are through.                                        *)
(***************************************************************************)
EXTENDS StreamProxy, Translation, FoldTheorems, SequenceTheorems

-----------------------------------------------------------------------------
(* What appending to the stream changes of the two predicates on it.       *)
LEMMA YieldFacts ==
    ASSUME TypeOK, NEW what \in ChunkKind, NEW then \in Continuation, Yield(what, then)
    PROVE  /\ chunk' \in Suspended /\ chunk'.kind = what /\ chunk'.then = then
           /\ out' \in Seq(ChunkAt)
           /\ out' # <<>>
           /\ acc' \in [bytes : BOOLEAN, text : Seq(Nat), finished : BOOLEAN,
                        usage : BOOLEAN, errored : BOOLEAN]
           /\ acc'.finished = acc.finished /\ acc'.errored = acc.errored
           /\ what # "terminal" => acc'.bytes
           /\ pc' = "yielded"
           /\ OneAnswer => \A i \in 1..Len(out') : out'[i].call = calls
           /\ \A k \in ChunkKind : Sent(k)' <=> (Sent(k) \/ k = what)
<1>1. calls \in Nat /\ out \in Seq(ChunkAt)
  BY DEF TypeOK
<1> DEFINE e == [kind |-> what, call |-> calls]
<1>2. e \in ChunkAt /\ e.kind = what /\ e.call = calls
  BY <1>1 DEF ChunkAt
<1>3. out' = Append(out, e)
  BY DEF Yield
<1> HIDE DEF e
<1>4. /\ out' \in Seq(ChunkAt)
      /\ Len(out') = Len(out) + 1
      /\ out'[Len(out) + 1] = e
      /\ \A i \in 1..Len(out) : out'[i] = out[i]
      /\ Len(out) \in Nat
  BY <1>1, <1>2, <1>3
<1>5. chunk' \in Suspended /\ chunk'.kind = what /\ chunk'.then = then /\ pc' = "yielded"
  BY <1>1 DEF Yield, Suspended
<1>6. /\ acc' \in [bytes : BOOLEAN, text : Seq(Nat), finished : BOOLEAN,
                   usage : BOOLEAN, errored : BOOLEAN]
      /\ acc'.finished = acc.finished /\ acc'.errored = acc.errored
      /\ what # "terminal" => acc'.bytes
  BY DEF Yield, TypeOK
<1>7. OneAnswer => \A i \in 1..Len(out') : out'[i].call = calls
  BY <1>2, <1>4 DEF OneAnswer
<1>8. \A k \in ChunkKind : Sent(k)' <=> (Sent(k) \/ k = what)
  <2> SUFFICES ASSUME NEW k \in ChunkKind
               PROVE  (\E i \in 1..Len(out') : out'[i].kind = k)
                         <=> ((\E i \in 1..Len(out) : out[i].kind = k) \/ k = what)
    BY DEF Sent
  <2>1. CASE k = what
    BY <1>2, <1>4, <2>1
  <2>2. CASE k # what
    BY <1>2, <1>4, <2>2
  <2> QED  BY <2>1, <2>2
<1>9. out' # <<>>
  BY <1>4
<1> QED  BY <1>4, <1>5, <1>6, <1>7, <1>8, <1>9

(* What finalizing does, whichever way it goes.                            *)
LEMMA FinalizeFacts ==
    ASSUME NEW a, Finalize(a), a.finished \in BOOLEAN, a.errored \in BOOLEAN
    PROVE  /\ outcome' \in {"success", "failure"}
           /\ outcome' = "success" <=> a.finished /\ ~a.errored
           /\ pc' \in {"reconcile", "store", "done"}
BY DEF Finalize, FinishedCleanly

(* Products are all the prover does not find by itself.                    *)
LEMMA Budget ==
    ASSUME NEW m \in Nat, NEW p \in Nat, NEW a \in 1..(m + 1)
    PROVE  /\ (a - 1) * (p + 1) \in Nat
           /\ a * (p + 1) = (a - 1) * (p + 1) + (p + 1)
           /\ (a - 1) * (p + 1) + (p + 1) <= (m + 1) * (p + 1)
<1>1. PICK d \in Nat : m + 1 = a + d
  <2>1. m + 1 - a \in Nat /\ m + 1 = a + (m + 1 - a)
    OBVIOUS
  <2> QED  BY <2>1
<1>2. a - 1 \in Nat /\ p + 1 \in Nat
  OBVIOUS
<1>3. \A x, y \in Nat : x * y \in Nat
  OBVIOUS
<1>4. d * (p + 1) \in Nat /\ (a - 1) * (p + 1) \in Nat /\ a * (p + 1) \in Nat
  BY <1>1, <1>2, <1>3
<1>5. a * (p + 1) = (a - 1) * (p + 1) + (p + 1)
  OBVIOUS
<1>6. (a + d) * (p + 1) = a * (p + 1) + d * (p + 1)
  BY <1>1
<1> QED  BY <1>1, <1>4, <1>5, <1>6

(* Parsing a chunk keeps the accumulator well formed.                      *)
LEMMA ParsedType ==
    ASSUME NEW a \in [bytes : BOOLEAN, text : Seq(Nat), finished : BOOLEAN,
                      usage : BOOLEAN, errored : BOOLEAN],
           NEW c \in Suspended
    PROVE  /\ Parsed(a, c) \in [bytes : BOOLEAN, text : Seq(Nat), finished : BOOLEAN,
                                 usage : BOOLEAN, errored : BOOLEAN]
           /\ Parsed(a, c).bytes = a.bytes
           /\ Parsed(a, c).finished = (a.finished \/ c.kind = "finish")
           /\ Parsed(a, c).errored = (a.errored \/ c.kind = "error")
<1>1. c.call \in Nat
  BY DEF Suspended
<1>2. (IF c.kind = "text" THEN Append(a.text, c.call) ELSE a.text) \in Seq(Nat)
  BY <1>1
<1> QED  BY <1>2 DEF Parsed

(* Type correctness needs no help from the other parts.                    *)
LEMMA TypeStep ==
    ASSUME TypeOK, [Next]_vars
    PROVE  TypeOK'
<1> USE StreamAssumption
<1>1. CASE Open
  <2>1. calls' = calls + 1 /\ calls' \in Nat /\ links' \subseteq links \cup {calls + 1}
    BY <1>1 DEF TypeOK, Open
  <2>2. links' \subseteq 1..calls'
    BY <2>1 DEF TypeOK
  <2>3. tries' \in 0..(ProviderRetries + 1)
    BY <1>1 DEF TypeOK, Open
  <2> QED  BY <1>1, <2>1, <2>2, <2>3 DEF TypeOK, Await, Open
<1>2. CASE Accept
  BY <1>2 DEF TypeOK, Await, provider, Accept
<1>3. CASE TryAgain
  <2>1. calls' = calls + 1 /\ calls' \in Nat /\ links' \subseteq links \cup {calls + 1}
    BY <1>3 DEF TypeOK, TryAgain
  <2>2. links' \subseteq 1..calls'
    BY <2>1 DEF TypeOK
  <2>3. tries' \in 0..(ProviderRetries + 1)
    BY <1>3 DEF TypeOK, TryAgain, MayTryAgain
  <2> QED  BY <1>3, <2>1, <2>2, <2>3 DEF TypeOK, Await, TryAgain
<1>4. CASE Stream
  <2>1. PICK what \in {"text", "usage", "finish"} : Yield(what, "body")
    BY <1>4 DEF Stream
  <2>2. what \in ChunkKind /\ "body" \in Continuation
    BY DEF ChunkKind, Continuation
  <2> QED  BY <1>4, <2>1, <2>2, YieldFacts DEF TypeOK, Await, Stream
<1>5. CASE Fail
  <2>1. PICK then \in {"closing", "end"} : Yield("error", then)
    BY <1>5 DEF Fail
  <2>2. "error" \in ChunkKind /\ then \in Continuation
    BY DEF ChunkKind, Continuation
  <2>3. links' \subseteq links
    BY <1>5 DEF Fail
  <2> QED  BY <1>5, <2>1, <2>2, <2>3, YieldFacts DEF TypeOK, Await, Fail
<1>6. CASE EndOfStream
  <2>1. CASE kind = "agent"
    <3>1. Yield("finish", "end") /\ "finish" \in ChunkKind /\ "end" \in Continuation
      BY <1>6, <2>1 DEF EndOfStream, ChunkKind, Continuation
    <3> QED  BY <1>6, <2>1, <3>1, YieldFacts DEF TypeOK, Await, EndOfStream
  <2>2. CASE kind # "agent"
    <3>1. Finalize(acc) /\ acc.finished \in BOOLEAN /\ acc.errored \in BOOLEAN
      BY <1>6, <2>2 DEF EndOfStream, TypeOK
    <3> QED  BY <1>6, <2>2, <3>1, FinalizeFacts DEF TypeOK, Await, EndOfStream
  <2> QED  BY <2>1, <2>2
<1>7. CASE Close
  <2>1. Finalize(acc) /\ acc.finished \in BOOLEAN /\ acc.errored \in BOOLEAN
    BY <1>7 DEF Close, TypeOK
  <2> QED  BY <1>7, <2>1, FinalizeFacts DEF TypeOK, Await, Close
<1>8. CASE CloseFails
  <2>1. Yield("error", "end") /\ "error" \in ChunkKind /\ "end" \in Continuation
    BY <1>8 DEF CloseFails, ChunkKind, Continuation
  <2> QED  BY <1>8, <2>1, YieldFacts DEF TypeOK, Await, CloseFails
<1>9. CASE Reopen
  BY <1>9 DEF TypeOK, Await, provider, LeftBehind, Reopen, MayReopen, Escapes
<1>10. CASE GiveUp
  <2>1. Yield("terminal", "end") /\ "terminal" \in ChunkKind /\ "end" \in Continuation
    BY <1>10 DEF GiveUp, ChunkKind, Continuation
  <2> QED  BY <1>10, <2>1, YieldFacts DEF TypeOK, Await, LeftBehind, GiveUp
<1>11. CASE Resume
  <2>1. chunk \in Suspended /\ acc' = Parsed(acc, chunk)
    BY <1>11 DEF Resume, TypeOK
  <2>2. /\ acc' \in [bytes : BOOLEAN, text : Seq(Nat), finished : BOOLEAN,
                      usage : BOOLEAN, errored : BOOLEAN]
        /\ acc'.finished \in BOOLEAN /\ acc'.errored \in BOOLEAN
    BY <2>1, ParsedType DEF TypeOK
  <2>3. CASE chunk.then = "end"
    BY <1>11, <2>1, <2>2, <2>3, FinalizeFacts DEF TypeOK, Await, Resume
  <2>4. CASE chunk.then # "end"
    BY <1>11, <2>1, <2>2, <2>4 DEF TypeOK, Await, Resume, Suspended, Continuation
  <2> QED  BY <2>3, <2>4
<1>12. CASE Reconcile
  BY <1>12 DEF TypeOK, Await, provider, Reconcile
<1>13. CASE Store
  BY <1>13 DEF TypeOK, Await, provider, Store
<1>14. CASE Cancelled \/ LetGo \/ CloseOuter \/ CloseTee
  BY <1>14 DEF TypeOK, Await, Dropped, provider, LeftBehind, Cancelled, LetGo, CloseOuter, CloseTee
<1>15. CASE Disconnect
  BY <1>15 DEF TypeOK, Await, provider, Disconnect
<1>16. CASE UNCHANGED vars
  BY <1>16 DEF TypeOK, vars, provider
<1> QED  BY <1>1, <1>2, <1>3, <1>4, <1>5, <1>6, <1>7, <1>8, <1>9, <1>10, <1>11, <1>12, <1>13, <1>14, <1>15, <1>16 DEF Next, Provide, Proxy, Leave

(* What was sent and what the flags say of it.  A call is made only with   *)
(* nothing sent, so the tag of everything sent stays the current call's.   *)
LEMMA FlagsStep ==
    ASSUME TypeOK, FlagsAgree, OneAnswer, [Next]_vars
    PROVE  FlagsAgree' /\ OneAnswer'
<1>1. CASE Open
  BY <1>1 DEF FlagsAgree, OneAnswer, TypeOK, provider, Open
<1>2. CASE Accept
  BY <1>2 DEF FlagsAgree, OneAnswer, TypeOK, provider, Accept
<1>3. CASE TryAgain
  BY <1>3 DEF FlagsAgree, OneAnswer, TypeOK, provider, TryAgain, MayTryAgain
<1>4. CASE Stream
  <2>1. PICK what \in {"text", "usage", "finish"} : Yield(what, "body")
    BY <1>4 DEF Stream
  <2>2. what \in ChunkKind /\ "body" \in Continuation
    BY DEF ChunkKind, Continuation
  <2> QED  BY <1>4, <2>1, <2>2, YieldFacts DEF FlagsAgree, OneAnswer, TypeOK, Stream
<1>5. CASE Fail
  <2>1. PICK then \in {"closing", "end"} : Yield("error", then)
    BY <1>5 DEF Fail
  <2>2. "error" \in ChunkKind /\ then \in Continuation
    BY DEF ChunkKind, Continuation
  <2> QED  BY <1>5, <2>1, <2>2, YieldFacts DEF FlagsAgree, OneAnswer, TypeOK, Fail
<1>6. CASE EndOfStream
  <2>1. CASE kind = "agent"
    <3>1. Yield("finish", "end") /\ "finish" \in ChunkKind /\ "end" \in Continuation
      BY <1>6, <2>1 DEF EndOfStream, ChunkKind, Continuation
    <3> QED  BY <1>6, <2>1, <3>1, YieldFacts DEF FlagsAgree, OneAnswer, TypeOK, EndOfStream
  <2>2. CASE kind # "agent"
    <3>1. Finalize(acc) /\ acc.finished \in BOOLEAN /\ acc.errored \in BOOLEAN
      BY <1>6, <2>2 DEF EndOfStream, TypeOK
    <3> QED  BY <1>6, <2>2, <3>1, FinalizeFacts DEF FlagsAgree, OneAnswer, TypeOK, EndOfStream
  <2> QED  BY <2>1, <2>2
<1>7. CASE Close
  <2>1. Finalize(acc) /\ acc.finished \in BOOLEAN /\ acc.errored \in BOOLEAN
    BY <1>7 DEF Close, TypeOK
  <2> QED  BY <1>7, <2>1, FinalizeFacts DEF FlagsAgree, OneAnswer, TypeOK, Close
<1>8. CASE CloseFails
  <2>1. Yield("error", "end") /\ "error" \in ChunkKind /\ "end" \in Continuation
    BY <1>8 DEF CloseFails, ChunkKind, Continuation
  <2> QED  BY <1>8, <2>1, YieldFacts DEF FlagsAgree, OneAnswer, TypeOK, CloseFails
<1>9. CASE Reopen
  BY <1>9 DEF FlagsAgree, OneAnswer, TypeOK, provider, Reopen, MayReopen, Escapes
<1>10. CASE GiveUp
  <2>1. Yield("terminal", "end") /\ "terminal" \in ChunkKind /\ "end" \in Continuation
    BY <1>10 DEF GiveUp, ChunkKind, Continuation
  <2> QED  BY <1>10, <2>1, YieldFacts DEF FlagsAgree, OneAnswer, TypeOK, GiveUp, Escapes
<1>11. CASE Resume
  <2>1. chunk \in Suspended /\ acc' = Parsed(acc, chunk)
    BY <1>11 DEF Resume, TypeOK
  <2>2. /\ acc'.bytes = acc.bytes
        /\ acc'.finished = (acc.finished \/ chunk.kind = "finish")
        /\ acc'.errored = (acc.errored \/ chunk.kind = "error")
        /\ acc'.finished \in BOOLEAN /\ acc'.errored \in BOOLEAN
    BY <2>1, ParsedType DEF TypeOK
  <2>3. CASE chunk.then = "end"
    BY <1>11, <2>1, <2>2, <2>3, FinalizeFacts DEF FlagsAgree, OneAnswer, TypeOK, Resume
  <2>4. CASE chunk.then # "end"
    BY <1>11, <2>1, <2>2, <2>4 DEF FlagsAgree, OneAnswer, TypeOK, Resume, Suspended, Continuation
  <2> QED  BY <2>3, <2>4
<1>12. CASE Reconcile
  BY <1>12 DEF FlagsAgree, OneAnswer, TypeOK, provider, Reconcile
<1>13. CASE Store
  BY <1>13 DEF FlagsAgree, OneAnswer, TypeOK, provider, Store
<1>14. CASE Cancelled \/ LetGo \/ CloseOuter \/ CloseTee
  BY <1>14 DEF FlagsAgree, OneAnswer, TypeOK, provider, Cancelled, LetGo, CloseOuter, CloseTee
<1>15. CASE Disconnect
  BY <1>15 DEF FlagsAgree, OneAnswer, TypeOK, provider, Disconnect
<1>16. CASE UNCHANGED vars
  BY <1>16 DEF vars, provider, FlagsAgree, OneAnswer, TypeOK
<1> QED  BY <1>1, <1>2, <1>3, <1>4, <1>5, <1>6, <1>7, <1>8, <1>9, <1>10, <1>11, <1>12, <1>13, <1>14, <1>15, <1>16 DEF Next, Provide, Proxy, Leave

(* Each attempt of stream_with_retry makes at most the provider's own      *)
(* number of calls; an agent makes none after its first.                   *)
LEMMA CallsStep ==
    ASSUME TypeOK, CallsCounted, CallsBounded, [Next]_vars
    PROVE  CallsCounted' /\ CallsBounded'
<1>0. /\ calls \in Nat /\ tries \in 0..(ProviderRetries + 1) /\ attempts \in Nat
      /\ ProviderRetries \in Nat
      /\ (attempts - 1) * (ProviderRetries + 1) \in Nat
      /\ attempts * (ProviderRetries + 1)
            = (attempts - 1) * (ProviderRetries + 1) + (ProviderRetries + 1)
      /\ (attempts - 1) * (ProviderRetries + 1) + (ProviderRetries + 1)
            <= (MaxRetries + 1) * (ProviderRetries + 1)
      /\ (MaxRetries + 1) * (ProviderRetries + 1) \in Nat
  <2>1. /\ MaxRetries \in Nat /\ ProviderRetries \in Nat /\ attempts \in 1..(MaxRetries + 1)
    BY StreamAssumption DEF TypeOK
  <2>2. \A x, y \in Nat : x * y \in Nat
    OBVIOUS
  <2>3. /\ (attempts - 1) * (ProviderRetries + 1) \in Nat
        /\ attempts * (ProviderRetries + 1)
              = (attempts - 1) * (ProviderRetries + 1) + (ProviderRetries + 1)
        /\ (attempts - 1) * (ProviderRetries + 1) + (ProviderRetries + 1)
              <= (MaxRetries + 1) * (ProviderRetries + 1)
    BY <2>1, Budget
  <2>4. (MaxRetries + 1) * (ProviderRetries + 1) \in Nat
    BY <2>1, <2>2
  <2> QED  BY <2>1, <2>3, <2>4 DEF TypeOK
<1>1. CASE Open
  <2>1. /\ attempts' = attempts /\ kind' = kind /\ pc' = "connect" /\ calls' = calls + 1
        /\ tries' = 1
    BY <1>1 DEF Open, MayTryAgain
  <2>2. CASE kind = "agent"
    BY <1>0, <1>1, <2>1, <2>2 DEF CallsCounted, CallsBounded, Open, MayTryAgain
  <2>3. CASE kind # "agent"
    <3>1. calls' <= (attempts - 1) * (ProviderRetries + 1) + tries'
      BY <1>0, <1>1, <2>1, <2>3 DEF CallsCounted, Open
    <3>2. tries' <= ProviderRetries + 1 /\ tries' \in Nat
      BY <1>0, <2>1
    <3> QED  BY <1>0, <2>1, <2>3, <3>1, <3>2 DEF CallsCounted, CallsBounded
  <2> QED  BY <2>2, <2>3
<1>2. CASE Accept
  <2>1. UNCHANGED <<kind, attempts, tries, calls>> /\ pc # "start" /\ pc' # "start"
    BY <1>2 DEF Accept, provider
  <2> QED  BY <2>1 DEF CallsCounted, CallsBounded
<1>3. CASE TryAgain
  <2>1. /\ attempts' = attempts /\ kind' = kind /\ pc' = "connect" /\ calls' = calls + 1
        /\ tries' = tries + 1 /\ tries <= ProviderRetries /\ kind # "agent" /\ pc # "start"
    BY <1>3 DEF TryAgain, MayTryAgain
  <2>2. CASE kind = "agent"
    BY <1>0, <1>3, <2>1, <2>2 DEF CallsCounted, CallsBounded, TryAgain, MayTryAgain
  <2>3. CASE kind # "agent"
    <3>1. calls' <= (attempts - 1) * (ProviderRetries + 1) + tries'
      BY <1>0, <1>3, <2>1, <2>3 DEF CallsCounted, TryAgain
    <3>2. tries' <= ProviderRetries + 1 /\ tries' \in Nat
      BY <1>0, <2>1
    <3> QED  BY <1>0, <2>1, <2>3, <3>1, <3>2 DEF CallsCounted, CallsBounded
  <2> QED  BY <2>2, <2>3
<1>4. CASE Stream
  <2>1. UNCHANGED <<kind, attempts, tries, calls>> /\ pc # "start" /\ pc' # "start"
    BY <1>4 DEF Stream, provider, Yield
  <2> QED  BY <2>1 DEF CallsCounted, CallsBounded
<1>5. CASE Fail
  <2>1. UNCHANGED <<kind, attempts, tries, calls>> /\ pc # "start" /\ pc' # "start"
    BY <1>5 DEF Fail, provider, Yield
  <2> QED  BY <2>1 DEF CallsCounted, CallsBounded
<1>6. CASE EndOfStream
  <2>1. UNCHANGED <<kind, attempts, tries, calls>> /\ pc # "start" /\ pc' # "start"
    BY <1>6 DEF EndOfStream, provider, Yield, Finalize
  <2> QED  BY <2>1 DEF CallsCounted, CallsBounded
<1>7. CASE Close
  <2>1. UNCHANGED <<kind, attempts, tries, calls>> /\ pc # "start" /\ pc' # "start"
    BY <1>7 DEF Close, provider, Finalize
  <2> QED  BY <2>1 DEF CallsCounted, CallsBounded
<1>8. CASE CloseFails
  <2>1. UNCHANGED <<kind, attempts, tries, calls>> /\ pc # "start" /\ pc' # "start"
    BY <1>8 DEF CloseFails, provider, Yield
  <2> QED  BY <2>1 DEF CallsCounted, CallsBounded
<1>9. CASE Reopen
  <2>1. kind # "agent" /\ pc \in {"start", "connect", "body", "closing"}
    BY <1>9 DEF Reopen, Escapes
  <2>2. attempts' = attempts + 1 /\ pc' = "start" /\ calls' = calls /\ kind' = kind
    BY <1>9 DEF Reopen
  <2>3. attempts * (ProviderRetries + 1)
           = (attempts - 1) * (ProviderRetries + 1) + (ProviderRetries + 1)
    BY <1>0
  <2>4. calls <= attempts * (ProviderRetries + 1)
    BY <1>0, <2>1, <2>3 DEF CallsCounted
  <2>5. (attempts' - 1) * (ProviderRetries + 1) = attempts * (ProviderRetries + 1)
    BY <1>0, <2>2
  <2> QED  BY <1>0, <2>1, <2>2, <2>4, <2>5 DEF CallsCounted, CallsBounded
<1>10. CASE GiveUp
  <2>1. UNCHANGED <<kind, attempts, tries, calls>> /\ pc' = "yielded" /\ kind # "agent"
    BY <1>10 DEF GiveUp, Escapes, Yield
  <2>2. calls' <= (attempts' - 1) * (ProviderRetries + 1) + tries'
    BY <1>0, <2>1 DEF CallsCounted
  <2> QED  BY <2>1, <2>2 DEF CallsCounted, CallsBounded
<1>11. CASE Resume
  <2>1. /\ UNCHANGED <<kind, attempts, tries, calls>>
        /\ pc # "start" /\ pc' # "start"
    BY <1>11 DEF Resume, Finalize, TypeOK, Suspended, Continuation
  <2> QED  BY <2>1 DEF CallsCounted, CallsBounded
<1>12. CASE Reconcile
  <2>1. UNCHANGED <<kind, attempts, tries, calls>> /\ pc # "start" /\ pc' # "start"
    BY <1>12 DEF Reconcile, provider
  <2> QED  BY <2>1 DEF CallsCounted, CallsBounded
<1>13. CASE Store
  <2>1. UNCHANGED <<kind, attempts, tries, calls>> /\ pc # "start" /\ pc' # "start"
    BY <1>13 DEF Store, provider
  <2> QED  BY <2>1 DEF CallsCounted, CallsBounded
<1>14. CASE Cancelled \/ LetGo \/ CloseOuter \/ CloseTee
  <2>1. UNCHANGED <<kind, attempts, tries, calls>> /\ pc # "start" /\ pc' # "start"
    BY <1>14 DEF Cancelled, LetGo, CloseOuter, CloseTee, provider
  <2> QED  BY <2>1 DEF CallsCounted, CallsBounded
<1>15. CASE Disconnect
  <2>1. UNCHANGED <<kind, pc, attempts, tries, calls>>
    BY <1>15 DEF Disconnect, provider
  <2> QED  BY <2>1 DEF CallsCounted, CallsBounded
<1>16. CASE UNCHANGED vars
  BY <1>16 DEF vars, provider, CallsCounted, CallsBounded
<1> QED  BY <1>1, <1>2, <1>3, <1>4, <1>5, <1>6, <1>7, <1>8, <1>9, <1>10, <1>11, <1>12, <1>13, <1>14, <1>15, <1>16 DEF Next, Provide, Proxy, Leave

(* The breaker learns what the client was sent: between yields the         *)
(* accumulator has seen all of it.                                         *)
LEMMA OutcomeStep ==
    ASSUME TypeOK, AccumulatorTrue, OutcomeMatchesStream, [Next]_vars
    PROVE  AccumulatorTrue' /\ OutcomeMatchesStream'
<1> USE DEF Dropped
<1>1. CASE Open
  BY <1>1 DEF AccumulatorTrue, OutcomeMatchesStream, TypeOK, provider, Open, Sent
<1>2. CASE Accept
  BY <1>2 DEF AccumulatorTrue, OutcomeMatchesStream, TypeOK, provider, Accept, Sent
<1>3. CASE TryAgain
  BY <1>3 DEF AccumulatorTrue, OutcomeMatchesStream, TypeOK, provider, TryAgain, Sent
<1>4. CASE Stream
  <2>1. PICK what \in {"text", "usage", "finish"} : Yield(what, "body")
    BY <1>4 DEF Stream
  <2>2. what \in ChunkKind /\ "body" \in Continuation
    BY DEF ChunkKind, Continuation
  <2> QED  BY <1>4, <2>1, <2>2, YieldFacts DEF AccumulatorTrue, OutcomeMatchesStream, TypeOK, Stream, ChunkKind
<1>5. CASE Fail
  <2>1. PICK then \in {"closing", "end"} : Yield("error", then)
    BY <1>5 DEF Fail
  <2>2. "error" \in ChunkKind /\ then \in Continuation
    BY DEF ChunkKind, Continuation
  <2> QED  BY <1>5, <2>1, <2>2, YieldFacts DEF AccumulatorTrue, OutcomeMatchesStream, TypeOK, Fail, ChunkKind
<1>6. CASE EndOfStream
  <2>1. CASE kind = "agent"
    <3>1. Yield("finish", "end") /\ "finish" \in ChunkKind /\ "end" \in Continuation
      BY <1>6, <2>1 DEF EndOfStream, ChunkKind, Continuation
    <3> QED  BY <1>6, <2>1, <3>1, YieldFacts DEF AccumulatorTrue, OutcomeMatchesStream, TypeOK, EndOfStream, ChunkKind
  <2>2. CASE kind # "agent"
    <3>1. Finalize(acc) /\ acc.finished \in BOOLEAN /\ acc.errored \in BOOLEAN
      BY <1>6, <2>2 DEF EndOfStream, TypeOK
    <3> QED  BY <1>6, <2>2, <3>1, FinalizeFacts DEF AccumulatorTrue, OutcomeMatchesStream, TypeOK, EndOfStream, ChunkKind, Sent
  <2> QED  BY <2>1, <2>2
<1>7. CASE Close
  <2>1. Finalize(acc) /\ acc.finished \in BOOLEAN /\ acc.errored \in BOOLEAN
    BY <1>7 DEF Close, TypeOK
  <2> QED  BY <1>7, <2>1, FinalizeFacts DEF AccumulatorTrue, OutcomeMatchesStream, TypeOK, Close, Sent
<1>8. CASE CloseFails
  <2>1. Yield("error", "end") /\ "error" \in ChunkKind /\ "end" \in Continuation
    BY <1>8 DEF CloseFails, ChunkKind, Continuation
  <2> QED  BY <1>8, <2>1, YieldFacts DEF AccumulatorTrue, OutcomeMatchesStream, TypeOK, CloseFails, ChunkKind
<1>9. CASE Reopen
  BY <1>9 DEF AccumulatorTrue, OutcomeMatchesStream, TypeOK, provider, Reopen, Escapes, Sent
<1>10. CASE GiveUp
  <2>1. Yield("terminal", "end") /\ "terminal" \in ChunkKind /\ "end" \in Continuation
    BY <1>10 DEF GiveUp, ChunkKind, Continuation
  <2> QED  BY <1>10, <2>1, YieldFacts DEF AccumulatorTrue, OutcomeMatchesStream, TypeOK, GiveUp, Escapes, ChunkKind
<1>11. CASE Resume
  <2>1. chunk \in Suspended /\ acc' = Parsed(acc, chunk)
    BY <1>11 DEF Resume, TypeOK
  <2>2. /\ acc'.bytes = acc.bytes
        /\ acc'.finished = (acc.finished \/ chunk.kind = "finish")
        /\ acc'.errored = (acc.errored \/ chunk.kind = "error")
        /\ acc'.finished \in BOOLEAN /\ acc'.errored \in BOOLEAN
    BY <2>1, ParsedType DEF TypeOK
  <2>3. CASE chunk.then = "end"
    BY <1>11, <2>1, <2>2, <2>3, FinalizeFacts DEF AccumulatorTrue, OutcomeMatchesStream, TypeOK, Resume, Sent
  <2>4. CASE chunk.then # "end"
    BY <1>11, <2>1, <2>2, <2>4 DEF AccumulatorTrue, OutcomeMatchesStream, TypeOK, Resume, Suspended, Continuation, Sent
  <2> QED  BY <2>3, <2>4
<1>12. CASE Reconcile
  BY <1>12 DEF AccumulatorTrue, OutcomeMatchesStream, TypeOK, provider, Reconcile, Sent
<1>13. CASE Store
  BY <1>13 DEF AccumulatorTrue, OutcomeMatchesStream, TypeOK, provider, Store, Sent
<1>14. CASE Cancelled \/ LetGo \/ CloseOuter \/ CloseTee
  BY <1>14 DEF AccumulatorTrue, OutcomeMatchesStream, TypeOK, provider, Sent,
               Cancelled, LetGo, CloseOuter, CloseTee
<1>15. CASE Disconnect
  BY <1>15 DEF AccumulatorTrue, OutcomeMatchesStream, TypeOK, provider, Disconnect, Sent
<1>16. CASE UNCHANGED vars
  BY <1>16 DEF vars, provider, Sent, AccumulatorTrue, OutcomeMatchesStream, TypeOK
<1> QED  BY <1>1, <1>2, <1>3, <1>4, <1>5, <1>6, <1>7, <1>8, <1>9, <1>10, <1>11, <1>12, <1>13, <1>14, <1>15, <1>16 DEF Next, Provide, Proxy, Leave

-----------------------------------------------------------------------------
(* The conjunction holds in every reachable state.                         *)
THEOREM Inductive == Spec => []IInv
<1>1. Init => IInv
  <2> SUFFICES ASSUME Init PROVE IInv
    OBVIOUS
  <2>1. TypeOK
    <3>1. /\ kind \in Kinds /\ pc \in Await
          /\ attempts \in 1..(MaxRetries + 1) /\ tries \in 0..(ProviderRetries + 1)
          /\ calls \in Nat
      BY StreamAssumption DEF Init, Await
    <3>0. /\ caching \in BOOLEAN /\ yielded \in BOOLEAN
          /\ links \subseteq 1..calls
      BY DEF Init
    <3>2. /\ chunk \in Suspended \cup {NoChunk}
          /\ pc = "yielded" => chunk \in Suspended
          /\ client \in {"here", "gone"}
          /\ outcome \in {"none", "success", "failure"}
      BY DEF Init
    <3>3. <<>> \in Seq(ChunkAt) /\ <<>> \in Seq(Nat) /\ <<0>> \in Seq(Nat)
      OBVIOUS
    <3>4. acc \in [bytes : BOOLEAN, text : Seq(Nat), finished : BOOLEAN,
                  usage : BOOLEAN, errored : BOOLEAN]
      BY <3>3 DEF Init
    <3>5. stored \in Seq(Nat) /\ out \in Seq(ChunkAt)
      BY <3>3 DEF Init, NoText
    <3> QED  BY <3>0, <3>1, <3>2, <3>4, <3>5 DEF TypeOK
  <2>2. FlagsAgree /\ OneAnswer /\ AccumulatorTrue /\ OutcomeMatchesStream
    BY DEF Init, Dropped, FlagsAgree, OneAnswer, AccumulatorTrue, OutcomeMatchesStream, Sent
  <2>3. CallsCounted /\ CallsBounded
    <3>1. MaxRetries \in Nat /\ ProviderRetries \in Nat
      BY StreamAssumption
    <3>2. \A x, y \in Nat : x * y \in Nat
      OBVIOUS
    <3> QED  BY <3>1, <3>2 DEF Init, CallsCounted, CallsBounded
  <2> QED  BY <2>1, <2>2, <2>3 DEF IInv
<1>2. IInv /\ [Next]_vars => IInv'
  BY TypeStep, FlagsStep, CallsStep, OutcomeStep DEF IInv
<1> QED  BY <1>1, <1>2, PTL DEF Spec

(* Every counter keeps to its retries and every value to its type.         *)
THEOREM TypeCorrect == Spec => []TypeOK
<1>1. IInv => TypeOK
  BY DEF IInv
<1> QED  BY <1>1, Inductive, PTL

(* No client ever receives pieces of two upstream answers, whatever fails  *)
(* and however often either layer retries.                                 *)
THEOREM AnswersNeverMix == Spec => []OneAnswer
<1>1. IInv => OneAnswer
  BY DEF IInv
<1> QED  BY <1>1, Inductive, PTL

(* The nested retries multiply and no more; an agent is invoked once.      *)
THEOREM CallsAreBounded == Spec => []CallsBounded
<1>1. IInv => CallsBounded
  BY DEF IInv
<1> QED  BY <1>1, Inductive, PTL

(* What the breaker is told agrees with what the client was sent.          *)
THEOREM OutcomeIsTrue == Spec => []OutcomeMatchesStream
<1>1. IInv => OutcomeMatchesStream
  BY DEF IInv
<1> QED  BY <1>1, Inductive, PTL

-----------------------------------------------------------------------------
(* The connection, if any, is that of the latest call, and there is none   *)
(* before the first one or after the last, nor when stream_with_retry      *)
(* tells the client that it has caught an exception.                       *)
LinksHeld ==
    /\ links \subseteq {calls}
    /\ pc \in {"start", "reconcile", "store", "done"} => links = {}
    /\ pc \in {"yielded"} \cup Dropped /\ chunk.kind = "terminal" => links = {}

LEMMA LinksStep ==
    ASSUME TypeOK, LinksHeld, [Next]_vars
    PROVE  LinksHeld'
<1> USE DEF LinksHeld, TypeOK, Dropped, provider
<1>1. CASE Open
  BY <1>1 DEF Open
<1>2. CASE Accept
  BY <1>2 DEF Accept
<1>3. CASE TryAgain
  BY <1>3 DEF TryAgain
<1>4. CASE Stream
  BY <1>4 DEF Stream, Yield
<1>5. CASE Fail
  BY <1>5 DEF Fail, Yield
<1>6. CASE EndOfStream
  BY <1>6 DEF EndOfStream, Yield
<1>7. CASE Close \/ CloseFails
  BY <1>7 DEF Close, CloseFails, Yield
<1>8. CASE Reopen
  BY <1>8 DEF Reopen, LeftBehind
<1>9. CASE GiveUp
  BY <1>9 DEF GiveUp, LeftBehind, Yield
<1>10. CASE Resume
  <2>1. CASE chunk.then = "end"
    BY <1>10, <2>1 DEF Resume
  <2>2. CASE chunk.then # "end"
    <3>1. chunk \in Suspended /\ pc' = chunk.then /\ links' = links /\ calls' = calls
      BY <1>10, <2>2 DEF Resume
    <3> QED  BY <2>2, <3>1 DEF Suspended, Continuation
  <2> QED  BY <2>1, <2>2
<1>11. CASE Reconcile \/ Store \/ Disconnect
  BY <1>11 DEF Reconcile, Store, Disconnect
<1>12. CASE Cancelled \/ LetGo \/ CloseOuter \/ CloseTee
  BY <1>12 DEF Cancelled, LetGo, CloseOuter, CloseTee, LeftBehind
<1>13. CASE UNCHANGED vars
  BY <1>13 DEF vars
<1> QED  BY <1>1, <1>2, <1>3, <1>4, <1>5, <1>6, <1>7, <1>8, <1>9, <1>10, <1>11, <1>12, <1>13
            DEF Next, Provide, Proxy, Leave

(* However the two layers' retries, failures and disconnects fall, a       *)
(* request never holds two connections, and none while it waits for Redis. *)
THEOREM OneConnectionHeld == Spec => []OneConnection
<1>1. Init => LinksHeld
  BY DEF Init, Dropped, LinksHeld
<1>2. TypeOK /\ LinksHeld /\ [Next]_vars => LinksHeld'
  BY LinksStep
<1>3. LinksHeld => OneConnection
  <2> SUFFICES ASSUME LinksHeld PROVE OneConnection
    OBVIOUS
  <2>1. links = {} \/ links = {calls}
    BY DEF LinksHeld
  <2>2. Cardinality({}) = 0 /\ Cardinality({calls}) = 1
    BY FS_EmptySet, FS_Singleton
  <2>3. Cardinality(links) <= 1
    BY <2>1, <2>2
  <2> QED  BY <2>3 DEF LinksHeld, OneConnection
<1> QED  BY <1>1, <1>2, <1>3, TypeCorrect, PTL DEF Spec

-----------------------------------------------------------------------------
IsError(e) == e.kind \in {"error", "terminal"}

(* Where the provider might still send an answer, no error was sent.       *)
ErrorsAtTheEnd ==
    /\ ErrorsComeLast
    /\ pc \in {"start", "connect", "body"} \/ (pc = "yielded" /\ chunk.then = "body")
          => \A i \in 1..Len(out) : ~IsError(out[i])

(* A chunk may follow what was sent if it is an error or nothing was one.  *)
LEMMA YieldErrors ==
    ASSUME TypeOK, ErrorsComeLast, NEW what \in ChunkKind, NEW then \in Continuation,
           Yield(what, then),
           what \in {"error", "terminal"} \/ \A i \in 1..Len(out) : ~IsError(out[i]),
           then = "body" => /\ what \notin {"error", "terminal"}
                            /\ \A i \in 1..Len(out) : ~IsError(out[i])
    PROVE  ErrorsAtTheEnd'
<1>1. calls \in Nat /\ out \in Seq(ChunkAt)
  BY DEF TypeOK
<1> DEFINE e == [kind |-> what, call |-> calls]
<1>2. e \in ChunkAt /\ e.kind = what
  BY <1>1 DEF ChunkAt
<1>3. out' = Append(out, e) /\ pc' = "yielded" /\ chunk'.then = then
  BY DEF Yield
<1> HIDE DEF e
<1>4. /\ Len(out') = Len(out) + 1
      /\ out'[Len(out) + 1] = e
      /\ \A i \in 1..Len(out) : out'[i] = out[i]
      /\ Len(out) \in Nat
  BY <1>1, <1>2, <1>3
<1>5. ErrorsComeLast'
  BY <1>2, <1>4 DEF ErrorsComeLast, IsError
<1>6. then = "body" => \A i \in 1..Len(out') : ~IsError(out'[i])
  BY <1>2, <1>4 DEF IsError
<1> QED  BY <1>3, <1>5, <1>6 DEF ErrorsAtTheEnd

LEMMA ErrorsStep ==
    ASSUME TypeOK, FlagsAgree, ErrorsAtTheEnd, [Next]_vars
    PROVE  ErrorsAtTheEnd'
<1> USE DEF ErrorsAtTheEnd
<1>1. CASE Open \/ Accept \/ TryAgain
  BY <1>1 DEF Open, Accept, TryAgain, provider, ErrorsComeLast
<1>2. CASE Stream
  <2>1. PICK what \in {"text", "usage", "finish"} : Yield(what, "body")
    BY <1>2 DEF Stream
  <2> QED  BY <1>2, <2>1, YieldErrors DEF Stream, ChunkKind, Continuation
<1>3. CASE Fail
  <2>1. PICK then \in {"closing", "end"} : Yield("error", then)
    BY <1>3 DEF Fail
  <2> QED  BY <2>1, YieldErrors DEF ChunkKind, Continuation
<1>4. CASE EndOfStream
  <2>1. CASE kind = "agent"
    BY <1>4, <2>1, YieldErrors DEF EndOfStream, ChunkKind, Continuation
  <2>2. CASE kind # "agent"
    <3>1. Finalize(acc) /\ out' = out
      BY <1>4, <2>2 DEF EndOfStream
    <3> QED  BY <3>1 DEF Finalize, ErrorsComeLast
  <2> QED  BY <2>1, <2>2
<1>5. CASE Close
  BY <1>5 DEF Close, Finalize, ErrorsComeLast
<1>6. CASE CloseFails
  BY <1>6, YieldErrors DEF CloseFails, ChunkKind, Continuation
<1>7. CASE Reopen
  <2>1. out = <<>> \/ pc \in {"start", "connect", "body"}
    BY <1>7 DEF Reopen, Escapes, MayReopen, FlagsAgree
  <2>2. \A i \in 1..Len(out) : ~IsError(out[i])
    BY <2>1
  <2> QED  BY <1>7, <2>2 DEF Reopen, ErrorsComeLast
<1>8. CASE GiveUp
  BY <1>8, YieldErrors DEF GiveUp, ChunkKind, Continuation
<1>9. CASE Resume
  <2>1. out' = out
    BY <1>9 DEF Resume
  <2>2. CASE chunk.then = "end"
    BY <1>9, <2>1, <2>2 DEF Resume, Finalize, ErrorsComeLast
  <2>3. CASE chunk.then # "end"
    <3>1. pc = "yielded" /\ pc' = chunk.then /\ chunk \in Suspended
      BY <1>9, <2>3 DEF Resume, TypeOK
    <3> QED  BY <2>1, <2>3, <3>1 DEF Suspended, Continuation, ErrorsComeLast
  <2> QED  BY <2>2, <2>3
<1>10. CASE Reconcile \/ Store \/ Leave
  BY <1>10 DEF Reconcile, Store, Leave, Disconnect, Cancelled, LetGo, CloseOuter, CloseTee,
               provider, ErrorsComeLast
<1>11. CASE UNCHANGED vars
  BY <1>11 DEF vars, ErrorsComeLast
<1> QED  BY <1>1, <1>2, <1>3, <1>4, <1>5, <1>6, <1>7, <1>8, <1>9, <1>10, <1>11
            DEF Next, Provide, Proxy, Leave

(* After an error, of whichever layer, the client is sent no more of the   *)
(* answer: only that another error occurred.                               *)
THEOREM NothingAfterErrors == Spec => []ErrorsComeLast
<1>1. Init => ErrorsAtTheEnd
  BY DEF Init, ErrorsAtTheEnd, ErrorsComeLast
<1>2. IInv /\ ErrorsAtTheEnd /\ [Next]_vars => ErrorsAtTheEnd'
  BY ErrorsStep DEF IInv
<1>3. ErrorsAtTheEnd => ErrorsComeLast
  BY DEF ErrorsAtTheEnd
<1> QED  BY <1>1, <1>2, <1>3, Inductive, PTL DEF Spec

-----------------------------------------------------------------------------
(* The accumulator's text.  It is one chunk behind what was sent, at most, *)
(* and the cache is given it when it has caught up.                        *)

Extended(text, e) == IF e.kind = "text" THEN Append(text, e.call) ELSE text

TextBehind ==
    /\ pc \in {"start", "connect", "body", "closing", "reconcile", "store"} =>
          CarriedBy(acc.text, out)
    /\ pc = "yielded" => CarriedBy(Extended(acc.text, chunk), out)
    /\ pc \in {"reconcile", "store"} => outcome = "success"
    /\ stored # NoText =>
          pc = "done" /\ CarriedBy(stored, out) /\ outcome = "success"

(* A chunk more on the stream is the text it carries, if any, more.        *)
LEMMA CarriedByAppend ==
    ASSUME NEW text \in Seq(Nat), NEW stream \in Seq(ChunkAt), NEW e \in ChunkAt,
           CarriedBy(text, stream)
    PROVE  CarriedBy(Extended(text, e), Append(stream, e))
<1>1. PICK n \in Nat : n = Len(text)
  OBVIOUS
<1>2. PICK m \in Nat : m = Len(stream)
  OBVIOUS
<1> DEFINE longer == Append(stream, e)
<1>3. /\ longer \in Seq(ChunkAt) /\ Len(longer) = m + 1 /\ longer[m + 1] = e
      /\ \A k \in 1..m : longer[k] = stream[k]
  BY <1>2, AppendProperties
<1> HIDE DEF longer
<1>4. PICK p \in [1..n -> 1..m] :
             /\ \A i, j \in 1..n : i < j => p[i] < p[j]
             /\ \A i \in 1..n : text[i] = stream[p[i]].call
             /\ \A k \in 1..m : stream[k].kind = "text" <=> \E i \in 1..n : p[i] = k
  BY <1>1, <1>2 DEF CarriedBy
<1>5. CASE e.kind = "text"
  <2> DEFINE t == Append(text, e.call)
  <2>1. /\ Len(t) = n + 1 /\ t[n + 1] = e.call
        /\ \A i \in 1..n : t[i] = text[i]
    <3>1. e.call \in Nat
      BY DEF ChunkAt
    <3> QED BY <1>1, <3>1, AppendProperties
  <2> HIDE DEF t
  <2>2. PICK q \in [1..n + 1 -> 1..m + 1] :
               q[n + 1] = m + 1 /\ \A i \in 1..n : q[i] = p[i]
    <3> DEFINE f == [i \in 1..n + 1 |-> IF i <= n THEN p[i] ELSE m + 1]
    <3>1. f \in [1..n + 1 -> 1..m + 1] /\ f[n + 1] = m + 1 /\ \A i \in 1..n : f[i] = p[i]
      OBVIOUS
    <3> QED BY <3>1
  <2>3. \A i \in 1..n : p[i] \in 1..m
    OBVIOUS
  <2>4. ASSUME NEW i \in 1..n + 1, NEW j \in 1..n + 1, i < j PROVE q[i] < q[j]
    <3>1. i \in 1..n /\ q[i] = p[i] /\ p[i] \in 1..m
      BY <2>2, <2>3, <2>4
    <3>2. CASE j \in 1..n
      <4>1. q[j] = p[j] /\ p[i] < p[j]
        BY <1>4, <2>2, <2>4, <3>1, <3>2
      <4> QED BY <3>1, <4>1
    <3>3. CASE j = n + 1
      BY <2>2, <3>1, <3>3
    <3> QED BY <3>2, <3>3
  <2>5. ASSUME NEW i \in 1..n + 1 PROVE t[i] = longer[q[i]].call
    <3>1. CASE i \in 1..n
      <4>1. q[i] = p[i] /\ p[i] \in 1..m /\ t[i] = text[i]
        BY <2>1, <2>2, <2>3, <3>1
      <4>2. longer[p[i]] = stream[p[i]] /\ text[i] = stream[p[i]].call
        BY <1>3, <1>4, <3>1, <4>1
      <4> QED BY <4>1, <4>2
    <3>2. CASE i = n + 1
      BY <1>3, <2>1, <2>2, <3>2
    <3> QED BY <3>1, <3>2
  <2>6. ASSUME NEW k \in 1..m + 1
        PROVE  longer[k].kind = "text" <=> \E i \in 1..n + 1 : q[i] = k
    <3>1. CASE k = m + 1
      BY <1>3, <1>5, <2>2, <3>1
    <3>2. CASE k \in 1..m
      <4>1. longer[k].kind = "text" <=> \E i \in 1..n : p[i] = k
        BY <1>3, <1>4, <3>2
      <4>2. (\E i \in 1..n + 1 : q[i] = k) <=> \E i \in 1..n : q[i] = k
        BY <2>2, <3>2
      <4> QED BY <2>2, <4>1, <4>2
    <3> QED BY <3>1, <3>2
  <2>7. CarriedBy(t, longer)
    <3>1. q \in [1..Len(t) -> 1..Len(longer)]
      BY <1>3, <2>1
    <3>2. \A i, j \in 1..Len(t) : i < j => q[i] < q[j]
      BY <2>1, <2>4
    <3>3. \A i \in 1..Len(t) : t[i] = longer[q[i]].call
      BY <2>1, <2>5
    <3>4. \A k \in 1..Len(longer) :
             longer[k].kind = "text" <=> \E i \in 1..Len(t) : q[i] = k
      BY <1>3, <2>1, <2>6
    <3> QED BY <3>1, <3>2, <3>3, <3>4, Zenon DEF CarriedBy
  <2> QED BY <1>5, <2>7 DEF Extended, longer, t
<1>6. CASE e.kind # "text"
  <2>1. p \in [1..n -> 1..m + 1] /\ \A i \in 1..n : p[i] \in 1..m
    OBVIOUS
  <2>2. \A i \in 1..n : text[i] = longer[p[i]].call
    BY <1>3, <1>4, <2>1
  <2>3. ASSUME NEW k \in 1..m + 1
        PROVE  longer[k].kind = "text" <=> \E i \in 1..n : p[i] = k
    <3>1. CASE k = m + 1
      BY <1>3, <1>6, <2>1, <3>1
    <3>2. CASE k \in 1..m
      <4>1. longer[k] = stream[k]
        BY <1>3, <3>2
      <4> QED BY <1>4, <3>2, <4>1
    <3> QED BY <3>1, <3>2
  <2>4. CarriedBy(text, longer)
    <3>1. p \in [1..Len(text) -> 1..Len(longer)]
      BY <1>1, <1>3, <2>1
    <3>2. \A i, j \in 1..Len(text) : i < j => p[i] < p[j]
      BY <1>1, <1>4
    <3>3. \A i \in 1..Len(text) : text[i] = longer[p[i]].call
      BY <1>1, <2>2
    <3>4. \A k \in 1..Len(longer) :
             longer[k].kind = "text" <=> \E i \in 1..Len(text) : p[i] = k
      BY <1>1, <1>3, <2>3
    <3> QED BY <3>1, <3>2, <3>3, <3>4, Zenon DEF CarriedBy
  <2> QED BY <1>6, <2>4 DEF Extended, longer
<1> QED BY <1>5, <1>6

(* Sending a chunk leaves the accumulator that one chunk behind.           *)
LEMMA YieldText ==
    ASSUME TypeOK, NEW what \in ChunkKind, NEW then \in Continuation, Yield(what, then),
           CarriedBy(acc.text, out), stored' = stored, stored # NoText => FALSE
    PROVE  TextBehind'
<1> DEFINE e == [kind |-> what, call |-> calls]
<1>1. e \in ChunkAt /\ out \in Seq(ChunkAt) /\ acc.text \in Seq(Nat)
  BY DEF TypeOK, ChunkAt
<1>2. CarriedBy(Extended(acc.text, e), Append(out, e))
  BY <1>1, CarriedByAppend
<1>3. /\ out' = Append(out, e) /\ acc'.text = acc.text /\ pc' = "yielded"
      /\ Extended(acc.text, chunk') = Extended(acc.text, e)
  BY DEF Yield, Extended, TypeOK
<1>4. CarriedBy(Extended(acc.text, chunk'), out')
  BY <1>2, <1>3
<1> QED BY <1>3, <1>4 DEF TextBehind

LEMMA TextStep ==
    ASSUME TypeOK, AccumulatorTrue, TextBehind, [Next]_vars
    PROVE  TextBehind'
<1> USE DEF TextBehind
<1>1. CASE Open \/ Accept \/ TryAgain
  BY <1>1 DEF Open, Accept, TryAgain, provider, AccumulatorTrue
<1>2. CASE Stream
  <2>1. PICK what \in {"text", "usage", "finish"} : Yield(what, "body")
    BY <1>2 DEF Stream
  <2> QED  BY <1>2, <2>1, YieldText DEF Stream, ChunkKind, Continuation
<1>3. CASE Fail
  <2>1. PICK then \in {"closing", "end"} : Yield("error", then)
    BY <1>3 DEF Fail
  <2> QED  BY <1>3, <2>1, YieldText DEF Fail, ChunkKind, Continuation
<1>4. CASE EndOfStream
  <2>1. CASE kind = "agent"
    BY <1>4, <2>1, YieldText DEF EndOfStream, ChunkKind, Continuation
  <2>2. CASE kind # "agent"
    BY <1>4, <2>2 DEF EndOfStream, Finalize, FinishedCleanly
  <2> QED  BY <2>1, <2>2
<1>5. CASE Close
  BY <1>5 DEF Close, Finalize, FinishedCleanly
<1>6. CASE CloseFails
  BY <1>6, YieldText DEF CloseFails, ChunkKind, Continuation
<1>7. CASE Reopen
  BY <1>7 DEF Reopen, Escapes
<1>8. CASE GiveUp
  BY <1>8, YieldText DEF GiveUp, Escapes, ChunkKind, Continuation
<1>9. CASE Resume
  <2>1. /\ acc'.text = Extended(acc.text, chunk) /\ out' = out /\ stored' = stored
        /\ pc = "yielded" /\ chunk \in Suspended
    BY <1>9 DEF Resume, Parsed, Extended, TypeOK
  <2>2. CarriedBy(acc'.text, out') /\ stored' = NoText
    BY <2>1
  <2>3. pc' # "yielded" /\ (pc' \in {"reconcile", "store"} => outcome' = "success")
    BY <1>9, <2>1 DEF Resume, Finalize, FinishedCleanly, Suspended, Continuation
  <2> QED BY <2>2, <2>3
<1>10. CASE Reconcile \/ Leave
  BY <1>10 DEF Reconcile, Leave, Disconnect, Cancelled, LetGo, CloseOuter, CloseTee, provider
<1>11. CASE Store
  BY <1>11 DEF Store
<1>12. CASE UNCHANGED vars
  BY <1>12 DEF vars
<1> QED  BY <1>1, <1>2, <1>3, <1>4, <1>5, <1>6, <1>7, <1>8, <1>9, <1>10, <1>11, <1>12
            DEF Next, Provide, Proxy, Leave

(* What the cache is given is every piece of text the client was sent, in  *)
(* order, of a stream with a finish reason and no error of the provider's  *)
(* (generate.py's store after finished_cleanly, over the accumulator that  *)
(* all attempts share).                                                    *)
THEOREM StoredWasSent == Spec => []StoredIsWhatWasSent
<1>1. Init => TextBehind
  <2> SUFFICES ASSUME Init PROVE CarriedBy(acc.text, out)
    BY DEF Init, TextBehind
  <2>1. /\ acc.text = <<>> /\ out = <<>>
        /\ 1..Len(acc.text) = {} /\ 1..Len(out) = {}
    BY DEF Init
  <2>2. [i \in {} |-> i] \in [1..Len(acc.text) -> 1..Len(out)]
    BY <2>1
  <2> QED BY <2>1, <2>2 DEF CarriedBy
<1>2. IInv /\ TextBehind /\ [Next]_vars => TextBehind'
  BY TextStep DEF IInv
<1>3. IInv /\ TextBehind => StoredIsWhatWasSent
  BY DEF IInv, TextBehind, OutcomeMatchesStream, StoredIsWhatWasSent
<1> QED  BY <1>1, <1>2, <1>3, Inductive, PTL DEF Spec

-----------------------------------------------------------------------------
(***************************************************************************)
(* Translation.  An answer is a line of events, laid end to end; what has  *)
(* been sent, what has been received and what has been taken from the      *)
(* buffer are positions on it.                                             *)
(***************************************************************************)

(* An event of lines without `data:'.  A boundary may swallow it, or not.  *)
Silent(v, f) == v \in Http /\ f.kind \in {"blank", "comment"}

(* What a chunk of v's answer is made of.                                  *)
Alphabet(v) == {NL, Data, Other} \cup Frames(v)

(* s is what v may have sent, and where its parts are.                     *)
Answer(v, s) == TranslationAssumption /\ v \in Vendors /\ s \in Seq(Frames(v))

(* What the assumption says of an event, vendor by vendor.                 *)
LEMMA FrameKinds ==
    ASSUME TranslationAssumption, NEW v \in Vendors, NEW f \in Frames(v)
    PROVE  /\ v \in {"openai", "gemini", "anthropic", "agent"}
           /\ v \in Http => IsSse(f)
           /\ v = "anthropic" => IsSdk(f)
           /\ v = "agent" => IsAgent(f)
           /\ f.text \in Seq(Characters)
           /\ f.finish \in STRING
           /\ f.usage \in {NoUsage} \cup (Nat \X Nat) \cup (Nat \X Nat \X Nat)
           /\ DOMAIN f = {"kind", "text", "finish", "usage"}
<1>1. v \in {"openai", "gemini", "anthropic", "agent"}
  BY DEF TranslationAssumption
<1>2. /\ v \in Http => f \in SseFrames
      /\ v = "anthropic" => f \in SdkFrames
      /\ v = "agent" => f \in AgentFrames
  BY <1>1 DEF Frames, Http
<1>3. /\ v \in Http => IsSse(f)
      /\ v = "anthropic" => IsSdk(f)
      /\ v = "agent" => IsAgent(f)
  BY <1>1, <1>2 DEF TranslationAssumption
<1>4. PICK kinds, usages : f \in Shape(kinds, usages)
                           /\ usages \subseteq (Nat \X Nat) \cup (Nat \X Nat \X Nat)
  BY <1>1, <1>3 DEF IsSse, IsSdk, IsAgent, Http
<1>5. /\ f.text \in Seq(Characters)
      /\ f.finish \in STRING
      /\ f.usage \in {NoUsage} \cup usages
      /\ DOMAIN f = {"kind", "text", "finish", "usage"}
  BY <1>4 DEF Shape
<1> QED
  BY <1>1, <1>3, <1>4, <1>5

(* A payload is no newline and no `data:'.                                 *)
LEMMA BytesDiffer ==
    /\ NL # Data /\ Other # Data
    /\ \A f : DOMAIN f = {"kind", "text", "finish", "usage"} => f # NL /\ f # Data
<1>1. NL.byte # Data.byte /\ Other.byte # Data.byte
  BY DEF NL, Data, Other
<1>2. DOMAIN NL = {"byte"} /\ DOMAIN Data = {"byte"}
  BY DEF NL, Data
<1>3. "kind" \notin {"byte"} /\ "kind" \in {"kind", "text", "finish", "usage"}
  OBVIOUS
<1> QED
  BY <1>1, <1>2, <1>3

(* What travels of an event: silent ones are bare newlines and comments,   *)
(* the others of an http vendor are four units, and an object is one.      *)
LEMMA UnitsForm ==
    ASSUME TranslationAssumption, NEW v \in Vendors, NEW f \in Frames(v)
    PROVE  LET u == Units(v, f) IN
           /\ u \in Seq(Alphabet(v))
           /\ Len(u) \in Nat /\ Len(u) > 0
           /\ v \in Http /\ ~Silent(v, f) =>
                 Len(u) = 4 /\ u[1] = Data /\ u[2] = f /\ u[3] = NL /\ u[4] = NL
           /\ Silent(v, f) => \A m \in DOMAIN u : u[m] # Data
           /\ v \notin Http => Len(u) = 1 /\ u[1] = f
           /\ f # NL /\ f # Data
<1>1. f # NL /\ f # Data
  BY FrameKinds, BytesDiffer
<1>2. NL \in Alphabet(v) /\ Data \in Alphabet(v) /\ Other \in Alphabet(v) /\ f \in Alphabet(v)
  BY DEF Alphabet
<1>3. CASE v \notin Http
  BY <1>1, <1>2, <1>3 DEF Units, Silent
<1>4. CASE v \in Http /\ ~Silent(v, f)
  <2>1. Units(v, f) = <<Data, f, NL, NL>>
    BY <1>4 DEF Units, Silent, Bytes
  <2> QED
    BY <1>1, <1>2, <1>4, <2>1
<1>5. CASE Silent(v, f)
  <2>1. Units(v, f) = <<NL>> \/ Units(v, f) = <<Other, NL>>
    BY <1>5 DEF Units, Silent, Bytes
  <2>2. <<NL>> \in Seq(Alphabet(v)) /\ <<Other, NL>> \in Seq(Alphabet(v))
    BY <1>2
  <2>3. CASE Units(v, f) = <<NL>>
    <3>1. DOMAIN <<NL>> = 1..1 /\ <<NL>>[1] = NL
      OBVIOUS
    <3> QED
      BY <1>1, <1>5, <2>2, <2>3, <3>1, BytesDiffer DEF Silent
  <2>4. CASE Units(v, f) = <<Other, NL>>
    <3>1. DOMAIN <<Other, NL>> = 1..2 /\ <<Other, NL>>[1] = Other /\ <<Other, NL>>[2] = NL
      OBVIOUS
    <3> QED
      BY <1>1, <1>5, <2>2, <2>4, <3>1, BytesDiffer DEF Silent
  <2> QED
    BY <2>1, <2>3, <2>4
<1> QED
  BY <1>3, <1>4, <1>5 DEF Silent

(* Positions are sums, of which FoldTheorems knows how they grow.          *)
LEMMA UpToIsTotal ==
    ASSUME NEW v, NEW s, NEW n \in Nat, NEW i \in 0..n
    PROVE  UpTo(v, s, i) = Total([j \in 1..n |-> Len(Units(v, s[j]))], 1..i)
<1> DEFINE f == [j \in 1..i |-> Len(Units(v, s[j]))]
           g == [j \in 1..n |-> Len(Units(v, s[j]))]
<1>1. UpTo(v, s, i) = Total(f, 1..i)
  <2>1. DOMAIN f = 1..i
    OBVIOUS
  <2>2. SumFunction(f) = Total(f, DOMAIN f)
    BY SumsAreTotals
  <2> QED
    BY <2>1, <2>2 DEF UpTo
<1>2. \A j \in 1..i : f[j] = g[j]
  OBVIOUS
<1>3. IsFiniteSet(1..i)
  BY FS_Interval
<1> HIDE DEF f, g
<1>4. Total(f, 1..i) = Total(g, 1..i)
  BY <1>2, <1>3, TotalOfSame
<1> QED
  BY <1>1, <1>4 DEF g

(* Each event begins where the one before it ends, and has a length.       *)
LEMMA Positions ==
    ASSUME NEW v, NEW s, Answer(v, s)
    PROVE  /\ UpTo(v, s, 0) = 0
           /\ \A i \in 0..Len(s) : UpTo(v, s, i) \in Nat
           /\ \A i \in DOMAIN s :
                 /\ UpTo(v, s, i) = UpTo(v, s, i - 1) + Len(Units(v, s[i]))
                 /\ UpTo(v, s, i - 1) < UpTo(v, s, i)
           /\ \A i, j \in 0..Len(s) : i <= j => UpTo(v, s, i) <= UpTo(v, s, j)
           /\ \A i, j \in 0..Len(s) : i < j => UpTo(v, s, i) < UpTo(v, s, j)
<1> DEFINE n == Len(s)
           g == [j \in 1..n |-> Len(Units(v, s[j]))]
<1>1. n \in Nat /\ DOMAIN s = 1..n
  BY DEF Answer
<1>2. \A i \in 1..n : Len(Units(v, s[i])) \in Nat /\ Len(Units(v, s[i])) > 0
  BY <1>1, UnitsForm DEF Answer
<1>3. \A i \in 0..n : UpTo(v, s, i) = Total(g, 1..i)
  BY <1>1, UpToIsTotal
<1>4. \A i \in 1..n : g[i] = Len(Units(v, s[i]))
  OBVIOUS
<1> HIDE DEF n, g
<1>5. \A i \in 0..n : /\ IsFiniteSet(1..i) /\ \A j \in 1..i : g[j] \in Nat /\ g[j] \in Int
  BY <1>1, <1>2, <1>4, FS_Interval
<1>6. \A i \in 0..n : UpTo(v, s, i) \in Nat
  BY <1>3, <1>5, TotalNatural
<1>7. UpTo(v, s, 0) = 0
  <2>1. 1..0 = {} /\ 0 \in 0..n
    BY <1>1
  <2> QED
    BY <1>3, <2>1, TotalEmpty
<1>8. ASSUME NEW i \in 1..n
      PROVE  /\ UpTo(v, s, i) = UpTo(v, s, i - 1) + Len(Units(v, s[i]))
             /\ UpTo(v, s, i - 1) < UpTo(v, s, i)
  <2>1. i - 1 \in 0..n /\ i \in 0..n /\ i \notin 1..(i - 1) /\ 1..i = (1..(i - 1)) \cup {i}
    BY <1>1
  <2>2. Total(g, (1..(i - 1)) \cup {i}) = Total(g, 1..(i - 1)) + g[i]
    <3>1. IsFiniteSet(1..(i - 1)) /\ (\A j \in 1..(i - 1) : g[j] \in Int) /\ g[i] \in Int
      BY <1>5, <2>1
    <3> QED
      BY <2>1, <3>1, TotalAdds
  <2>3. UpTo(v, s, i) = UpTo(v, s, i - 1) + Len(Units(v, s[i]))
    BY <1>3, <1>4, <2>1, <2>2
  <2> QED
    BY <1>2, <1>6, <2>1, <2>3
<1>9. ASSUME NEW i \in 0..n, NEW j \in 0..n, i <= j
      PROVE  UpTo(v, s, i) <= UpTo(v, s, j)
  <2>1. 1..i \in SUBSET (1..j)
    BY <1>1, <1>9
  <2>2. Total(g, 1..i) <= Total(g, 1..j)
    BY <1>5, <2>1, TotalGrows
  <2> QED
    BY <1>3, <2>2
<1>10. ASSUME NEW i \in 0..n, NEW j \in 0..n, i < j
       PROVE  UpTo(v, s, i) < UpTo(v, s, j)
  <2>1. j \in 1..n /\ j - 1 \in 0..n /\ i <= j - 1
    BY <1>1, <1>10
  <2>2. UpTo(v, s, i) <= UpTo(v, s, j - 1) /\ UpTo(v, s, j - 1) < UpTo(v, s, j)
    BY <1>8, <1>9, <2>1
  <2> QED
    BY <1>6, <2>1, <2>2
<1> QED
  BY <1>1, <1>6, <1>7, <1>8, <1>9, <1>10 DEF n

(* Every position is within one event.                                     *)
LEMMA Located ==
    ASSUME NEW v, NEW s, Answer(v, s), NEW q \in Nat, 0 < q, q <= UpTo(v, s, Len(s))
    PROVE  \E i \in DOMAIN s : \E m \in DOMAIN Units(v, s[i]) : q = UpTo(v, s, i - 1) + m
<1> DEFINE C == {i \in Nat : i <= Len(s) /\ q <= UpTo(v, s, i)}
<1>1. Len(s) \in Nat /\ DOMAIN s = 1..Len(s)
  BY DEF Answer
<1>2. PICK i \in C : \A j \in C : i <= j
  <2>1. C \in SUBSET Nat /\ Len(s) \in C
    BY <1>1
  <2> HIDE DEF C
  <2> QED
    BY <2>1, LeastNumber
<1>3. i \in Nat /\ i <= Len(s) /\ q <= UpTo(v, s, i)
  OBVIOUS
<1>4. i # 0
  BY <1>3, Positions
<1>5. i \in DOMAIN s /\ i - 1 \in 0..Len(s)
  BY <1>1, <1>3, <1>4
<1>6. ~(q <= UpTo(v, s, i - 1))
  <2> SUFFICES ASSUME q <= UpTo(v, s, i - 1) PROVE FALSE
    OBVIOUS
  <2>1. i - 1 \in C
    BY <1>1, <1>5
  <2> HIDE DEF C
  <2> QED
    BY <1>2, <1>3, <2>1
<1>7. /\ UpTo(v, s, i) = UpTo(v, s, i - 1) + Len(Units(v, s[i]))
      /\ UpTo(v, s, i - 1) \in Nat
  BY <1>5, Positions
<1>8. Len(Units(v, s[i])) \in Nat /\ DOMAIN Units(v, s[i]) = 1..Len(Units(v, s[i]))
  BY <1>5, UnitsForm DEF Answer
<1> DEFINE m == q - UpTo(v, s, i - 1)
<1>9. m \in DOMAIN Units(v, s[i]) /\ q = UpTo(v, s, i - 1) + m
  BY <1>3, <1>6, <1>7, <1>8
<1> QED
  BY <1>5, <1>9

-----------------------------------------------------------------------------
(* The invariant.  How much has gone through the buffer.                   *)
Consumed == got - Len(buffer)
Usages == {NoUsage} \cup (Nat \X Nat) \cup (Nat \X Nat \X Nat)
Reasons == {"none", "stop", "max_tokens", "safety", "other"}
Events == [text : Seq(Characters), finish : Reasons, usage : Usages, error : BOOLEAN]
Accumulators ==
    [text : Seq(Characters), finish : Reasons, usage : Usages, errored : BOOLEAN]

Typed ==
    /\ vendor \in Vendors
    /\ said \in Seq(Frames(vendor))
    /\ wire \in Seq(Alphabet(vendor)) /\ buffer \in Seq(Alphabet(vendor))
    /\ got \in Nat /\ held \in Nat
    /\ forwarded \in Seq(Events)
    /\ accumulator \in Accumulators
    /\ upstream \in {"open", "ended", "broken"}
    /\ phase \in {"reading", "done"}
    /\ phase = "done" => upstream # "open"
    /\ ~Sse => buffer = <<>>

(* x is what is at the position q of the answer.                           *)
Placed(v, s, q, x) ==
    \A i \in DOMAIN s : \A m \in DOMAIN Units(v, s[i]) :
        q = UpTo(v, s, i - 1) + m => x = Units(v, s[i])[m]

(* Each unit in the buffer and on the wire is the one that was sent there. *)
InPlace ==
    /\ \A j \in DOMAIN buffer : Placed(vendor, said, Consumed + j, buffer[j])
    /\ \A j \in DOMAIN wire : Placed(vendor, said, got + j, wire[j])
Bounded ==
    /\ Len(buffer) <= got
    /\ got + Len(wire) <= UpTo(vendor, said, Len(said))
    /\ upstream = "open" => got + Len(wire) = UpTo(vendor, said, Len(said))

(* The sdk's first event, and only that, tells of the prompt.              *)
PromptHeld ==
    vendor = "anthropic" =>
        /\ \A i \in DOMAIN said : said[i].kind = "start" <=> i = 1
        /\ got > 0 => held = said[1].usage[1] + said[1].usage[2]

(* Of the events with a payload, the first k are through the buffer, the   *)
(* others are not touched: a boundary never falls into the middle of one.  *)
Parted(k) ==
    \A i \in DOMAIN said :
        ~Silent(vendor, said[i]) =>
            IF i <= k THEN UpTo(vendor, said, i) <= Consumed
            ELSE Consumed <= UpTo(vendor, said, i - 1)

(* What a reader without buffers knows of the first k events.              *)
Texts(s, k) == FlattenSeq([i \in 1..k |-> s[i].text])
Told(s, k) == {i \in 1..k : Telling(s[i])}
Counted(s, k) == {i \in 1..k : s[i].kind # "start" /\ s[i].usage # NoUsage}
Stopped(s, k) == {i \in 1..k : s[i].finish # "none"}
UsageOf(v, s, k) ==
    LET last == IF Counted(s, k) = {} THEN Plain("none") ELSE s[Max(Counted(s, k))]
        start == s[1].usage
        prompt == IF last.usage[1] = 0 THEN start[1] + start[2] ELSE last.usage[1]
    IN  IF last.usage = NoUsage \/ v \in Http THEN last.usage
        ELSE <<prompt, last.usage[2], prompt + last.usage[2]>>

(* What was forwarded and accumulated is what k events say.                *)
Agrees(k) ==
    /\ phase = "reading" => Len(forwarded) = Cardinality(Told(said, k))
    /\ accumulator.text = Texts(said, k)
    /\ accumulator.usage = UsageOf(vendor, said, k)
    /\ (accumulator.finish # "none") =
            IF vendor = "agent" THEN phase = "done" /\ upstream = "ended"
            ELSE Stopped(said, k) # {}
TranslationInvariant ==
    /\ Typed /\ InPlace /\ Bounded /\ PromptHeld
    /\ \E k \in 0..Len(said) : Parted(k) /\ Agrees(k)

-----------------------------------------------------------------------------
(* Silent events say nothing.                                              *)
LEMMA OfSilent ==
    ASSUME TranslationAssumption, NEW v \in Vendors, NEW f \in Frames(v), Silent(v, f)
    PROVE  f.text = <<>> /\ f.finish = "none" /\ f.usage = NoUsage /\ ~Telling(f)
<1>1. f = Plain(f.kind) /\ f.kind \in {"blank", "comment"}
  BY FrameKinds DEF Silent, IsSse
<1>2. Plain(f.kind).text = <<>> /\ Plain(f.kind).finish = "none" /\ Plain(f.kind).usage = NoUsage
  BY DEF Plain, Frame
<1> QED
  BY <1>1, <1>2 DEF Telling

(* Nor do none.                                                            *)
LEMMA NothingSaid ==
    ASSUME NEW s PROVE /\ Told(s, 0) = {} /\ Counted(s, 0) = {} /\ Stopped(s, 0) = {}
                       /\ Texts(s, 0) = <<>>
<1>1. 1..0 = {}
  OBVIOUS
<1>2. [i \in 1..0 |-> s[i].text] = <<>>
  BY <1>1
<1> QED
  BY <1>1, <1>2, FlattenNone DEF Told, Counted, Stopped, Texts

(* The text of one more event.                                             *)
LEMMA TextsNext ==
    ASSUME NEW v, NEW s, Answer(v, s), NEW k \in Nat, k + 1 \in DOMAIN s
    PROVE  Texts(s, k + 1) = Texts(s, k) \o s[k + 1].text
<1> DEFINE f == [i \in 1..(k + 1) |-> s[i].text]
<1>1. 1..(k + 1) \subseteq DOMAIN s
  BY DEF Answer
<1>2. f \in [1..(k + 1) -> Seq(Characters)]
  BY <1>1, FrameKinds DEF Answer
<1>3. [i \in 1..k |-> f[i]] = [i \in 1..k |-> s[i].text] /\ f[k + 1] = s[k + 1].text
  OBVIOUS
<1> HIDE DEF f
<1>4. FlattenSeq(f) = FlattenSeq([i \in 1..k |-> f[i]]) \o f[k + 1]
  BY <1>2, FlattenOneMore
<1> QED
  BY <1>3, <1>4 DEF Texts, f

(* A text is one, by a smallest number of events for which it were none.   *)
LEMMA TextsKind ==
    ASSUME NEW v, NEW s, Answer(v, s), NEW k \in 0..Len(s)
    PROVE  Texts(s, k) \in Seq(Characters)
<1> DEFINE C == {i \in Nat : i <= Len(s) /\ Texts(s, i) \notin Seq(Characters)}
<1> SUFFICES ASSUME Texts(s, k) \notin Seq(Characters) PROVE FALSE
  OBVIOUS
<1>1. Len(s) \in Nat /\ DOMAIN s = 1..Len(s)
  BY DEF Answer
<1>2. PICK i \in C : \A j \in C : i <= j
  <2>1. C \in SUBSET Nat /\ k \in C
    BY <1>1
  <2> HIDE DEF C
  <2> QED
    BY <2>1, LeastNumber
<1>3. i \in Nat /\ i <= Len(s) /\ Texts(s, i) \notin Seq(Characters)
  OBVIOUS
<1>4. i # 0
  <2>1. Texts(s, 0) = <<>> /\ <<>> \in Seq(Characters)
    BY NothingSaid
  <2> QED
    BY <1>3, <2>1
<1>5. /\ i - 1 \in Nat /\ i - 1 <= Len(s) /\ ~(i <= i - 1)
      /\ (i - 1) + 1 = i /\ i \in DOMAIN s
  BY <1>1, <1>3, <1>4
<1>6. Texts(s, i - 1) \in Seq(Characters)
  BY <1>2, <1>5
<1>7. Texts(s, i) = Texts(s, i - 1) \o s[i].text
  <2> DEFINE h == i - 1
  <2>1. h \in Nat /\ h + 1 \in DOMAIN s /\ h + 1 = i
    BY <1>5
  <2> HIDE DEF h
  <2>2. Texts(s, h + 1) = Texts(s, h) \o s[h + 1].text
    BY <2>1, TextsNext
  <2> QED
    BY <2>1, <2>2 DEF h
<1>8. s[i].text \in Seq(Characters)
  BY <1>5, FrameKinds DEF Answer
<1> QED
  BY <1>3, <1>6, <1>7, <1>8

(* Any number of silent events add nothing.                                *)
LEMMA SilenceAdds ==
    ASSUME NEW v, NEW s, Answer(v, s), NEW k \in 0..Len(s), NEW n \in k..Len(s),
           \A i \in (k + 1)..n : Silent(v, s[i])
    PROVE  /\ Told(s, n) = Told(s, k) /\ Stopped(s, n) = Stopped(s, k)
           /\ Texts(s, n) = Texts(s, k)
           /\ UsageOf(v, s, n) = UsageOf(v, s, k)
<1>1. Len(s) \in Nat /\ DOMAIN s = 1..Len(s) /\ k \in Nat /\ n \in Nat /\ k <= n
  BY DEF Answer
<1>2. \A i \in (k + 1)..n : /\ s[i].text = <<>> /\ s[i].finish = "none"
                            /\ s[i].usage = NoUsage /\ ~Telling(s[i])
  BY <1>1, OfSilent DEF Answer
<1>3. \A i \in 1..n : i \notin 1..k => i \in (k + 1)..n
  BY <1>1
<1>4. 1..k \subseteq 1..n
  BY <1>1
<1>5. /\ Told(s, n) = Told(s, k) /\ Stopped(s, n) = Stopped(s, k)
      /\ Counted(s, n) = Counted(s, k)
  BY <1>2, <1>3, <1>4 DEF Told, Stopped, Counted
<1>6. Texts(s, n) = Texts(s, k)
  <2> DEFINE C == {i \in Nat : i \in k..n /\ Texts(s, i) # Texts(s, k)}
  <2> SUFFICES ASSUME Texts(s, n) # Texts(s, k) PROVE FALSE
    OBVIOUS
  <2>1. PICK i \in C : \A j \in C : i <= j
    <3>1. C \in SUBSET Nat /\ n \in C
      BY <1>1
    <3> HIDE DEF C
    <3> QED
      BY <3>1, LeastNumber
  <2>2. i \in k..n /\ Texts(s, i) # Texts(s, k) /\ i # k
    OBVIOUS
  <2>3. i - 1 \in Nat /\ i - 1 \in k..n /\ ~(i <= i - 1) /\ i \in (k + 1)..n
    BY <1>1, <2>2
  <2>4. Texts(s, i - 1) = Texts(s, k)
    BY <2>1, <2>3
  <2>5. (i - 1) + 1 = i /\ i \in DOMAIN s
    BY <1>1, <2>3
  <2>6. Texts(s, i) = Texts(s, i - 1) \o s[i].text
    BY <2>3, <2>5, TextsNext
  <2>7. Texts(s, k) \o <<>> = Texts(s, k)
    BY TextsKind
  <2> QED
    BY <1>2, <2>2, <2>3, <2>4, <2>6, <2>7
<1> QED
  BY <1>5, <1>6 DEF UsageOf

(* What one more event adds to the reader's knowledge.                     *)
LEMMA OneMoreEvent ==
    ASSUME NEW v, NEW s, Answer(v, s), NEW k \in Nat, k + 1 \in DOMAIN s
    PROVE  LET f == s[k + 1] IN
           /\ Cardinality(Told(s, k)) \in Nat
           /\ Cardinality(Told(s, k + 1)) = Cardinality(Told(s, k)) + (IF Telling(f) THEN 1 ELSE 0)
           /\ Stopped(s, k + 1) # {} <=> Stopped(s, k) # {} \/ f.finish # "none"
           /\ UsageOf(v, s, k + 1) =
                 IF f.kind = "start" \/ f.usage = NoUsage THEN UsageOf(v, s, k)
                 ELSE IF v \in Http THEN f.usage
                 ELSE LET p == IF f.usage[1] = 0 THEN s[1].usage[1] + s[1].usage[2]
                               ELSE f.usage[1]
                      IN  <<p, f.usage[2], p + f.usage[2]>>
<1> DEFINE f == s[k + 1]
<1>1. 1..(k + 1) = (1..k) \cup {k + 1} /\ k + 1 \notin 1..k
  OBVIOUS
<1>2. /\ Told(s, k + 1) = IF Telling(f) THEN Told(s, k) \cup {k + 1} ELSE Told(s, k)
      /\ Stopped(s, k + 1) = IF f.finish # "none" THEN Stopped(s, k) \cup {k + 1} ELSE Stopped(s, k)
      /\ Counted(s, k + 1) = IF f.kind = "start" \/ f.usage = NoUsage THEN Counted(s, k)
                             ELSE Counted(s, k) \cup {k + 1}
  BY <1>1 DEF Told, Stopped, Counted
<1>3. IsFiniteSet(Told(s, k)) /\ k + 1 \notin Told(s, k)
  BY FS_Interval, FS_Subset DEF Told
<1>4. /\ Cardinality(Told(s, k)) \in Nat
      /\ Cardinality(Told(s, k + 1)) = Cardinality(Told(s, k)) + (IF Telling(f) THEN 1 ELSE 0)
  BY <1>2, <1>3, FS_CardinalityType, FS_AddElement
<1>5. CASE f.kind = "start" \/ f.usage = NoUsage
  <2>1. UsageOf(v, s, k + 1) = UsageOf(v, s, k)
    BY <1>2, <1>5 DEF UsageOf
  <2> QED
    BY <1>2, <1>4, <1>5, <2>1
<1>6. CASE ~(f.kind = "start" \/ f.usage = NoUsage)
  <2>1. Counted(s, k) \subseteq 1..k
    BY DEF Counted
  <2>2. Max(Counted(s, k + 1)) = k + 1 /\ Counted(s, k + 1) # {}
    BY <1>2, <1>6, <2>1, LargestIsNew
  <2>3. UsageOf(v, s, k + 1) =
          IF v \in Http THEN f.usage
          ELSE LET p == IF f.usage[1] = 0 THEN s[1].usage[1] + s[1].usage[2] ELSE f.usage[1]
               IN  <<p, f.usage[2], p + f.usage[2]>>
    BY <1>6, <2>2 DEF UsageOf
  <2> QED
    BY <1>2, <1>4, <1>6, <2>3
<1> QED
  BY <1>5, <1>6

(* The parts of a neutral event.                                           *)
LEMMA EventForm ==
    ASSUME NEW x \in Seq(Characters), NEW r \in Reasons, NEW u \in Usages,
           NEW e, e = Event(x, r, u)
    PROVE  e \in Events /\ e.text = x /\ e.finish = r /\ e.usage = u /\ ~e.error
BY DEF Event, Events

(* What the gateway makes of an event.                                     *)
Made(f) ==
    IF Sse THEN FromJson(f) ELSE IF vendor = "agent" THEN FromAgent(f) ELSE FromSdk(f)

(* It makes one neutral event of an event that tells something, with its   *)
(* text, its end and its usage, and none of any other.                     *)
LEMMA MadeForm ==
    ASSUME TranslationAssumption, Typed, NEW f \in Frames(vendor)
    PROVE  /\ ~Telling(f) =>
                 /\ Made(f) = <<>>
                 /\ f.text = <<>> /\ f.finish = "none"
                 /\ f.kind = "start" \/ f.usage = NoUsage
           /\ Telling(f) =>
                 /\ f.kind # "start"
                 /\ \E e \in Events :
                       /\ Made(f) = <<e>>
                       /\ e.text = f.text /\ ~e.error
                       /\ (e.finish # "none") = (f.finish # "none")
                       /\ vendor = "agent" => e.finish = "none"
                       /\ e.usage =
                             IF vendor # "anthropic" \/ f.usage = NoUsage THEN f.usage
                             ELSE LET p == IF f.usage[1] = 0 THEN held ELSE f.usage[1]
                                  IN  <<p, f.usage[2], p + f.usage[2]>>
<1>1. vendor \in Vendors
  BY DEF Typed
<1>2. /\ f.text \in Seq(Characters) /\ f.finish \in STRING
      /\ vendor \in {"openai", "gemini", "anthropic", "agent"}
  BY <1>1, FrameKinds
<1>3. /\ FinishReason(f.finish) \in Reasons
      /\ (FinishReason(f.finish) # "none") = (f.finish # "none")
  <2>1. FinishReason(f.finish) = "none" <=> f.finish = "none"
    BY DEF FinishReason
  <2>2. FinishReason(f.finish) \in Reasons
    BY DEF FinishReason, Reasons
  <2> QED
    BY <2>1, <2>2
<1>5. NoUsage \in Usages /\ <<>> \in Seq(Characters) /\ "none" \in Reasons
  BY DEF Usages, Reasons
<1>6. CASE vendor \in Http
  <2>1. IsSse(f)
    BY <1>1, <1>6, FrameKinds
  <2>2. f.usage \in Usages
    BY <1>1, FrameKinds DEF Usages
  <2>3. f.kind \in {"chunk", "bare", "noise", "comment", "blank", "done"}
    BY <2>1 DEF IsSse, Shape
  <2>4. Made(f) = FromJson(f)
    BY <1>6 DEF Made, Sse, Http
  <2>5. CASE f.kind = "chunk"
    <3>1. Made(f) = <<Event(f.text, FinishReason(f.finish), f.usage)>>
      BY <2>4, <2>5 DEF FromJson
    <3> DEFINE e == Event(f.text, FinishReason(f.finish), f.usage)
    <3>2. e \in Events /\ e.text = f.text /\ e.finish = FinishReason(f.finish)
          /\ e.usage = f.usage /\ ~e.error
      BY <1>2, <1>3, <2>2, EventForm
    <3> HIDE DEF e
    <3> QED
      BY <1>3, <1>6, <2>5, <3>1, <3>2 DEF Telling, e, Http
  <2>6. CASE f.kind = "bare"
    <3>0. f.text = <<>> /\ f.finish = "none"
      BY <2>1, <2>6 DEF IsSse, Frame
    <3>1. Made(f) = <<Event(f.text, "none", f.usage)>>
      BY <2>4, <2>6, <3>0 DEF FromJson
    <3> DEFINE e == Event(f.text, "none", f.usage)
    <3>2. e \in Events /\ e.text = f.text /\ e.finish = "none"
          /\ e.usage = f.usage /\ ~e.error
      BY <1>2, <1>5, <2>2, EventForm
    <3> HIDE DEF e
    <3> QED
      BY <1>6, <2>6, <3>0, <3>1, <3>2 DEF Telling, e, Http
  <2>7. CASE f.kind \notin {"chunk", "bare"}
    <3>1. f.text = <<>> /\ f.finish = "none" /\ f.usage = NoUsage
      BY <2>1, <2>7 DEF IsSse, Plain, Frame
    <3> QED
      BY <2>3, <2>4, <2>7, <3>1 DEF Telling, FromJson
  <2> QED
    BY <2>5, <2>6, <2>7
<1>7. CASE vendor = "anthropic"
  <2>1. IsSdk(f)
    BY <1>1, <1>7, FrameKinds
  <2>3. /\ f.kind \in {"start", "text", "thinking", "ping", "delta"}
        /\ f.usage \in {NoUsage} \cup (Nat \X Nat)
    BY <2>1 DEF IsSdk, Shape
  <2>4. Made(f) = FromSdk(f)
    BY <1>7 DEF Made, Sse, Http
  <2>5. CASE f.kind = "text" /\ f.text # <<>>
    <3>0. f.finish = "none" /\ f.usage = NoUsage
      BY <2>1, <2>5 DEF IsSdk
    <3>1. Made(f) = <<Event(f.text, "none", NoUsage)>>
      BY <2>4, <2>5 DEF FromSdk
    <3> DEFINE e == Event(f.text, "none", NoUsage)
    <3>2. e \in Events /\ e.text = f.text /\ e.finish = "none"
          /\ e.usage = NoUsage /\ ~e.error
      BY <1>2, <1>5, EventForm
    <3> HIDE DEF e
    <3> QED
      BY <1>7, <2>5, <3>0, <3>1, <3>2 DEF Telling, e
  <2>6. CASE f.kind = "delta"
    <3> DEFINE p == IF f.usage[1] = 0 THEN held ELSE f.usage[1]
               u == IF f.usage = NoUsage THEN NoUsage ELSE <<p, f.usage[2], p + f.usage[2]>>
               e == Event(f.text, FinishReason(f.finish), u)
    <3>0. f.text = <<>>
      BY <2>1, <2>6 DEF IsSdk
    <3>1. Made(f) = <<e>>
      BY <2>4, <2>6, <3>0 DEF FromSdk
    <3>2. u \in Usages
      <4>1. CASE f.usage = NoUsage
        BY <1>5, <4>1
      <4>2. CASE f.usage # NoUsage
        <5>1. f.usage \in Nat \X Nat
          BY <2>3, <4>2
        <5>2. f.usage[1] \in Nat /\ f.usage[2] \in Nat /\ held \in Nat
          BY <5>1 DEF Typed
        <5>3. p \in Nat /\ p + f.usage[2] \in Nat
          BY <5>2
        <5> HIDE DEF p
        <5> QED
          BY <4>2, <5>2, <5>3 DEF Usages
      <4> QED
        BY <4>1, <4>2
    <3> HIDE DEF u
    <3>3. e \in Events /\ e.text = f.text /\ e.finish = FinishReason(f.finish)
          /\ e.usage = u /\ ~e.error
      BY <1>2, <1>3, <3>2, EventForm
    <3>4. u = IF vendor # "anthropic" \/ f.usage = NoUsage THEN f.usage
              ELSE <<p, f.usage[2], p + f.usage[2]>>
      BY <1>7 DEF u
    <3> HIDE DEF e
    <3> QED
      BY <1>3, <1>7, <2>6, <3>0, <3>1, <3>3, <3>4 DEF Telling
  <2>7. CASE f.kind # "delta" /\ ~(f.kind = "text" /\ f.text # <<>>)
    <3>1. f.text = <<>> /\ f.finish = "none" /\ (f.kind = "start" \/ f.usage = NoUsage)
      BY <2>1, <2>7 DEF IsSdk
    <3>2. ~Telling(f)
      BY <2>3, <2>7 DEF Telling
    <3>3. Made(f) = <<>>
      BY <2>4, <2>7 DEF FromSdk
    <3> QED
      BY <3>1, <3>2, <3>3
  <2> QED
    BY <2>5, <2>6, <2>7
<1>8. CASE vendor = "agent"
  <2>1. IsAgent(f)
    BY <1>1, <1>8, FrameKinds
  <2>3. /\ f.kind \in {"text", "other", "step"}
        /\ f.usage = NoUsage /\ f.finish = "none"
        /\ f.kind # "text" => f.text = <<>>
    BY <2>1 DEF IsAgent, Shape, Frame
  <2>4. Made(f) = FromAgent(f)
    BY <1>8 DEF Made, Sse, Http
  <2>5. CASE f.text # <<>> \/ f.kind = "step"
    <3>1. Made(f) = <<Event(f.text, "none", NoUsage)>>
      BY <2>4, <2>5 DEF FromAgent
    <3> DEFINE e == Event(f.text, "none", NoUsage)
    <3>2. e \in Events /\ e.text = f.text /\ e.finish = "none"
          /\ e.usage = NoUsage /\ ~e.error
      BY <1>2, <1>5, EventForm
    <3> HIDE DEF e
    <3> QED
      BY <1>8, <2>3, <2>5, <3>1, <3>2 DEF Telling, e
  <2>6. CASE ~(f.text # <<>> \/ f.kind = "step")
    BY <2>3, <2>4, <2>6 DEF FromAgent, Telling
  <2> QED
    BY <2>5, <2>6
<1> QED
  BY <1>2, <1>6, <1>7, <1>8 DEF Http

(* The accumulator after a neutral event.                                  *)
LEMMA AccumulateForm ==
    ASSUME accumulator \in Accumulators, NEW e \in Events, Accumulate(e)
    PROVE  /\ accumulator' \in Accumulators
           /\ accumulator'.text = accumulator.text \o e.text
           /\ (accumulator'.finish # "none") =
                 (accumulator.finish # "none" \/ e.finish # "none")
           /\ accumulator'.usage = IF e.usage = NoUsage THEN accumulator.usage ELSE e.usage
<1>1. /\ accumulator.text \in Seq(Characters) /\ accumulator.finish \in Reasons
      /\ accumulator.usage \in Usages /\ accumulator.errored \in BOOLEAN
  BY DEF Accumulators
<1>2. /\ e.text \in Seq(Characters) /\ e.finish \in Reasons /\ e.usage \in Usages
      /\ e.error \in BOOLEAN
  BY DEF Events
<1>3. accumulator' = [text |-> accumulator.text \o e.text,
                      finish |-> IF e.finish = "none" THEN accumulator.finish ELSE e.finish,
                      usage |-> IF e.usage = NoUsage THEN accumulator.usage ELSE e.usage,
                      errored |-> accumulator.errored \/ e.error]
  BY DEF Accumulate
<1>4. accumulator' \in Accumulators
  <2>1. accumulator.text \o e.text \in Seq(Characters)
    BY <1>1, <1>2
  <2>2. (IF e.finish = "none" THEN accumulator.finish ELSE e.finish) \in Reasons
    BY <1>1, <1>2
  <2>3. (IF e.usage = NoUsage THEN accumulator.usage ELSE e.usage) \in Usages
    BY <1>1, <1>2
  <2> QED
    BY <1>3, <2>1, <2>2, <2>3 DEF Accumulators
<1>5. /\ accumulator'.text = accumulator.text \o e.text
      /\ accumulator'.finish = IF e.finish = "none" THEN accumulator.finish ELSE e.finish
      /\ accumulator'.usage = IF e.usage = NoUsage THEN accumulator.usage ELSE e.usage
  BY <1>3
<1>6. (accumulator'.finish # "none") = (accumulator.finish # "none" \/ e.finish # "none")
  BY <1>5
<1> QED
  BY <1>4, <1>5, <1>6

(* The heart of it: who agrees with k events, and forwards what is made of *)
(* the next, agrees with k + 1.                                            *)
LEMMA TakesOne ==
    ASSUME TranslationAssumption, Typed, NEW k \in Nat, k + 1 \in DOMAIN said,
           Agrees(k), phase = "reading",
           vendor = "anthropic" /\ said[k + 1].kind # "start" =>
               held = said[1].usage[1] + said[1].usage[2],
           UNCHANGED <<vendor, said, upstream, phase>>,
           Forward(Made(said[k + 1]))
    PROVE  Agrees(k + 1)' /\ forwarded' \in Seq(Events) /\ accumulator' \in Accumulators
<1> DEFINE f == said[k + 1]
<1>1. /\ Answer(vendor, said) /\ f \in Frames(vendor)
      /\ forwarded \in Seq(Events) /\ accumulator \in Accumulators
      /\ vendor \in Vendors
  BY DEF Typed, Answer
<1>2. vendor' = vendor /\ said' = said /\ phase' = phase /\ upstream' = upstream
  OBVIOUS
<1>3. vendor \in {"openai", "gemini", "anthropic", "agent"} /\ f.text \in Seq(Characters)
      /\ f.usage \in Usages
  BY <1>1, FrameKinds DEF Usages
<1>4. /\ Len(forwarded) = Cardinality(Told(said, k))
      /\ accumulator.text = Texts(said, k)
      /\ accumulator.usage = UsageOf(vendor, said, k)
      /\ (accumulator.finish # "none") = (vendor # "agent" /\ Stopped(said, k) # {})
  BY DEF Agrees
<1>5. /\ Cardinality(Told(said, k)) \in Nat
      /\ Cardinality(Told(said, k + 1)) =
            Cardinality(Told(said, k)) + (IF Telling(f) THEN 1 ELSE 0)
      /\ Stopped(said, k + 1) # {} <=> Stopped(said, k) # {} \/ f.finish # "none"
      /\ UsageOf(vendor, said, k + 1) =
            IF f.kind = "start" \/ f.usage = NoUsage THEN UsageOf(vendor, said, k)
            ELSE IF vendor \in Http THEN f.usage
            ELSE LET p == IF f.usage[1] = 0 THEN said[1].usage[1] + said[1].usage[2]
                          ELSE f.usage[1]
                 IN  <<p, f.usage[2], p + f.usage[2]>>
      /\ Texts(said, k + 1) = Texts(said, k) \o f.text
  BY <1>1, OneMoreEvent, TextsNext
<1>6. SUFFICES
        /\ Len(forwarded') = Cardinality(Told(said, k + 1))
        /\ accumulator'.text = Texts(said, k + 1)
        /\ accumulator'.usage = UsageOf(vendor, said, k + 1)
        /\ (accumulator'.finish # "none") = (vendor # "agent" /\ Stopped(said, k + 1) # {})
        /\ forwarded' \in Seq(Events) /\ accumulator' \in Accumulators
  BY <1>2 DEF Agrees
<1>7. CASE ~Telling(f)
  <2>1. /\ Made(f) = <<>> /\ f.text = <<>> /\ f.finish = "none"
        /\ f.kind = "start" \/ f.usage = NoUsage
    BY <1>1, <1>7, MadeForm
  <2>2. accumulator' = accumulator /\ forwarded' = forwarded
    BY <1>1, <2>1 DEF Forward
  <2>3. Texts(said, k) \o <<>> = Texts(said, k)
    <3>1. Texts(said, k) \in Seq(Characters)
      BY <1>1, <1>4 DEF Accumulators
    <3> QED
      BY <3>1
  <2> QED
    BY <1>1, <1>4, <1>5, <1>7, <2>1, <2>2, <2>3
<1>8. CASE Telling(f)
  <2>1. PICK e \in Events :
          /\ Made(f) = <<e>>
          /\ e.text = f.text /\ ~e.error
          /\ (e.finish # "none") = (f.finish # "none")
          /\ vendor = "agent" => e.finish = "none"
          /\ e.usage = IF vendor # "anthropic" \/ f.usage = NoUsage THEN f.usage
                       ELSE LET p == IF f.usage[1] = 0 THEN held ELSE f.usage[1]
                            IN  <<p, f.usage[2], p + f.usage[2]>>
    BY <1>1, <1>8, MadeForm
  <2>2. f.kind # "start"
    BY <1>1, <1>8, MadeForm
  <2>3. forwarded' = forwarded \o <<e>> /\ Accumulate(e)
    BY <2>1 DEF Forward
  <2>4. forwarded' \in Seq(Events) /\ Len(forwarded') = Len(forwarded) + 1
    BY <1>1, <2>3
  <2>5. /\ accumulator' \in Accumulators
        /\ accumulator'.text = accumulator.text \o e.text
        /\ (accumulator'.finish # "none") = (accumulator.finish # "none" \/ e.finish # "none")
        /\ accumulator'.usage = IF e.usage = NoUsage THEN accumulator.usage ELSE e.usage
    BY <1>1, <2>3, AccumulateForm
  <2>6. accumulator'.usage = UsageOf(vendor, said, k + 1)
    <3>1. CASE f.usage = NoUsage
      BY <1>4, <1>5, <2>1, <2>5, <3>1
    <3>2. CASE f.usage # NoUsage /\ vendor = "anthropic"
      <4>1. <<(IF f.usage[1] = 0 THEN held ELSE f.usage[1]), f.usage[2],
              (IF f.usage[1] = 0 THEN held ELSE f.usage[1]) + f.usage[2]>> # <<>>
        OBVIOUS
      <4>2. held = said[1].usage[1] + said[1].usage[2]
        BY <2>2, <3>2
      <4>3. e.usage # NoUsage
        BY <2>1, <3>2, <4>1 DEF NoUsage
      <4> QED
        BY <1>5, <2>1, <2>2, <2>5, <3>2, <4>2, <4>3 DEF Http
    <3>3. CASE f.usage # NoUsage /\ vendor \in Http
      BY <1>5, <2>1, <2>2, <2>5, <3>3 DEF Http
    <3>4. CASE f.usage # NoUsage /\ vendor = "agent"
      <4>1. IsAgent(f)
        BY <1>1, <3>4, FrameKinds
      <4> QED
        BY <3>4, <4>1 DEF IsAgent, Frame
    <3> QED
      BY <1>3, <3>1, <3>2, <3>3, <3>4 DEF Http
  <2>7. (accumulator'.finish # "none") = (vendor # "agent" /\ Stopped(said, k + 1) # {})
    BY <1>4, <1>5, <2>1, <2>5
  <2> QED
    BY <1>4, <1>5, <1>8, <2>1, <2>4, <2>5, <2>6, <2>7
<1> QED
  BY <1>7, <1>8

(* What is within an event is before its end.                              *)
LEMMA Inside ==
    ASSUME NEW v, NEW s, Answer(v, s), NEW i \in DOMAIN s, NEW m \in DOMAIN Units(v, s[i])
    PROVE  /\ m \in Nat /\ i \in Nat /\ i - 1 \in 0..Len(s) /\ i \in 0..Len(s)
           /\ UpTo(v, s, i - 1) \in Nat /\ UpTo(v, s, i) \in Nat /\ UpTo(v, s, Len(s)) \in Nat
           /\ UpTo(v, s, i - 1) < UpTo(v, s, i - 1) + m
           /\ UpTo(v, s, i - 1) + m <= UpTo(v, s, i)
           /\ UpTo(v, s, i) <= UpTo(v, s, Len(s))
<1>1. Len(s) \in Nat /\ DOMAIN s = 1..Len(s) /\ i - 1 \in 0..Len(s) /\ i \in 0..Len(s)
      /\ Len(s) \in 0..Len(s)
  BY DEF Answer
<1>2. /\ UpTo(v, s, i) = UpTo(v, s, i - 1) + Len(Units(v, s[i]))
      /\ UpTo(v, s, i - 1) \in Nat /\ UpTo(v, s, i) \in Nat /\ UpTo(v, s, Len(s)) \in Nat
      /\ UpTo(v, s, i) <= UpTo(v, s, Len(s))
  BY <1>1, Positions
<1>3. Len(Units(v, s[i])) \in Nat /\ m \in 1..Len(Units(v, s[i]))
  BY UnitsForm DEF Answer
<1> QED
  BY <1>1, <1>2, <1>3

(* Objects are counted, not measured.                                      *)
LEMMA ObjectPositions ==
    ASSUME NEW v, NEW s, Answer(v, s), v \notin Http, NEW i \in 0..Len(s)
    PROVE  UpTo(v, s, i) = i
<1> DEFINE C == {j \in Nat : j <= Len(s) /\ UpTo(v, s, j) # j}
<1> SUFFICES ASSUME UpTo(v, s, i) # i PROVE FALSE
  OBVIOUS
<1>1. Len(s) \in Nat /\ DOMAIN s = 1..Len(s)
  BY DEF Answer
<1>2. PICK j \in C : \A h \in C : j <= h
  <2>1. C \in SUBSET Nat /\ i \in C
    BY <1>1
  <2> HIDE DEF C
  <2> QED
    BY <2>1, LeastNumber
<1>3. j \in Nat /\ j <= Len(s) /\ UpTo(v, s, j) # j
  OBVIOUS
<1>4. j # 0
  BY <1>3, Positions
<1>5. j \in DOMAIN s /\ j - 1 \in Nat /\ j - 1 <= Len(s) /\ ~(j <= j - 1)
  BY <1>1, <1>3, <1>4
<1>6. UpTo(v, s, j - 1) = j - 1
  BY <1>2, <1>5
<1>7. UpTo(v, s, j) = UpTo(v, s, j - 1) + Len(Units(v, s[j]))
  BY <1>5, Positions
<1>8. Len(Units(v, s[j])) = 1
  BY <1>5, UnitsForm DEF Answer
<1> QED
  BY <1>3, <1>6, <1>7, <1>8

(* What is sent later moves nothing that is there.                         *)
Longer(v, s, f, t) == Answer(v, s) /\ f \in Frames(v) /\ t = Append(s, f)

LEMMA MoreSaid ==
    ASSUME NEW v, NEW s, NEW f, NEW t, Longer(v, s, f, t)
    PROVE  /\ Answer(v, t)
           /\ Len(t) = Len(s) + 1 /\ t[Len(s) + 1] = f
           /\ \A i \in DOMAIN s : t[i] = s[i]
           /\ \A i \in 0..Len(s) : UpTo(v, t, i) = UpTo(v, s, i)
           /\ UpTo(v, t, Len(t)) = UpTo(v, s, Len(s)) + Len(Units(v, f))
           /\ \A k \in 0..Len(s) : /\ Told(t, k) = Told(s, k) /\ Texts(t, k) = Texts(s, k)
                                   /\ Stopped(t, k) = Stopped(s, k)
                                   /\ UsageOf(v, t, k) = UsageOf(v, s, k)
<1>1. /\ Answer(v, t) /\ Len(t) = Len(s) + 1 /\ t[Len(s) + 1] = f
      /\ Len(s) \in Nat /\ DOMAIN s = 1..Len(s) /\ DOMAIN t = 1..Len(t)
      /\ \A i \in 1..Len(s) : t[i] = s[i]
  BY DEF Answer, Longer
<1>2. ASSUME NEW i \in 0..Len(s) PROVE UpTo(v, t, i) = UpTo(v, s, i)
  <2>1. \A j \in 1..i : t[j] = s[j]
    BY <1>1
  <2>2. [j \in 1..i |-> Len(Units(v, t[j]))] = [j \in 1..i |-> Len(Units(v, s[j]))]
    BY <2>1
  <2> QED
    BY <2>2 DEF UpTo
<1>3. UpTo(v, t, Len(t)) = UpTo(v, s, Len(s)) + Len(Units(v, f))
  <2>1. Len(t) \in DOMAIN t /\ Len(t) - 1 = Len(s) /\ Len(s) \in 0..Len(s) /\ t[Len(t)] = f
    BY <1>1
  <2>2. \A i \in DOMAIN t : UpTo(v, t, i) = UpTo(v, t, i - 1) + Len(Units(v, t[i]))
    BY <1>1, Positions
  <2>3. UpTo(v, t, Len(t)) = UpTo(v, t, Len(t) - 1) + Len(Units(v, t[Len(t)]))
    BY <2>1, <2>2
  <2>4. UpTo(v, t, Len(s)) = UpTo(v, s, Len(s))
    BY <1>2, <2>1
  <2> QED
    BY <2>1, <2>3, <2>4
<1>4. ASSUME NEW k \in 0..Len(s)
      PROVE  /\ Told(t, k) = Told(s, k) /\ Texts(t, k) = Texts(s, k)
             /\ Stopped(t, k) = Stopped(s, k) /\ UsageOf(v, t, k) = UsageOf(v, s, k)
  <2>1. \A i \in 1..k : t[i] = s[i]
    BY <1>1
  <2>2. Told(t, k) = Told(s, k) /\ Stopped(t, k) = Stopped(s, k) /\ Counted(t, k) = Counted(s, k)
    BY <2>1 DEF Told, Stopped, Counted
  <2>3. Texts(t, k) = Texts(s, k)
    <3>1. [i \in 1..k |-> t[i].text] = [i \in 1..k |-> s[i].text]
      BY <2>1
    <3> QED
      BY <3>1 DEF Texts
  <2>4. UsageOf(v, t, k) = UsageOf(v, s, k)
    <3>1. CASE Counted(s, k) = {}
      BY <2>2, <3>1 DEF UsageOf, Plain, Frame
    <3>2. CASE Counted(s, k) # {}
      <4>1. Counted(s, k) \subseteq 1..k /\ k \in Nat /\ Counted(s, k) \in SUBSET (0..k)
        BY <1>1 DEF Counted
      <4>3. Max(Counted(s, k)) \in 1..k
        BY <3>2, <4>1, LargestThere
      <4>4. 1 \in 1..k
        BY <4>1, <4>3
      <4> QED
        BY <2>1, <2>2, <3>2, <4>3, <4>4 DEF UsageOf
    <3> QED
      BY <3>1, <3>2
  <2> QED
    BY <2>2, <2>3, <2>4
<1> QED
  BY <1>1, <1>2, <1>3, <1>4

-----------------------------------------------------------------------------
(* The steps.  At first, nothing was said and nothing is known.            *)
LEMMA InvariantInitially ==
    ASSUME TranslationAssumption, TranslationInit
    PROVE  TranslationInvariant
<1>1. /\ vendor \in Vendors
      /\ said = <<>> /\ wire = <<>> /\ got = 0 /\ buffer = <<>> /\ held = 0
      /\ forwarded = <<>>
      /\ accumulator = [text |-> <<>>, finish |-> "none", usage |-> NoUsage, errored |-> FALSE]
      /\ upstream = "open" /\ phase = "reading"
  BY DEF TranslationInit
<1>2. /\ Len(<<>>) = 0 /\ DOMAIN <<>> = {}
      /\ \A S : <<>> \in Seq(S)
  OBVIOUS
<1>3. accumulator \in Accumulators
  BY <1>1, <1>2 DEF Accumulators, Reasons, Usages
<1>4. Typed
  BY <1>1, <1>2, <1>3 DEF Typed
<1>5. UpTo(vendor, said, 0) = 0
  BY <1>1, <1>4, Positions DEF Answer, Typed
<1>6. InPlace /\ PromptHeld /\ Parted(0)
  BY <1>1, <1>2 DEF InPlace, PromptHeld, Parted
<1>7. Bounded
  BY <1>1, <1>2, <1>5 DEF Bounded
<1>8. Agrees(0)
  <2>1. /\ Told(said, 0) = {} /\ Counted(said, 0) = {} /\ Stopped(said, 0) = {}
        /\ Texts(said, 0) = <<>>
    BY NothingSaid
  <2>2. UsageOf(vendor, said, 0) = NoUsage
    BY <2>1 DEF UsageOf, Plain, Frame
  <2>3. Cardinality({}) = 0
    BY FS_EmptySet
  <2> QED
    BY <1>1, <1>2, <2>1, <2>2, <2>3 DEF Agrees
<1>9. 0 \in 0..Len(said)
  BY <1>1, <1>2
<1> QED
  BY <1>4, <1>6, <1>7, <1>8, <1>9 DEF TranslationInvariant

(* An upstream's event goes to the end of the wire.                        *)
LEMMA SendStep ==
    ASSUME TranslationAssumption, TranslationInvariant, Send
    PROVE  TranslationInvariant'
<1>1. /\ upstream = "open"
      /\ UNCHANGED <<vendor, got, buffer, held, forwarded, accumulator, upstream, phase>>
  BY DEF Send
<1>2. PICK f \in Frames(vendor) :
         MaySend(f) /\ said' = Append(said, f) /\ wire' = wire \o Units(vendor, f)
  BY DEF Send
<1>3. f \in Frames(vendor) /\ wire' = wire \o Units(vendor, f)
  BY <1>2
<1>4. Answer(vendor, said) /\ vendor \in Vendors /\ Typed /\ InPlace /\ Bounded /\ PromptHeld
  BY DEF TranslationInvariant, Typed, Answer
<1>5. PICK k \in 0..Len(said) : Parted(k) /\ Agrees(k)
  BY DEF TranslationInvariant
<1> DEFINE s == said
           t == said'
           v == vendor
           u == Units(v, f)
<1>6. /\ Answer(v, t)
      /\ Len(t) = Len(s) + 1 /\ t[Len(s) + 1] = f
      /\ \A i \in DOMAIN s : t[i] = s[i]
      /\ \A i \in 0..Len(s) : UpTo(v, t, i) = UpTo(v, s, i)
      /\ UpTo(v, t, Len(t)) = UpTo(v, s, Len(s)) + Len(u)
      /\ \A h \in 0..Len(s) : /\ Told(t, h) = Told(s, h) /\ Texts(t, h) = Texts(s, h)
                              /\ Stopped(t, h) = Stopped(s, h)
                              /\ UsageOf(v, t, h) = UsageOf(v, s, h)
  <2>1. Longer(v, s, f, t) /\ u = Units(v, f)
    BY <1>2, <1>3, <1>4 DEF Longer
  <2> HIDE DEF v, s, t, u
  <2>2. /\ Answer(v, t)
        /\ Len(t) = Len(s) + 1 /\ t[Len(s) + 1] = f
        /\ \A i \in DOMAIN s : t[i] = s[i]
        /\ \A i \in 0..Len(s) : UpTo(v, t, i) = UpTo(v, s, i)
        /\ UpTo(v, t, Len(t)) = UpTo(v, s, Len(s)) + Len(Units(v, f))
    BY <2>1, MoreSaid
  <2>3. \A h \in 0..Len(s) : /\ Told(t, h) = Told(s, h) /\ Texts(t, h) = Texts(s, h)
                              /\ Stopped(t, h) = Stopped(s, h)
                              /\ UsageOf(v, t, h) = UsageOf(v, s, h)
    BY <2>1, MoreSaid
  <2> QED
    BY <2>1, <2>2, <2>3
<1>7. /\ Len(s) \in Nat /\ DOMAIN s = 1..Len(s) /\ DOMAIN t = 1..(Len(s) + 1)
      /\ Len(t) \in Nat
  BY <1>4, <1>6 DEF Answer
<1>8. /\ u \in Seq(Alphabet(v)) /\ Len(u) \in Nat /\ Len(u) > 0 /\ DOMAIN u = 1..Len(u)
  BY <1>3, <1>4, UnitsForm
<1>9. /\ UpTo(v, s, Len(s)) \in Nat
      /\ \A i \in 0..Len(s) : UpTo(v, s, i) \in Nat /\ UpTo(v, s, i) <= UpTo(v, s, Len(s))
  BY <1>4, <1>7, Positions
<1>10. /\ got \in Nat /\ Len(buffer) \in Nat /\ Len(wire) \in Nat
       /\ Len(buffer) <= got /\ got + Len(wire) = UpTo(v, s, Len(s))
  BY <1>1, <1>4 DEF Typed, Bounded
<1>11. Typed'
  BY <1>1, <1>3, <1>4, <1>6, <1>8 DEF Typed, Answer, Sse, Http
<1>12. InPlace'
  <2>1. ASSUME NEW q \in Nat, NEW x, Placed(v, s, q, x), q <= UpTo(v, s, Len(s))
        PROVE  Placed(v, t, q, x)
    <3> SUFFICES ASSUME NEW i \in DOMAIN t, NEW m \in DOMAIN Units(v, t[i]),
                        q = UpTo(v, t, i - 1) + m
                 PROVE  x = Units(v, t[i])[m]
      BY DEF Placed
    <3>1. i \in DOMAIN s
      <4>1. m > 0 /\ m \in Nat
        BY <1>6, Inside, UnitsForm DEF Answer
      <4>2. CASE i = Len(s) + 1
        <5>1. UpTo(v, t, i - 1) = UpTo(v, s, Len(s))
          BY <1>6, <1>7, <4>2
        <5> QED
          BY <1>9, <2>1, <4>1, <5>1
      <4> QED
        BY <1>7, <4>2
    <3>2. t[i] = s[i] /\ UpTo(v, t, i - 1) = UpTo(v, s, i - 1)
      BY <1>6, <1>7, <3>1
    <3> QED
      BY <2>1, <3>1, <3>2 DEF Placed
  <2>2. ASSUME NEW j \in DOMAIN buffer
        PROVE  Placed(v, t, Consumed + j, buffer[j])
    <3>1. Consumed + j \in Nat /\ Consumed + j <= UpTo(v, s, Len(s))
      <4>1. j \in 1..Len(buffer)
        BY <1>4 DEF Typed
      <4> QED
        BY <1>10, <4>1 DEF Consumed
    <3>2. Placed(v, s, Consumed + j, buffer[j])
      BY <1>4 DEF InPlace
    <3> QED
      BY <2>1, <3>1, <3>2
  <2>3. ASSUME NEW j \in DOMAIN wire'
        PROVE  Placed(v, t, got + j, wire'[j])
    <3>1. /\ wire \in Seq(Alphabet(v)) /\ DOMAIN wire = 1..Len(wire)
          /\ j \in 1..(Len(wire) + Len(u)) /\ wire' = wire \o u
      BY <1>3, <1>4, <1>8 DEF Typed
    <3>2. CASE j <= Len(wire)
      <4>1. j \in DOMAIN wire /\ wire'[j] = wire[j]
        BY <1>8, <1>10, <3>1, <3>2
      <4>2. got + j \in Nat /\ got + j <= UpTo(v, s, Len(s))
        BY <1>9, <1>10, <3>1, <3>2
      <4>3. Placed(v, s, got + j, wire[j])
        BY <1>4, <4>1 DEF InPlace
      <4> QED
        BY <2>1, <4>1, <4>2, <4>3
    <3>3. CASE j > Len(wire)
      <4> DEFINE p == j - Len(wire)
      <4>1. p \in 1..Len(u) /\ wire'[j] = u[p] /\ got + j = UpTo(v, s, Len(s)) + p
        BY <1>8, <1>9, <1>10, <3>1, <3>3
      <4> SUFFICES ASSUME NEW i \in DOMAIN t, NEW m \in DOMAIN Units(v, t[i]),
                          got + j = UpTo(v, t, i - 1) + m
                   PROVE  wire'[j] = Units(v, t[i])[m]
        BY DEF Placed
      <4>2. /\ m \in Nat /\ UpTo(v, t, i - 1) + m <= UpTo(v, t, i)
            /\ UpTo(v, t, i - 1) \in Nat /\ UpTo(v, t, i) \in Nat
        BY <1>6, Inside
      <4>3. i = Len(s) + 1
        <5>1. CASE i \in DOMAIN s
          <6>1. UpTo(v, t, i) = UpTo(v, s, i) /\ UpTo(v, s, i) <= UpTo(v, s, Len(s))
            BY <1>6, <1>7, <1>9, <5>1
          <6> QED
            BY <1>9, <4>1, <4>2, <6>1
        <5> QED
          BY <1>7, <5>1
      <4>4. UpTo(v, t, i - 1) = UpTo(v, s, Len(s)) /\ t[i] = f
        BY <1>6, <1>7, <4>3
      <4>5. m = p
        BY <1>9, <4>1, <4>2, <4>4
      <4> QED
        BY <4>1, <4>4, <4>5
    <3> QED
      BY <1>10, <3>1, <3>2, <3>3
  <2>4. vendor' = vendor /\ buffer' = buffer /\ got' = got /\ Consumed' = Consumed
    BY <1>1 DEF Consumed
  <2> QED
    BY <2>2, <2>3, <2>4 DEF InPlace
<1>13. Bounded'
  <2>1. Len(wire') = Len(wire) + Len(u)
    BY <1>3, <1>4, <1>8 DEF Typed
  <2> QED
    BY <1>1, <1>6, <1>8, <1>9, <1>10, <2>1 DEF Bounded
<1>14. PromptHeld'
  <2> SUFFICES ASSUME vendor = "anthropic"
               PROVE  /\ \A i \in DOMAIN t : t[i].kind = "start" <=> i = 1
                      /\ got > 0 => held = t[1].usage[1] + t[1].usage[2]
    BY <1>1 DEF PromptHeld
  <2>1. \A i \in DOMAIN s : s[i].kind = "start" <=> i = 1
    BY <1>4 DEF PromptHeld
  <2>2. (f.kind = "start") = (s = <<>>)
    BY <1>2 DEF MaySend
  <2>3. s = <<>> <=> Len(s) = 0
    BY <1>4 DEF Answer
  <2>4. \A i \in DOMAIN t : t[i].kind = "start" <=> i = 1
    BY <1>6, <1>7, <2>1, <2>2, <2>3
  <2>5. got > 0 => held = t[1].usage[1] + t[1].usage[2]
    <3> SUFFICES ASSUME got > 0 PROVE held = t[1].usage[1] + t[1].usage[2]
      OBVIOUS
    <3>1. Len(s) > 0
      <4>1. UpTo(v, s, 0) = 0
        BY <1>4, Positions
      <4> QED
        BY <1>7, <1>9, <1>10, <4>1
    <3>2. t[1] = s[1]
      BY <1>6, <1>7, <3>1
    <3> QED
      BY <1>4, <3>2 DEF PromptHeld
  <2> QED
    BY <2>4, <2>5
<1>15. Parted(k)'
  <2> SUFFICES ASSUME NEW i \in DOMAIN t, ~Silent(v, t[i])
               PROVE  IF i <= k THEN UpTo(v, t, i) <= Consumed ELSE Consumed <= UpTo(v, t, i - 1)
    <3>1. Consumed' = Consumed /\ vendor' = vendor
      BY <1>1 DEF Consumed
    <3> QED
      BY <3>1 DEF Parted
  <2>1. CASE i \in DOMAIN s
    <3>1. t[i] = s[i] /\ UpTo(v, t, i) = UpTo(v, s, i) /\ UpTo(v, t, i - 1) = UpTo(v, s, i - 1)
      BY <1>6, <1>7, <2>1
    <3> QED
      BY <1>5, <2>1, <3>1 DEF Parted
  <2>2. CASE i = Len(s) + 1
    <3>1. UpTo(v, t, i - 1) = UpTo(v, s, Len(s))
      BY <1>6, <1>7, <2>2
    <3>2. ~(i <= k)
      BY <1>5, <1>7, <2>2
    <3> QED
      BY <1>9, <1>10, <3>1, <3>2 DEF Consumed
  <2> QED
    BY <1>7, <2>1, <2>2
<1>16. Agrees(k)'
  <2>1. /\ Told(t, k) = Told(s, k) /\ Texts(t, k) = Texts(s, k)
        /\ Stopped(t, k) = Stopped(s, k) /\ UsageOf(v, t, k) = UsageOf(v, s, k)
    BY <1>5, <1>6
  <2> QED
    BY <1>1, <1>5, <2>1 DEF Agrees
<1>17. k \in 0..Len(said')
  BY <1>5, <1>6, <1>7
<1> QED
  BY <1>11, <1>12, <1>13, <1>14, <1>15, <1>16, <1>17 DEF TranslationInvariant

(* What the steps need of the invariant again and again.                   *)
LEMMA InvariantParts ==
    ASSUME TranslationAssumption, TranslationInvariant
    PROVE  /\ Typed /\ InPlace /\ Bounded /\ PromptHeld
           /\ Answer(vendor, said) /\ vendor \in Vendors
           /\ Len(said) \in Nat /\ DOMAIN said = 1..Len(said)
           /\ got \in Nat /\ Len(buffer) \in Nat /\ Len(wire) \in Nat
           /\ DOMAIN buffer = 1..Len(buffer) /\ DOMAIN wire = 1..Len(wire)
           /\ Len(buffer) <= got /\ Consumed \in Nat /\ Consumed <= got
           /\ UpTo(vendor, said, Len(said)) \in Nat
<1>1. Typed /\ Bounded
  BY DEF TranslationInvariant
<1>2. Answer(vendor, said) /\ Len(said) \in Nat /\ DOMAIN said = 1..Len(said)
  BY <1>1 DEF Typed, Answer
<1>3. UpTo(vendor, said, Len(said)) \in Nat
  BY <1>2, Positions
<1>4. Consumed \in Nat /\ Consumed <= got
  BY <1>1 DEF Typed, Bounded, Consumed
<1> QED
  BY <1>1, <1>2, <1>3, <1>4 DEF TranslationInvariant, Typed, Bounded

(* What is lost is at the end of the wire.                                 *)
LEMMA HangStep ==
    ASSUME TranslationAssumption, TranslationInvariant, Hang
    PROVE  TranslationInvariant'
<1>1. /\ upstream = "open" /\ upstream' \in {"ended", "broken"}
      /\ UNCHANGED <<vendor, said, got, buffer, held, forwarded, accumulator, phase>>
  BY DEF Hang
<1>2. PICK n \in 0..Len(wire) : wire' = SubSeq(wire, 1, n)
  BY DEF Hang
<1>3. /\ Typed /\ InPlace /\ Bounded /\ PromptHeld
      /\ got \in Nat /\ Len(buffer) \in Nat /\ Len(wire) \in Nat
      /\ DOMAIN wire = 1..Len(wire)
      /\ UpTo(vendor, said, Len(said)) \in Nat
  BY InvariantParts
<1>4. /\ wire' \in Seq(Alphabet(vendor)) /\ Len(wire') = n
      /\ DOMAIN wire' = 1..n /\ \A j \in 1..n : wire'[j] = wire[j] /\ j \in DOMAIN wire
  BY <1>2, <1>3 DEF Typed
<1>5. phase = "reading"
  BY <1>1, <1>3 DEF Typed
<1>6. Consumed' = Consumed
  BY <1>1 DEF Consumed
<1>7. Typed'
  BY <1>1, <1>3, <1>4, <1>5 DEF Typed, Sse
<1>8. InPlace'
  BY <1>1, <1>3, <1>4, <1>6 DEF InPlace
<1>9. Bounded'
  BY <1>1, <1>2, <1>3, <1>4 DEF Bounded
<1>10. PromptHeld'
  BY <1>1, <1>3 DEF PromptHeld
<1>11. PICK k \in 0..Len(said) : Parted(k) /\ Agrees(k)
  BY DEF TranslationInvariant
<1>12. Parted(k)'
  BY <1>1, <1>6, <1>11 DEF Parted
<1>13. Agrees(k)'
  BY <1>1, <1>5, <1>11 DEF Agrees
<1> QED
  BY <1>1, <1>7, <1>8, <1>9, <1>10, <1>11, <1>12, <1>13 DEF TranslationInvariant

(* A chunk moves from the wire to the buffer; nothing else moves.          *)
LEMMA ChunkStep ==
    ASSUME TranslationAssumption, TranslationInvariant, Chunk
    PROVE  TranslationInvariant'
<1>1. /\ phase = "reading" /\ Sse
      /\ UNCHANGED <<vendor, said, held, forwarded, accumulator, upstream, phase>>
  BY DEF Chunk
<1>2. PICK n \in 1..Len(wire) : /\ buffer' = buffer \o SubSeq(wire, 1, n)
                                /\ wire' = SubSeq(wire, n + 1, Len(wire))
                                /\ got' = got + n
  BY DEF Chunk, Joined
<1>3. /\ Typed /\ InPlace /\ Bounded
      /\ got \in Nat /\ Len(buffer) \in Nat /\ Len(wire) \in Nat
      /\ DOMAIN wire = 1..Len(wire) /\ DOMAIN buffer = 1..Len(buffer)
      /\ Len(buffer) <= got
      /\ UpTo(vendor, said, Len(said)) \in Nat
  BY InvariantParts
<1>4. /\ SubSeq(wire, 1, n) \in Seq(Alphabet(vendor)) /\ Len(SubSeq(wire, 1, n)) = n
      /\ \A j \in 1..n : SubSeq(wire, 1, n)[j] = wire[j] /\ j \in DOMAIN wire
  BY <1>2, <1>3 DEF Typed
<1>5. /\ wire' \in Seq(Alphabet(vendor)) /\ Len(wire') = Len(wire) - n
      /\ DOMAIN wire' = 1..(Len(wire) - n)
      /\ \A j \in DOMAIN wire' : wire'[j] = wire[n + j] /\ n + j \in DOMAIN wire
  <2>1. wire \in Seq(Alphabet(vendor)) /\ n \in 0..Len(wire)
    BY <1>2, <1>3 DEF Typed
  <2> QED
    BY <1>2, <2>1, SuffixForm
<1>6. /\ buffer' \in Seq(Alphabet(vendor)) /\ Len(buffer') = Len(buffer) + n
      /\ DOMAIN buffer' = 1..(Len(buffer) + n)
      /\ \A j \in DOMAIN buffer : buffer'[j] = buffer[j]
      /\ \A j \in 1..n : buffer'[Len(buffer) + j] = wire[j]
  BY <1>2, <1>3, <1>4 DEF Typed
<1>7. Consumed' = Consumed
  BY <1>2, <1>3, <1>6 DEF Consumed
<1>8. Typed'
  <2>1. got' \in Nat
    BY <1>2, <1>3
  <2> QED
    BY <1>1, <1>3, <1>5, <1>6, <2>1 DEF Typed, Sse
<1>9. InPlace'
  <2>1. ASSUME NEW j \in DOMAIN buffer'
        PROVE  Placed(vendor, said, Consumed + j, buffer'[j])
    <3>1. CASE j \in DOMAIN buffer
      BY <1>3, <1>6, <3>1 DEF InPlace
    <3>2. CASE j \notin DOMAIN buffer
      <4> DEFINE p == j - Len(buffer)
      <4>1. p \in 1..n /\ j = Len(buffer) + p /\ Consumed + j = got + p
        BY <1>3, <1>6, <2>1, <3>2 DEF Consumed
      <4>2. p \in DOMAIN wire /\ buffer'[j] = wire[p]
        BY <1>4, <1>6, <4>1
      <4>3. Placed(vendor, said, got + p, wire[p])
        BY <1>3, <4>2 DEF InPlace
      <4> QED
        BY <4>1, <4>2, <4>3
    <3> QED
      BY <3>1, <3>2
  <2>2. ASSUME NEW j \in DOMAIN wire'
        PROVE  Placed(vendor, said, got' + j, wire'[j])
    <3>1. wire'[j] = wire[n + j] /\ n + j \in DOMAIN wire
      BY <1>5
    <3>2. j \in Nat /\ n \in Nat /\ got' + j = got + (n + j)
      <4>1. j \in 1..(Len(wire) - n) /\ n \in 1..Len(wire)
        BY <1>5
      <4> QED
        BY <1>2, <1>3, <4>1
    <3>3. Placed(vendor, said, got + (n + j), wire[n + j])
      BY <1>3, <3>1 DEF InPlace
    <3> QED
      BY <3>1, <3>2, <3>3
  <2> QED
    BY <1>1, <1>7, <2>1, <2>2 DEF InPlace
<1>10. Bounded'
  <2>1. n \in Nat /\ got' + Len(wire') = got + Len(wire) /\ Len(buffer') <= got'
    <3>1. /\ n \in Nat /\ got \in Nat /\ Len(wire) \in Nat /\ Len(buffer) \in Nat
          /\ Len(buffer) <= got
      BY <1>3
    <3>2. got' = got + n /\ Len(wire') = Len(wire) - n /\ Len(buffer') = Len(buffer) + n
      BY <1>2, <1>5, <1>6
    <3> QED
      BY <3>1, <3>2
  <2> QED
    BY <1>1, <1>3, <2>1 DEF Bounded
<1>11. PromptHeld'
  BY <1>1 DEF PromptHeld, Sse, Http
<1>12. PICK k \in 0..Len(said) : Parted(k) /\ Agrees(k)
  BY DEF TranslationInvariant
<1>13. Parted(k)'
  BY <1>1, <1>7, <1>12 DEF Parted
<1>14. Agrees(k)'
  BY <1>1, <1>12 DEF Agrees
<1> QED
  BY <1>1, <1>8, <1>9, <1>10, <1>11, <1>12, <1>13, <1>14 DEF TranslationInvariant

(* The end adds no text and no usage; only an agent's is a reason.         *)
LEMMA EndStep ==
    ASSUME TranslationAssumption, TranslationInvariant, End
    PROVE  TranslationInvariant'
<1>1. /\ phase = "reading" /\ phase' = "done"
      /\ UNCHANGED <<vendor, said, wire, got, buffer, held, upstream>>
      /\ upstream \in {"ended", "broken"}
  BY DEF End
<1>2. Typed /\ InPlace /\ Bounded /\ PromptHeld
  BY InvariantParts
<1>3. PICK k \in 0..Len(said) : Parted(k) /\ Agrees(k)
  BY DEF TranslationInvariant
<1>4. /\ Consumed' = Consumed
      /\ InPlace' /\ Bounded' /\ PromptHeld' /\ Parted(k)'
  BY <1>1, <1>2, <1>3 DEF Consumed, InPlace, Bounded, PromptHeld, Parted
<1>5. accumulator \in Accumulators /\ forwarded \in Seq(Events)
      /\ accumulator.text \in Seq(Characters)
  BY <1>2 DEF Typed, Accumulators
<1>6. CASE UNCHANGED <<forwarded, accumulator>> /\ upstream = "ended" /\ vendor # "agent"
  <2>1. Typed'
    BY <1>1, <1>2, <1>6 DEF Typed, Sse
  <2>2. Agrees(k)'
    BY <1>1, <1>3, <1>6 DEF Agrees
  <2> QED
    BY <1>1, <1>3, <1>4, <2>1, <2>2 DEF TranslationInvariant
<1>7. ASSUME NEW e \in Events, e.text = <<>>, e.usage = NoUsage,
             Forward(<<e>>),
             (e.finish # "none") = (upstream = "ended"),
             upstream = "ended" => vendor = "agent"
      PROVE  TranslationInvariant'
  <2>1. forwarded' = forwarded \o <<e>> /\ Accumulate(e)
    BY <1>7 DEF Forward
  <2>2. /\ accumulator' \in Accumulators
        /\ accumulator'.text = accumulator.text \o e.text
        /\ (accumulator'.finish # "none") = (accumulator.finish # "none" \/ e.finish # "none")
        /\ accumulator'.usage = IF e.usage = NoUsage THEN accumulator.usage ELSE e.usage
    BY <1>5, <2>1, AccumulateForm
  <2>3. forwarded' \in Seq(Events)
    BY <1>5, <2>1
  <2>4. Typed'
    BY <1>1, <1>2, <2>2, <2>3 DEF Typed, Sse
  <2>5. accumulator'.text = accumulator.text
    BY <1>5, <1>7, <2>2
  <2>6. Agrees(k)'
    <3>1. accumulator'.usage = accumulator.usage
      BY <1>7, <2>2
    <3>2. (accumulator'.finish # "none") =
             IF vendor = "agent" THEN upstream = "ended" ELSE Stopped(said, k) # {}
      BY <1>1, <1>3, <1>7, <2>2 DEF Agrees
    <3> QED
      BY <1>1, <1>3, <2>5, <3>1, <3>2 DEF Agrees
  <2> QED
    BY <1>1, <1>3, <1>4, <2>4, <2>6 DEF TranslationInvariant
<1>8. NoUsage \in Usages /\ <<>> \in Seq(Characters) /\ "none" \in Reasons /\ "stop" \in Reasons
  BY DEF Usages, Reasons
<1>9. CASE upstream = "ended" /\ vendor = "agent" /\ Forward(<<Event(<<>>, "stop", NoUsage)>>)
  <2> DEFINE e == Event(<<>>, "stop", NoUsage)
  <2>1. e \in Events /\ e.text = <<>> /\ e.finish = "stop" /\ e.usage = NoUsage
    BY <1>8 DEF Event, Events
  <2> HIDE DEF e
  <2>2. Forward(<<e>>)
    BY <1>9 DEF e
  <2> QED
    BY <1>7, <1>9, <2>1, <2>2
<1>10. CASE upstream = "broken" /\ Forward(<<ErrorEvent>>)
  <2>1. ErrorEvent \in Events /\ ErrorEvent.text = <<>> /\ ErrorEvent.finish = "none"
        /\ ErrorEvent.usage = NoUsage
    BY <1>8 DEF ErrorEvent, Events
  <2> QED
    BY <1>7, <1>10, <2>1
<1>11. CASE upstream = "ended" /\ vendor # "agent" /\ Forward(<<>>)
  <2>1. forwarded' = forwarded /\ accumulator' = accumulator
    BY <1>5, <1>11 DEF Forward
  <2> QED
    BY <1>6, <1>11, <2>1
<1> QED
  BY <1>9, <1>10, <1>11 DEF End

(* An object is taken off the wire: the k-th is the one taken last.        *)
LEMMA NextObjectStep ==
    ASSUME TranslationAssumption, TranslationInvariant, NextObject
    PROVE  TranslationInvariant'
<1>1. /\ phase = "reading" /\ ~Sse /\ wire # <<>>
      /\ wire' = Tail(wire) /\ got' = got + 1
      /\ held' = IF Head(wire).kind = "start" THEN Held(Head(wire)) ELSE held
      /\ Forward(Made(Head(wire)))
      /\ UNCHANGED <<vendor, said, buffer, upstream, phase>>
  BY DEF NextObject, Made
<1>2. /\ Typed /\ InPlace /\ Bounded /\ PromptHeld
      /\ Answer(vendor, said) /\ vendor \in Vendors
      /\ Len(said) \in Nat /\ DOMAIN said = 1..Len(said)
      /\ got \in Nat /\ Len(wire) \in Nat /\ DOMAIN wire = 1..Len(wire)
  BY InvariantParts
<1>3. PICK k \in 0..Len(said) : Parted(k) /\ Agrees(k)
  BY DEF TranslationInvariant
<1>4. vendor \notin Http /\ \A i \in 0..Len(said) : UpTo(vendor, said, i) = i
  <2>1. vendor \notin Http
    BY <1>1 DEF Sse, Http
  <2> QED
    BY <1>2, <2>1, ObjectPositions
<1>5. buffer = <<>> /\ Consumed = got /\ Len(wire) > 0
  BY <1>1, <1>2 DEF Typed, Consumed
<1>6. k = got /\ k + 1 \in DOMAIN said /\ k \in Nat
  <2>1. got + Len(wire) <= Len(said)
    BY <1>2, <1>4 DEF Bounded
  <2>2. \A i \in DOMAIN said : IF i <= k THEN i <= got ELSE got <= i - 1
    <3> SUFFICES ASSUME NEW i \in DOMAIN said PROVE IF i <= k THEN i <= got ELSE got <= i - 1
      OBVIOUS
    <3>1. i \in 0..Len(said) /\ i - 1 \in 0..Len(said)
      BY <1>2
    <3>2. UpTo(vendor, said, i) = i /\ UpTo(vendor, said, i - 1) = i - 1
      BY <1>4, <3>1
    <3> QED
      BY <1>3, <1>4, <1>5, <3>2 DEF Parted, Silent
  <2>3. got + 1 \in DOMAIN said /\ got < Len(said)
    BY <1>2, <1>5, <2>1
  <2>4. k <= got
    BY <1>2, <1>3, <2>2
  <2>5. ~(k < got)
    BY <1>2, <1>3, <2>2, <2>3
  <2> QED
    BY <1>2, <1>3, <2>3, <2>4, <2>5
<1> DEFINE f == said[k + 1]
<1>7. Head(wire) = f /\ f \in Frames(vendor)
  <2>1. f \in Frames(vendor) /\ Len(Units(vendor, f)) = 1 /\ Units(vendor, f)[1] = f
    BY <1>2, <1>4, <1>6, UnitsForm DEF Answer
  <2>2. 1 \in DOMAIN Units(vendor, f)
    BY <1>4 DEF Units
  <2>3. UpTo(vendor, said, k) = got
    BY <1>4, <1>6
  <2>4. Placed(vendor, said, got + 1, wire[1]) /\ Head(wire) = wire[1]
    BY <1>1, <1>2, <1>5 DEF InPlace
  <2>5. (k + 1) - 1 = k /\ got + 1 = UpTo(vendor, said, (k + 1) - 1) + 1
    BY <1>6, <2>3
  <2>6. wire[1] = Units(vendor, said[k + 1])[1]
    BY <1>6, <2>2, <2>4, <2>5 DEF Placed
  <2> QED
    BY <2>1, <2>4, <2>6
<1>8. vendor = "anthropic" =>
        /\ f.kind = "start" <=> got = 0
        /\ f.kind # "start" => held = said[1].usage[1] + said[1].usage[2]
  <2>1. vendor = "anthropic" => (f.kind = "start" <=> k + 1 = 1)
    BY <1>2, <1>6 DEF PromptHeld
  <2> QED
    BY <1>2, <1>6, <2>1 DEF PromptHeld
<1>9. Agrees(k + 1)' /\ forwarded' \in Seq(Events) /\ accumulator' \in Accumulators
  <2>1. /\ UNCHANGED <<vendor, said, upstream, phase>> /\ Forward(Made(f)) /\ phase = "reading"
        /\ Typed /\ Agrees(k) /\ k \in Nat /\ k + 1 \in DOMAIN said
        /\ vendor = "anthropic" /\ said[k + 1].kind # "start" =>
               held = said[1].usage[1] + said[1].usage[2]
    BY <1>1, <1>2, <1>3, <1>6, <1>7, <1>8
  <2> QED
    BY <2>1, TakesOne
<1>10. /\ wire' \in Seq(Alphabet(vendor)) /\ Len(wire') = Len(wire) - 1
       /\ DOMAIN wire' = 1..(Len(wire) - 1)
       /\ \A j \in DOMAIN wire' : wire'[j] = wire[1 + j] /\ 1 + j \in DOMAIN wire
  BY <1>1, <1>2, <1>5 DEF Typed
<1>11. held' \in Nat /\ PromptHeld'
  <2>1. CASE f.kind = "start"
    <3>1. vendor = "anthropic"
      <4>1. CASE vendor = "agent"
        <5>1. IsAgent(f)
          BY <1>2, <1>7, <4>1, FrameKinds
        <5> QED
          BY <2>1, <5>1 DEF IsAgent, Shape
      <4>2. vendor \in {"openai", "gemini", "anthropic", "agent"}
        BY <1>2, <1>7, FrameKinds
      <4> QED
        BY <1>4, <4>1, <4>2 DEF Http
    <3>2. IsSdk(f)
      BY <1>2, <1>7, <3>1, FrameKinds
    <3>3. f.usage \in Nat \X Nat
      BY <2>1, <3>2 DEF IsSdk, Shape
    <3>4. held' = f.usage[1] + f.usage[2]
      BY <1>1, <1>7, <2>1 DEF Held
    <3>5. k + 1 = 1
      BY <1>2, <1>6, <2>1, <3>1 DEF PromptHeld
    <3>6. held' = said[1].usage[1] + said[1].usage[2]
      BY <3>4, <3>5
    <3> QED
      BY <1>1, <1>2, <3>3, <3>4, <3>6 DEF PromptHeld
  <2>2. CASE f.kind # "start"
    <3>1. held' = held
      BY <1>1, <1>7, <2>2
    <3> QED
      BY <1>1, <1>2, <1>8, <2>2, <3>1 DEF PromptHeld, Typed
  <2> QED
    BY <2>1, <2>2
<1>12. Typed'
  BY <1>1, <1>2, <1>9, <1>10, <1>11 DEF Typed, Sse
<1>13. Consumed' = got + 1
  BY <1>1, <1>2, <1>5 DEF Consumed
<1>14. InPlace'
  <2>1. ASSUME NEW j \in DOMAIN wire'
        PROVE  Placed(vendor, said, got' + j, wire'[j])
    <3>1. wire'[j] = wire[1 + j] /\ 1 + j \in DOMAIN wire /\ got' + j = got + (1 + j)
      BY <1>1, <1>2, <1>10, <2>1
    <3> QED
      BY <1>2, <3>1 DEF InPlace
  <2>2. buffer' = <<>> /\ DOMAIN <<>> = {}
    BY <1>1, <1>5
  <2> QED
    BY <1>1, <2>1, <2>2 DEF InPlace
<1>15. Bounded'
  <2>1. UpTo(vendor, said, Len(said)) \in Nat
    BY <1>2, Positions
  <2> QED
    BY <1>1, <1>2, <1>5, <1>10, <2>1 DEF Bounded
<1>16. Parted(k + 1)'
  <2> SUFFICES ASSUME NEW i \in DOMAIN said
               PROVE  IF i <= k + 1 THEN UpTo(vendor, said, i) <= got + 1
                      ELSE got + 1 <= UpTo(vendor, said, i - 1)
    BY <1>1, <1>13 DEF Parted
  <2>1. UpTo(vendor, said, i) = i /\ UpTo(vendor, said, i - 1) = i - 1
    BY <1>2, <1>4
  <2> QED
    BY <1>2, <1>6, <2>1
<1>17. k + 1 \in 0..Len(said')
  BY <1>1, <1>2, <1>6
<1> QED
  BY <1>9, <1>11, <1>12, <1>14, <1>15, <1>16, <1>17 DEF TranslationInvariant

(* Nor does a step that leaves everything as it is.                        *)
LEMMA StutterStep ==
    ASSUME TranslationInvariant, UNCHANGED translationVars
    PROVE  TranslationInvariant'
BY DEF TranslationInvariant, translationVars, Typed, InPlace, Bounded, PromptHeld, Parted, Agrees,
       Consumed, Sse

(* What is in the buffer at a position of an event is of that event.       *)
LEMMA BufferHas ==
    ASSUME TranslationAssumption, TranslationInvariant,
           NEW i \in DOMAIN said, NEW m \in DOMAIN Units(vendor, said[i]),
           NEW j \in DOMAIN buffer, Consumed + j = UpTo(vendor, said, i - 1) + m
    PROVE  buffer[j] = Units(vendor, said[i])[m]
BY InvariantParts DEF InPlace, Placed

(* Whatever is in the buffer is of some event.                             *)
LEMMA BufferAt ==
    ASSUME TranslationAssumption, TranslationInvariant, NEW j \in DOMAIN buffer
    PROVE  \E i \in DOMAIN said : \E m \in DOMAIN Units(vendor, said[i]) :
              /\ Consumed + j = UpTo(vendor, said, i - 1) + m
              /\ buffer[j] = Units(vendor, said[i])[m]
<1>1. /\ Answer(vendor, said) /\ Bounded
      /\ Consumed \in Nat /\ got \in Nat /\ Len(buffer) \in Nat /\ Len(wire) \in Nat
      /\ j \in 1..Len(buffer) /\ UpTo(vendor, said, Len(said)) \in Nat
  BY InvariantParts
<1> DEFINE q == Consumed + j
<1>2. q \in Nat /\ 0 < q /\ q <= UpTo(vendor, said, Len(said))
  BY <1>1 DEF Consumed, Bounded
<1> HIDE DEF q
<1>3. PICK i \in DOMAIN said :
         \E m \in DOMAIN Units(vendor, said[i]) : q = UpTo(vendor, said, i - 1) + m
  BY <1>1, <1>2, Located
<1>5. PICK m \in DOMAIN Units(vendor, said[i]) : q = UpTo(vendor, said, i - 1) + m
  BY <1>3
<1>4. buffer[j] = Units(vendor, said[i])[m]
  BY <1>5, BufferHas DEF q
<1> QED
  BY <1>4, <1>5 DEF q

(* What the buffer holds of an event that is not through yet.              *)
LEMMA Unconsumed ==
    ASSUME TranslationAssumption, TranslationInvariant, Sse,
           NEW k \in 0..Len(said), Parted(k),
           NEW i \in DOMAIN said, i > k, ~Silent(vendor, said[i])
    PROVE  LET d == UpTo(vendor, said, i - 1) - Consumed IN
           /\ d \in Nat /\ UpTo(vendor, said, i) = Consumed + d + 4
           /\ d + 1 \in DOMAIN buffer => buffer[d + 1] = Data
           /\ d + 2 \in DOMAIN buffer => buffer[d + 2] = said[i]
           /\ d + 3 \in DOMAIN buffer => buffer[d + 3] = NL
           /\ d + 4 \in DOMAIN buffer => buffer[d + 4] = NL
           /\ said[i] # NL /\ said[i] # Data
<1> DEFINE u == Units(vendor, said[i])
           p == UpTo(vendor, said, i - 1)
           d == p - Consumed
<1>1. /\ Answer(vendor, said) /\ Consumed \in Nat /\ vendor \in Vendors
      /\ Len(said) \in Nat /\ DOMAIN said = 1..Len(said)
  BY InvariantParts
<1>2. /\ u \in Seq(Alphabet(vendor)) /\ Len(u) = 4
      /\ u[1] = Data /\ u[2] = said[i] /\ u[3] = NL /\ u[4] = NL
      /\ said[i] # NL /\ said[i] # Data
  <2>1. said[i] \in Frames(vendor) /\ vendor \in Http
    BY <1>1 DEF Answer, Sse, Http
  <2> QED
    BY <1>1, <2>1, UnitsForm
<1>3. p \in Nat /\ UpTo(vendor, said, i) = p + 4
  <2>1. UpTo(vendor, said, i) = UpTo(vendor, said, i - 1) + Len(u)
    BY <1>1, Positions
  <2>2. i - 1 \in 0..Len(said)
    BY <1>1
  <2>3. p \in Nat
    BY <1>1, <2>2, Positions
  <2> QED
    BY <1>2, <2>1, <2>3
<1>4. Consumed <= p
  <2>1. ~(i <= k)
    BY <1>1
  <2> QED
    BY <2>1 DEF Parted
<1>5. d \in Nat /\ UpTo(vendor, said, i) = Consumed + d + 4
  BY <1>1, <1>3, <1>4
<1>6. DOMAIN u = {1, 2, 3, 4}
  BY <1>2
<1>7. ASSUME NEW m \in DOMAIN u, d + m \in DOMAIN buffer
      PROVE  buffer[d + m] = u[m]
  <2>1. Consumed + (d + m) = UpTo(vendor, said, i - 1) + m
    BY <1>1, <1>3, <1>6, <1>7
  <2>2. m \in DOMAIN Units(vendor, said[i])
    BY <1>7
  <2> DEFINE j == d + m
  <2>3. j \in DOMAIN buffer /\ Consumed + j = UpTo(vendor, said, i - 1) + m
    BY <1>7, <2>1
  <2> HIDE DEF j
  <2>4. buffer[j] = Units(vendor, said[i])[m]
    BY <2>2, <2>3, BufferHas
  <2> QED
    BY <2>4 DEF j
<1> HIDE DEF u, d
<1>8. /\ d + 1 \in DOMAIN buffer => buffer[d + 1] = Data
      /\ d + 2 \in DOMAIN buffer => buffer[d + 2] = said[i]
      /\ d + 3 \in DOMAIN buffer => buffer[d + 3] = NL
      /\ d + 4 \in DOMAIN buffer => buffer[d + 4] = NL
  BY <1>2, <1>6, <1>7
<1> QED
  BY <1>2, <1>5, <1>8 DEF d

(* One that has come to its last byte shows: its end is a boundary.        *)
LEMMA WholeEvent ==
    ASSUME TranslationAssumption, TranslationInvariant, Sse,
           NEW k \in 0..Len(said), Parted(k),
           NEW i \in DOMAIN said, i > k, ~Silent(vendor, said[i]),
           UpTo(vendor, said, i) <= got
    PROVE  UpTo(vendor, said, i) - 1 - Consumed \in Boundaries(buffer)
<1> DEFINE d == UpTo(vendor, said, i - 1) - Consumed
<1>1. /\ Consumed \in Nat /\ got \in Nat /\ Len(buffer) \in Nat
      /\ DOMAIN buffer = 1..Len(buffer)
  BY InvariantParts
<1>2. /\ d \in Nat /\ UpTo(vendor, said, i) = Consumed + d + 4
      /\ d + 3 \in DOMAIN buffer => buffer[d + 3] = NL
      /\ d + 4 \in DOMAIN buffer => buffer[d + 4] = NL
  BY Unconsumed
<1> HIDE DEF d
<1>3. d + 4 <= Len(buffer)
  BY <1>1, <1>2 DEF Consumed
<1>4. /\ d + 3 \in 1..Len(buffer) - 1 /\ (d + 3) + 1 = d + 4
      /\ d + 3 \in DOMAIN buffer /\ d + 4 \in DOMAIN buffer
  BY <1>1, <1>2, <1>3
<1>5. d + 3 \in Boundaries(buffer)
  BY <1>2, <1>4 DEF Boundaries
<1>6. UpTo(vendor, said, i) - 1 - Consumed = d + 3
  BY <1>1, <1>2
<1> QED
  BY <1>5, <1>6

(* `data:' only ever begins an event that is not through.                  *)
LEMMA DataAt ==
    ASSUME TranslationAssumption, TranslationInvariant, Sse,
           NEW k \in 0..Len(said), Parted(k),
           NEW j \in DOMAIN buffer, buffer[j] = Data
    PROVE  \E i \in DOMAIN said : /\ i > k /\ ~Silent(vendor, said[i])
                                  /\ Consumed + j = UpTo(vendor, said, i - 1) + 1
<1>0. PICK i \in DOMAIN said :
         \E m \in DOMAIN Units(vendor, said[i]) :
            /\ Consumed + j = UpTo(vendor, said, i - 1) + m
            /\ buffer[j] = Units(vendor, said[i])[m]
  BY BufferAt
<1>1. PICK m \in DOMAIN Units(vendor, said[i]) :
            /\ Consumed + j = UpTo(vendor, said, i - 1) + m
            /\ buffer[j] = Units(vendor, said[i])[m]
  BY <1>0
<1>2. /\ Answer(vendor, said) /\ vendor \in Vendors /\ Consumed \in Nat
      /\ Len(buffer) \in Nat /\ j \in 1..Len(buffer) /\ Len(said) \in Nat
      /\ DOMAIN said = 1..Len(said) /\ said[i] \in Frames(vendor) /\ vendor \in Http
  BY InvariantParts DEF Answer, Sse, Http
<1> DEFINE u == Units(vendor, said[i])
<1>3. ~Silent(vendor, said[i])
  BY <1>1, <1>2, UnitsForm
<1>4. /\ u \in Seq(Alphabet(vendor)) /\ Len(u) = 4 /\ u[2] # Data /\ u[3] # Data /\ u[4] # Data
  <2>1. /\ u \in Seq(Alphabet(vendor)) /\ Len(u) = 4
        /\ u[2] = said[i] /\ u[3] = NL /\ u[4] = NL /\ said[i] # Data
    BY <1>2, <1>3, UnitsForm
  <2> QED
    BY <2>1, BytesDiffer
<1>5. m = 1
  BY <1>1, <1>4
<1>6. i > k
  <2> SUFFICES ASSUME i <= k PROVE FALSE
    BY <1>2
  <2>1. UpTo(vendor, said, i) <= Consumed
    BY <1>3 DEF Parted
  <2>2. /\ UpTo(vendor, said, i - 1) + m <= UpTo(vendor, said, i)
        /\ UpTo(vendor, said, i - 1) \in Nat /\ UpTo(vendor, said, i) \in Nat
    BY <1>2, Inside
  <2> QED
    BY <1>1, <1>2, <1>5, <2>1, <2>2
<1> QED
  BY <1>1, <1>3, <1>5, <1>6

(* Where buffer.split cuts.                                                *)
LEMMA FirstBoundary ==
    ASSUME TranslationAssumption, TranslationInvariant, HasEvent,
           NEW b, b = Min(Boundaries(buffer))
    PROVE  /\ b \in Nat /\ 0 < b /\ b + 1 <= Len(buffer)
           /\ b \in DOMAIN buffer /\ b + 1 \in DOMAIN buffer
           /\ buffer[b] = NL /\ buffer[b + 1] = NL
           /\ \A j \in Boundaries(buffer) : b <= j
           /\ Sse
<1>1. /\ Typed /\ Len(buffer) \in Nat /\ DOMAIN buffer = 1..Len(buffer)
  BY InvariantParts
<1>2. b \in Boundaries(buffer) /\ \A j \in Boundaries(buffer) : b <= j
  <2>1. Boundaries(buffer) \in SUBSET Nat /\ Boundaries(buffer) # {}
    BY <1>1 DEF Boundaries, HasEvent
  <2> QED
    BY <2>1, LeastPosition
<1>3. b \in 1..(Len(buffer) - 1) /\ buffer[b] = NL /\ buffer[b + 1] = NL
  BY <1>2 DEF Boundaries
<1>4. buffer # <<>>
  BY <1>1, <1>3
<1> QED
  BY <1>1, <1>2, <1>3, <1>4 DEF Typed

(* It cuts at the end of an event with a payload, or before it, never      *)
(* within: of its four units only the third is a newline before another.   *)
LEMMA BoundaryFits ==
    ASSUME TranslationAssumption, TranslationInvariant, HasEvent,
           NEW k \in 0..Len(said), Parted(k),
           NEW b, b = Min(Boundaries(buffer)),
           NEW i \in DOMAIN said, i > k, ~Silent(vendor, said[i])
    PROVE  \/ Consumed + b + 1 <= UpTo(vendor, said, i - 1)
           \/ Consumed + b + 1 = UpTo(vendor, said, i)
<1> DEFINE d == UpTo(vendor, said, i - 1) - Consumed
<1>1. /\ b \in Nat /\ 0 < b /\ b + 1 <= Len(buffer)
      /\ b \in DOMAIN buffer /\ b + 1 \in DOMAIN buffer
      /\ buffer[b] = NL /\ buffer[b + 1] = NL
      /\ \A j \in Boundaries(buffer) : b <= j
      /\ Sse
  BY FirstBoundary
<1>2. /\ Consumed \in Nat /\ got \in Nat /\ Len(buffer) \in Nat
      /\ DOMAIN buffer = 1..Len(buffer) /\ UpTo(vendor, said, i - 1) \in Nat
  <2>1. Answer(vendor, said) /\ i - 1 \in 0..Len(said)
    BY InvariantParts
  <2> QED
    BY <2>1, InvariantParts, Positions
<1>3. /\ d \in Nat /\ UpTo(vendor, said, i) = Consumed + d + 4
      /\ d + 1 \in DOMAIN buffer => buffer[d + 1] = Data
      /\ d + 2 \in DOMAIN buffer => buffer[d + 2] = said[i]
      /\ said[i] # NL /\ said[i] # Data
  BY <1>1, Unconsumed
<1>4. UpTo(vendor, said, i - 1) = Consumed + d
  BY <1>2
<1>5. CASE d + 4 <= b + 1
  <2>1. UpTo(vendor, said, i) <= got
    <3>1. b \in Nat /\ b + 1 <= Len(buffer) /\ UpTo(vendor, said, i) = Consumed + d + 4
          /\ d \in Nat /\ d + 4 <= b + 1
      BY <1>1, <1>3, <1>5
    <3>2. Consumed \in Nat /\ got \in Nat /\ Len(buffer) \in Nat /\ Consumed = got - Len(buffer)
      BY <1>2 DEF Consumed
    <3> HIDE DEF d
    <3> QED
      BY <3>1, <3>2
  <2>2. UpTo(vendor, said, i) - 1 - Consumed \in Boundaries(buffer)
    BY <1>1, <2>1, WholeEvent
  <2>3. UpTo(vendor, said, i) - 1 - Consumed = d + 3
    BY <1>2, <1>3
  <2>4. b <= d + 3
    BY <1>1, <2>2, <2>3
  <2> HIDE DEF d
  <2>5. b + 1 = d + 4 /\ b \in Nat /\ d \in Nat /\ Consumed \in Nat
    BY <1>1, <1>2, <1>3, <1>5, <2>4
  <2>6. Consumed + b + 1 = Consumed + d + 4
    BY <2>5
  <2> QED
    BY <1>3, <2>6
<1> HIDE DEF d
<1>6. b + 1 # d + 1 /\ b + 1 # d + 2
  BY <1>1, <1>3, BytesDiffer
<1>7. b + 1 # d + 3
  <2> SUFFICES ASSUME b = d + 2 PROVE FALSE
    BY <1>1, <1>3
  <2> QED
    BY <1>1, <1>3
<1>8. b + 1 <= d \/ d + 4 <= b + 1
  BY <1>1, <1>3, <1>6, <1>7
<1> QED
  BY <1>1, <1>2, <1>3, <1>4, <1>5, <1>8

(* So what is read is nothing, with every payload still to come, or the    *)
(* payload of the first event that has one.                                *)
LEMMA PayloadRead ==
    ASSUME TranslationAssumption, TranslationInvariant, HasEvent,
           NEW k \in 0..Len(said), Parted(k),
           NEW b, b = Min(Boundaries(buffer))
    PROVE  \/ /\ Payload(RawEvent(buffer)) = <<>>
              /\ \A i \in DOMAIN said : i > k /\ ~Silent(vendor, said[i]) =>
                    Consumed + b + 1 <= UpTo(vendor, said, i - 1)
           \/ \E i \in DOMAIN said :
                 /\ i > k /\ Consumed + b + 1 = UpTo(vendor, said, i)
                 /\ Payload(RawEvent(buffer)) = <<said[i]>>
                 /\ \A j \in (k + 1)..(i - 1) : Silent(vendor, said[j])
<1> DEFINE raw == RawEvent(buffer)
           starts == {j \in DOMAIN raw : raw[j] = Data}
<1>1. /\ b \in Nat /\ 0 < b /\ b + 1 <= Len(buffer)
      /\ b \in DOMAIN buffer /\ b + 1 \in DOMAIN buffer
      /\ buffer[b] = NL /\ buffer[b + 1] = NL
      /\ Sse
  BY FirstBoundary
<1>2. /\ Consumed \in Nat /\ got \in Nat /\ Len(buffer) \in Nat
      /\ buffer \in Seq(Alphabet(vendor))
      /\ DOMAIN buffer = 1..Len(buffer) /\ Answer(vendor, said)
      /\ Len(said) \in Nat /\ DOMAIN said = 1..Len(said)
  BY InvariantParts DEF Typed
<1>3. /\ DOMAIN raw = 1..(b - 1)
      /\ \A j \in 1..(b - 1) : raw[j] = buffer[j] /\ j \in DOMAIN buffer
  <2>1. raw = SubSeq(buffer, 1, b - 1)
    BY DEF RawEvent
  <2> QED
    BY <1>1, <1>2, <2>1
<1>4. \A i \in 0..Len(said) : UpTo(vendor, said, i) \in Nat
  BY <1>2, Positions
<1>5. \A i, j \in 0..Len(said) : i <= j => UpTo(vendor, said, i) <= UpTo(vendor, said, j)
  BY <1>2, Positions
<1>6. ASSUME NEW j \in starts
      PROVE  \E i \in DOMAIN said : /\ i > k /\ ~Silent(vendor, said[i])
                                    /\ Consumed + j = UpTo(vendor, said, i - 1) + 1
  <2>1. j \in DOMAIN buffer /\ buffer[j] = Data
    BY <1>3
  <2> QED
    BY <1>1, <2>1, DataAt
<1>7. CASE \A i \in DOMAIN said : i > k /\ ~Silent(vendor, said[i]) =>
              Consumed + b + 1 <= UpTo(vendor, said, i - 1)
  <2>1. starts = {}
    <3> SUFFICES ASSUME NEW j \in starts PROVE FALSE
      OBVIOUS
    <3>1. PICK i \in DOMAIN said : /\ i > k /\ ~Silent(vendor, said[i])
                                   /\ Consumed + j = UpTo(vendor, said, i - 1) + 1
      BY <1>6
    <3>2. Consumed + b + 1 <= UpTo(vendor, said, i - 1)
      BY <1>7, <3>1
    <3>3. j \in 1..(b - 1) /\ i - 1 \in 0..Len(said)
      BY <1>2, <1>3
    <3> DEFINE p == UpTo(vendor, said, i - 1)
    <3>4. p \in Nat /\ Consumed + j = p + 1 /\ Consumed + b + 1 <= p
      BY <1>4, <3>1, <3>2, <3>3
    <3>5. Consumed \in Nat /\ b \in Nat /\ j \in Nat /\ j < b
      BY <1>1, <1>2, <3>3
    <3> HIDE DEF starts, raw, p
    <3> QED
      BY <3>4, <3>5
  <2>2. Payload(raw) = <<>>
    BY <2>1 DEF Payload
  <2> QED
    BY <1>7, <2>2
<1>8. ASSUME NEW i \in DOMAIN said, i > k, ~Silent(vendor, said[i]),
             ~(Consumed + b + 1 <= UpTo(vendor, said, i - 1))
      PROVE  /\ Consumed + b + 1 = UpTo(vendor, said, i)
             /\ Payload(RawEvent(buffer)) = <<said[i]>>
             /\ \A j \in (k + 1)..(i - 1) : Silent(vendor, said[j])
  <2> DEFINE d == UpTo(vendor, said, i - 1) - Consumed
  <2>1. Consumed + b + 1 = UpTo(vendor, said, i)
    BY <1>8, BoundaryFits
  <2>2. /\ d \in Nat /\ UpTo(vendor, said, i) = Consumed + d + 4
        /\ d + 1 \in DOMAIN buffer => buffer[d + 1] = Data
        /\ d + 2 \in DOMAIN buffer => buffer[d + 2] = said[i]
    BY <1>1, <1>8, Unconsumed
  <2>3. i \in Nat /\ i - 1 \in 0..Len(said) /\ k \in 0..Len(said) /\ i \in 0..Len(said)
        /\ i \in 1..Len(said)
    BY <1>2
  <2>4. UpTo(vendor, said, i - 1) = Consumed + d
    BY <1>2, <1>4, <2>3
  <2> HIDE DEF d
  <2>5. b = d + 3
    <3> DEFINE c == Consumed
    <3>1. c + b + 1 = c + d + 4
      BY <2>1, <2>2
    <3>2. c \in Nat /\ b \in Nat /\ d \in Nat
      BY <1>1, <1>2, <2>2
    <3> HIDE DEF c
    <3> QED
      BY <3>1, <3>2
  <2>6. ASSUME NEW j \in (k + 1)..(i - 1) PROVE Silent(vendor, said[j])
    <3> SUFFICES ASSUME ~Silent(vendor, said[j]) PROVE FALSE
      OBVIOUS
    <3>1. /\ j \in DOMAIN said /\ j > k /\ j \in 0..Len(said) /\ j - 1 \in 0..Len(said)
          /\ j <= i - 1 /\ j - 1 <= i - 1
      BY <1>2, <2>3
    <3>2. \/ Consumed + b + 1 <= UpTo(vendor, said, j - 1)
          \/ Consumed + b + 1 = UpTo(vendor, said, j)
      BY <3>1, BoundaryFits
    <3>3. /\ UpTo(vendor, said, j) <= UpTo(vendor, said, i - 1)
          /\ UpTo(vendor, said, j - 1) <= UpTo(vendor, said, i - 1)
      BY <1>5, <2>3, <3>1
    <3>4. /\ UpTo(vendor, said, j) \in Nat /\ UpTo(vendor, said, j - 1) \in Nat
          /\ UpTo(vendor, said, i - 1) \in Nat
      BY <1>4, <2>3, <3>1
    <3>6. Consumed + b + 1 \in Nat
      BY <1>1, <1>2
    <3>5. Consumed + b + 1 <= UpTo(vendor, said, i - 1)
      BY <3>2, <3>3, <3>4, <3>6
    <3> QED
      BY <1>8, <3>5
  <2>7. starts = {d + 1}
    <3>1. d + 1 \in starts
      <4>1. d + 1 \in 1..(b - 1)
        BY <1>1, <2>2, <2>5
      <4> QED
        BY <1>3, <2>2, <4>1
    <3>2. ASSUME NEW j \in starts PROVE j = d + 1
      <4>1. PICK h \in DOMAIN said : /\ h > k /\ ~Silent(vendor, said[h])
                                     /\ Consumed + j = UpTo(vendor, said, h - 1) + 1
        BY <1>6
      <4>2. j \in 1..(b - 1)
        BY <1>3
      <4>3. h \in 1..Len(said) /\ h \in 0..Len(said) /\ h - 1 \in 0..Len(said)
        BY <1>2
      <4> HIDE DEF starts
      <4>4. ~(h < i)
        <5>1. h < i => h \in (k + 1)..(i - 1)
          BY <2>3, <4>1, <4>3
        <5> QED
          BY <2>6, <4>1, <5>1
      <4>5. ~(i < h)
        <5> SUFFICES ASSUME i <= h - 1 PROVE FALSE
          BY <2>3, <4>3
        <5>1. UpTo(vendor, said, i) <= UpTo(vendor, said, h - 1)
          BY <1>5, <2>3, <4>3
        <5> DEFINE p == UpTo(vendor, said, h - 1)
        <5>2. p \in Nat /\ Consumed + b + 1 <= p /\ Consumed + j = p + 1
          BY <1>4, <2>1, <4>1, <4>3, <5>1
        <5>3. Consumed \in Nat /\ b \in Nat /\ j \in Nat /\ j < b
          BY <1>1, <1>2, <4>2
        <5> HIDE DEF p
        <5> QED
          BY <5>2, <5>3
      <4>6. h = i
        BY <2>3, <4>3, <4>4, <4>5
      <4>7. Consumed + j = Consumed + d + 1
        BY <2>4, <4>1, <4>6
      <4> QED
        BY <1>1, <1>2, <2>2, <4>2, <4>7
    <3> QED
      BY <3>1, <3>2
  <2>8. Payload(raw) = <<said[i]>>
    <3>1. Min(starts) = d + 1
      <4>1. starts \in SUBSET Nat /\ starts # {}
        BY <2>2, <2>7
      <4> HIDE DEF starts
      <4> QED
        BY <2>7, <4>1, LeastPosition
    <3>2. (d + 1) + 1 = d + 2 /\ d + 2 \in 1..(b - 1)
      BY <1>1, <2>2, <2>5
    <3>3. raw[d + 2] = said[i]
      BY <1>3, <2>2, <3>2
    <3>4. Payload(raw) = <<raw[Min(starts) + 1]>>
      BY <2>7 DEF Payload
    <3> QED
      BY <3>1, <3>2, <3>3, <3>4
  <2> QED
    BY <2>1, <2>6, <2>8
<1> HIDE DEF raw, starts
<1> QED
  BY <1>7, <1>8

(* A turn of the loop over the buffer takes that event, or only silence.   *)
LEMMA NextEventStep ==
    ASSUME TranslationAssumption, TranslationInvariant, NextEvent
    PROVE  TranslationInvariant'
<1> DEFINE b == Min(Boundaries(buffer))
           payload == Payload(RawEvent(buffer))
<1>1. /\ phase = "reading" /\ HasEvent
      /\ Forward(IF payload = <<>> THEN <<>> ELSE FromJson(payload[1]))
      /\ buffer' = SubSeq(buffer, b + 2, Len(buffer))
      /\ UNCHANGED <<vendor, said, wire, got, held, upstream, phase>>
  BY DEF NextEvent, Rest
<1>2. /\ b \in Nat /\ 0 < b /\ b + 1 <= Len(buffer) /\ Sse
  BY <1>1, FirstBoundary
<1>3. /\ Typed /\ InPlace /\ Bounded /\ PromptHeld
      /\ Answer(vendor, said) /\ vendor \in Vendors
      /\ Consumed \in Nat /\ got \in Nat /\ Len(buffer) \in Nat /\ Len(buffer) <= got
      /\ buffer \in Seq(Alphabet(vendor))
      /\ Len(said) \in Nat /\ DOMAIN said = 1..Len(said)
  BY InvariantParts DEF Typed
<1>4. PICK k \in 0..Len(said) : Parted(k) /\ Agrees(k)
  BY DEF TranslationInvariant
<1>5. \/ /\ payload = <<>>
         /\ \A i \in DOMAIN said : i > k /\ ~Silent(vendor, said[i]) =>
               Consumed + b + 1 <= UpTo(vendor, said, i - 1)
      \/ \E i \in DOMAIN said :
            /\ i > k /\ Consumed + b + 1 = UpTo(vendor, said, i)
            /\ payload = <<said[i]>>
            /\ \A j \in (k + 1)..(i - 1) : Silent(vendor, said[j])
  BY <1>1, <1>4, PayloadRead
<1> HIDE DEF b, payload
<1>6. /\ buffer' \in Seq(Alphabet(vendor)) /\ Len(buffer') = Len(buffer) - (b + 1)
      /\ DOMAIN buffer' = 1..(Len(buffer) - (b + 1))
      /\ \A j \in DOMAIN buffer' : buffer'[j] = buffer[(b + 1) + j] /\ (b + 1) + j \in DOMAIN buffer
  <2> DEFINE n == b + 1
  <2>1. n \in 0..Len(buffer) /\ n + 1 = b + 2
    BY <1>2, <1>3
  <2> HIDE DEF n
  <2>2. buffer' = SubSeq(buffer, n + 1, Len(buffer))
    BY <1>1, <2>1
  <2>3. /\ buffer' \in Seq(Alphabet(vendor)) /\ Len(buffer') = Len(buffer) - n
        /\ DOMAIN buffer' = 1..(Len(buffer) - n)
        /\ \A j \in DOMAIN buffer' : buffer'[j] = buffer[n + j] /\ n + j \in DOMAIN buffer
    BY <1>3, <2>1, <2>2, SuffixForm
  <2> QED
    BY <2>3 DEF n
<1>7. Consumed' = Consumed + b + 1
  <2>1. got' = got /\ Len(buffer') = Len(buffer) - (b + 1)
    BY <1>1, <1>6
  <2>2. b \in Nat /\ got \in Nat /\ Len(buffer) \in Nat
    BY <1>2, <1>3
  <2> QED
    BY <2>1, <2>2 DEF Consumed
<1>8. InPlace'
  <2>1. ASSUME NEW j \in DOMAIN buffer'
        PROVE  Placed(vendor, said, Consumed' + j, buffer'[j])
    <3>1. buffer'[j] = buffer[(b + 1) + j] /\ (b + 1) + j \in DOMAIN buffer
      BY <1>6
    <3>2. Consumed' + j = Consumed + ((b + 1) + j)
      <4>1. j \in 1..(Len(buffer) - (b + 1))
        BY <1>6
      <4> QED
        BY <1>2, <1>3, <1>7, <4>1
    <3>3. Placed(vendor, said, Consumed + ((b + 1) + j), buffer[(b + 1) + j])
      BY <1>3, <3>1 DEF InPlace
    <3> QED
      BY <3>1, <3>2, <3>3
  <2> QED
    BY <1>1, <1>3, <2>1 DEF InPlace
<1>9. Bounded'
  <2>1. Len(buffer') <= got
    BY <1>2, <1>3, <1>6
  <2> QED
    BY <1>1, <1>3, <2>1 DEF Bounded
<1>10. PromptHeld'
  BY <1>1, <1>3 DEF PromptHeld
<1>11. ASSUME forwarded' \in Seq(Events), accumulator' \in Accumulators
       PROVE  Typed'
  BY <1>1, <1>2, <1>3, <1>6, <1>11 DEF Typed, Sse
<1>12. forwarded \in Seq(Events) /\ accumulator \in Accumulators
  BY <1>3 DEF Typed
<1>13. CASE /\ payload = <<>>
            /\ \A i \in DOMAIN said : i > k /\ ~Silent(vendor, said[i]) =>
                  Consumed + b + 1 <= UpTo(vendor, said, i - 1)
  <2>1. forwarded' = forwarded /\ accumulator' = accumulator
    BY <1>1, <1>12, <1>13 DEF Forward
  <2>2. Agrees(k)'
    BY <1>1, <1>4, <2>1 DEF Agrees
  <2>3. Parted(k)'
    <3> SUFFICES ASSUME NEW i \in DOMAIN said, ~Silent(vendor, said[i])
                 PROVE  IF i <= k THEN UpTo(vendor, said, i) <= Consumed'
                        ELSE Consumed' <= UpTo(vendor, said, i - 1)
      BY <1>1 DEF Parted
    <3>1. UpTo(vendor, said, i) \in Nat
      <4>1. i \in 0..Len(said)
        BY <1>3
      <4> QED
        BY <1>3, <4>1, Positions
    <3>2. CASE i <= k
      <4>1. UpTo(vendor, said, i) <= Consumed
        BY <1>4, <3>2 DEF Parted
      <4> QED
        BY <1>2, <1>3, <1>7, <3>1, <3>2, <4>1
    <3>3. CASE ~(i <= k)
      <4>1. i > k
        BY <1>3, <1>4, <3>3
      <4> QED
        BY <1>7, <1>13, <3>3, <4>1
    <3> QED
      BY <3>2, <3>3
  <2>4. Typed'
    BY <1>11, <1>12, <2>1
  <2> QED
    BY <1>1, <1>4, <1>8, <1>9, <1>10, <2>2, <2>3, <2>4 DEF TranslationInvariant
<1>14. ASSUME NEW i \in DOMAIN said,
              i > k, Consumed + b + 1 = UpTo(vendor, said, i),
              payload = <<said[i]>>,
              \A j \in (k + 1)..(i - 1) : Silent(vendor, said[j])
       PROVE  TranslationInvariant'
  <2> DEFINE h == i - 1
  <2>1. h \in Nat /\ h + 1 = i /\ h \in k..Len(said) /\ h + 1 \in DOMAIN said
    BY <1>3, <1>14
  <2>2. Agrees(h)
    <3>2. \A j \in (k + 1)..h : Silent(vendor, said[j])
      BY <1>14
    <3> HIDE DEF h
    <3>3. /\ Told(said, h) = Told(said, k) /\ Stopped(said, h) = Stopped(said, k)
          /\ Texts(said, h) = Texts(said, k)
          /\ UsageOf(vendor, said, h) = UsageOf(vendor, said, k)
      BY <1>3, <1>4, <2>1, <3>2, SilenceAdds
    <3> QED
      BY <1>4, <3>3 DEF Agrees
  <2>3. Forward(Made(said[h + 1]))
    <3>1. payload # <<>> /\ payload[1] = said[i]
      BY <1>14
    <3>2. Forward(FromJson(said[i]))
      BY <1>1, <3>1
    <3> QED
      BY <1>2, <2>1, <3>2 DEF Made
  <2> HIDE DEF h
  <2>4. Agrees(h + 1)' /\ forwarded' \in Seq(Events) /\ accumulator' \in Accumulators
    <3>1. vendor # "anthropic" /\ UNCHANGED <<vendor, said, upstream, phase>>
      BY <1>1, <1>2 DEF Sse, Http
    <3> QED
      BY <1>1, <1>3, <2>1, <2>2, <2>3, <3>1, TakesOne
  <2>5. Parted(h + 1)'
    <3> SUFFICES ASSUME NEW j \in DOMAIN said
                 PROVE  IF j <= i THEN UpTo(vendor, said, j) <= UpTo(vendor, said, i)
                        ELSE UpTo(vendor, said, i) <= UpTo(vendor, said, j - 1)
      BY <1>1, <1>7, <1>14, <2>1 DEF Parted
    <3>1. i \in 0..Len(said) /\ j \in 0..Len(said) /\ j - 1 \in 0..Len(said)
          /\ (~(j <= i) => i <= j - 1)
      BY <1>3
    <3>2. \A x, y \in 0..Len(said) : x <= y => UpTo(vendor, said, x) <= UpTo(vendor, said, y)
      BY <1>3, Positions
    <3> QED
      BY <3>1, <3>2
  <2>6. Typed'
    BY <1>11, <2>4
  <2>7. h + 1 \in 0..Len(said')
    BY <1>1, <1>3, <2>1
  <2> QED
    BY <1>8, <1>9, <1>10, <2>4, <2>5, <2>6, <2>7 DEF TranslationInvariant
<1> QED
  BY <1>5, <1>13, <1>14

(* The invariant of an answer's way through framing, translation and       *)
(* tee_stream, for any events of the assumed shapes, cut anywhere.         *)
THEOREM TranslationInductive == TranslationSpec => []TranslationInvariant
<1> USE TranslationAssumption
<1>1. TranslationInit => TranslationInvariant
  BY InvariantInitially
<1>2. TranslationInvariant /\ [TranslationNext]_translationVars => TranslationInvariant'
  <2> SUFFICES ASSUME TranslationInvariant, [TranslationNext]_translationVars PROVE TranslationInvariant'
    OBVIOUS
  <2>1. CASE Send
    BY <2>1, SendStep
  <2>2. CASE Hang
    BY <2>2, HangStep
  <2>3. CASE Chunk
    BY <2>3, ChunkStep
  <2>4. CASE NextEvent
    BY <2>4, NextEventStep
  <2>5. CASE NextObject
    BY <2>5, NextObjectStep
  <2>6. CASE End
    BY <2>6, EndStep
  <2>7. CASE UNCHANGED translationVars
    BY <2>7, StutterStep
  <2> QED
    BY <2>1, <2>2, <2>3, <2>4, <2>5, <2>6, <2>7 DEF TranslationNext
<1> QED
  BY <1>1, <1>2, PTL DEF TranslationSpec

-----------------------------------------------------------------------------
(* How many events have come to their last byte.                           *)
Came == Max({i \in 0..Len(said) : UpTo(vendor, said, i) <= got})

(* They are the reference's Complete.                                      *)
LEMMA CompleteForm ==
    ASSUME TranslationAssumption, TranslationInvariant
    PROVE  /\ Came \in 0..Len(said)
           /\ UpTo(vendor, said, Came) <= got
           /\ \A i \in 0..Len(said) : UpTo(vendor, said, i) <= got => i <= Came
           /\ DOMAIN Complete = 1..Came
           /\ \A i \in 1..Came : Complete[i] = said[i]
<1> DEFINE S == {i \in 0..Len(said) : UpTo(vendor, said, i) <= got}
<1>1. /\ Answer(vendor, said) /\ Len(said) \in Nat /\ got \in Nat
      /\ said \in Seq(Frames(vendor))
  BY InvariantParts DEF Answer
<1>2. S \in SUBSET (0..Len(said)) /\ S # {}
  <2>1. UpTo(vendor, said, 0) = 0
    BY <1>1, Positions
  <2>2. 0 \in S
    BY <1>1, <2>1
  <2> QED
    BY <2>2
<1>3. Max(S) \in S /\ \A i \in S : i <= Max(S)
  <2> HIDE DEF S
  <2> QED
    BY <1>1, <1>2, LargestThere
<1>4. Came = Max(S)
  BY DEF Came
<1>5. /\ Came \in 0..Len(said) /\ UpTo(vendor, said, Came) <= got
      /\ \A i \in 0..Len(said) : UpTo(vendor, said, i) <= got => i <= Came
  BY <1>3, <1>4
<1>6. Complete = SubSeq(said, 1, Came)
  BY DEF Complete, Came
<1> HIDE DEF S
<1>7. DOMAIN Complete = 1..Came /\ \A i \in 1..Came : Complete[i] = said[i]
  BY <1>1, <1>5, <1>6
<1> QED
  BY <1>5, <1>7

(* When no event is whole in the buffer, what is through and what has come *)
(* differ by silent events at most.                                        *)
LEMMA AgreesWithComplete ==
    ASSUME TranslationAssumption, TranslationInvariant, CaughtUp
    PROVE  Agrees(Came)
<1>1. /\ Answer(vendor, said) /\ Typed
      /\ Len(said) \in Nat /\ DOMAIN said = 1..Len(said)
      /\ got \in Nat /\ Consumed \in Nat /\ Consumed <= got
  BY InvariantParts
<1>2. PICK k \in 0..Len(said) : Parted(k) /\ Agrees(k)
  BY DEF TranslationInvariant
<1>3. /\ Came \in 0..Len(said)
      /\ UpTo(vendor, said, Came) <= got
      /\ \A i \in 0..Len(said) : UpTo(vendor, said, i) <= got => i <= Came
  BY CompleteForm
<1>4. \A i \in 0..Len(said) : UpTo(vendor, said, i) \in Nat
  BY <1>1, Positions
<1>5. ASSUME NEW i \in (k + 1)..Came PROVE Silent(vendor, said[i])
  <2> SUFFICES ASSUME ~Silent(vendor, said[i]) PROVE FALSE
    OBVIOUS
  <2>1. /\ i \in DOMAIN said /\ i > k /\ i \in 0..Len(said) /\ i - 1 \in 0..Len(said)
        /\ i <= Came /\ ~(i <= k)
    BY <1>1, <1>2, <1>3
  <2>2. UpTo(vendor, said, i) <= UpTo(vendor, said, Came)
    BY <1>1, <1>3, <2>1, Positions
  <2>3. UpTo(vendor, said, i) <= got
    BY <1>1, <1>3, <1>4, <2>1, <2>2
  <2>4. CASE Sse
    BY <1>2, <2>1, <2>3, <2>4, WholeEvent DEF CaughtUp, HasEvent
  <2>5. CASE ~Sse
    <3>1. Consumed = got
      BY <1>1, <2>5 DEF Typed, Consumed
    <3>2. Consumed <= UpTo(vendor, said, i - 1)
      BY <1>2, <2>1 DEF Parted
    <3>3. UpTo(vendor, said, i - 1) < UpTo(vendor, said, i)
      BY <1>1, <2>1, Positions
    <3> QED
      BY <1>1, <1>4, <2>1, <2>3, <3>1, <3>2, <3>3
  <2> QED
    BY <2>4, <2>5
<1>6. ASSUME NEW i \in (Came + 1)..k PROVE Silent(vendor, said[i])
  <2> SUFFICES ASSUME ~Silent(vendor, said[i]) PROVE FALSE
    OBVIOUS
  <2>1. i \in DOMAIN said /\ i <= k /\ i \in 0..Len(said) /\ ~(i <= Came)
    BY <1>1, <1>2, <1>3
  <2>2. UpTo(vendor, said, i) <= Consumed
    BY <1>2, <2>1 DEF Parted
  <2>3. UpTo(vendor, said, i) <= got
    BY <1>1, <1>4, <2>1, <2>2
  <2> QED
    BY <1>3, <2>1, <2>3
<1>7. /\ Told(said, Came) = Told(said, k) /\ Stopped(said, Came) = Stopped(said, k)
      /\ Texts(said, Came) = Texts(said, k)
      /\ UsageOf(vendor, said, Came) = UsageOf(vendor, said, k)
  <2>1. CASE k <= Came
    <3>1. Came \in k..Len(said)
      BY <1>2, <1>3, <2>1
    <3> QED
      BY <1>1, <1>2, <1>5, <3>1, SilenceAdds
  <2>2. CASE Came <= k
    <3>1. k \in Came..Len(said)
      BY <1>2, <1>3, <2>2
    <3> QED
      BY <1>1, <1>3, <1>6, <3>1, SilenceAdds
  <2> QED
    BY <1>2, <1>3, <2>1, <2>2
<1> QED
  BY <1>2, <1>7 DEF Agrees

(* So the four properties follow.                                          *)
LEMMA InvariantTells ==
    ASSUME TranslationAssumption, TranslationInvariant
    PROVE  OneForOne /\ TextIsTheVendors /\ UsageIsTheVendors /\ FinishedIffSaid
<1>1. /\ DOMAIN Complete = 1..Came
      /\ \A i \in 1..Came : Complete[i] = said[i]
      /\ Came \in Nat
  BY CompleteForm, InvariantParts
<1>2. CaughtUp => Agrees(Came)
  BY AgreesWithComplete
<1>3. OneForOne
  <2>1. {i \in DOMAIN Complete : Telling(Complete[i])} = Told(said, Came)
    BY <1>1 DEF Told
  <2> QED
    BY <1>2, <2>1 DEF OneForOne, Agrees
<1>4. TextIsTheVendors
  <2>1. [i \in DOMAIN Complete |-> Complete[i].text] = [i \in 1..Came |-> said[i].text]
    BY <1>1
  <2> QED
    BY <1>2, <2>1 DEF TextIsTheVendors, Agrees, Texts
<1>5. UsageIsTheVendors
  <2> DEFINE last == LastOf(LAMBDA f : f.kind # "start" /\ f.usage # NoUsage)
  <2>1. last = IF Counted(said, Came) = {} THEN Plain("none") ELSE said[Max(Counted(said, Came))]
    <3>1. {i \in DOMAIN Complete : Complete[i].kind # "start" /\ Complete[i].usage # NoUsage}
             = Counted(said, Came)
      BY <1>1 DEF Counted
    <3>2. last = IF Counted(said, Came) = {} THEN Plain("none")
                 ELSE Complete[Max(Counted(said, Came))]
      BY <3>1 DEF LastOf
    <3>3. Counted(said, Came) # {} => Max(Counted(said, Came)) \in 1..Came
      <4>1. Counted(said, Came) \in SUBSET (0..Came) /\ Counted(said, Came) \subseteq 1..Came
        BY <1>1 DEF Counted
      <4> QED
        BY <1>1, <4>1, LargestThere
    <3> QED
      BY <1>1, <3>2, <3>3
  <2>2. Sse <=> vendor \in Http
    BY DEF Sse, Http
  <2> HIDE DEF last
  <2>3. CaughtUp => accumulator.usage = UsageOf(vendor, said, Came)
    BY <1>2 DEF Agrees
  <2> QED
    BY <2>1, <2>2, <2>3 DEF UsageIsTheVendors, UsageOf, last
<1>6. FinishedIffSaid
  <2> DEFINE last == LastOf(LAMBDA f : f.finish # "none")
  <2>1. last # Plain("none") <=> Stopped(said, Came) # {}
    <3>1. {i \in DOMAIN Complete : Complete[i].finish # "none"} = Stopped(said, Came)
      BY <1>1 DEF Stopped
    <3>2. last = IF Stopped(said, Came) = {} THEN Plain("none")
                 ELSE Complete[Max(Stopped(said, Came))]
      BY <3>1 DEF LastOf
    <3>3. Stopped(said, Came) # {} => Complete[Max(Stopped(said, Came))].finish # "none"
      <4> SUFFICES ASSUME Stopped(said, Came) # {}
                   PROVE  Complete[Max(Stopped(said, Came))].finish # "none"
        OBVIOUS
      <4>1. Stopped(said, Came) \in SUBSET (0..Came)
        BY <1>1 DEF Stopped
      <4>2. Max(Stopped(said, Came)) \in Stopped(said, Came)
        BY <1>1, <4>1, LargestThere
      <4> QED
        BY <1>1, <4>2 DEF Stopped
    <3>4. Plain("none").finish = "none"
      BY DEF Plain, Frame
    <3> QED
      BY <3>2, <3>3, <3>4
  <2> HIDE DEF last
  <2>2. CaughtUp => (accumulator.finish # "none") =
                       IF vendor = "agent" THEN phase = "done" /\ upstream = "ended"
                       ELSE Stopped(said, Came) # {}
    BY <1>2 DEF Agrees
  <2>3. CaughtUp => (accumulator.finish # "none") =
                       IF vendor = "agent" THEN phase = "done" /\ upstream = "ended"
                       ELSE last # Plain("none")
    BY <2>1, <2>2
  <2> QED
    BY <2>3 DEF FinishedIffSaid, last
<1> QED
  BY <1>3, <1>4, <1>5, <1>6

(* Events, chunks, buffers and the accumulator keep their shapes, whatever *)
(* an upstream sends; an sdk's or an agent's answer has no buffer.         *)
THEOREM TranslationTypeCorrect == TranslationSpec => []Typed
<1>1. TranslationInvariant => Typed
  BY DEF TranslationInvariant
<1> QED
  BY <1>1, TranslationInductive, PTL

(* Whenever the gateway waits for more, it has forwarded one event for     *)
(* each that came to its last byte and tells something (sse.py's loop over *)
(* the buffer, with the adapters' loops over it): wherever chunks are cut, *)
(* none is lost, doubled or kept for the next one.                         *)
THEOREM EachOnce == TranslationSpec => []OneForOne
<1> USE TranslationAssumption
<1>1. TranslationInvariant => OneForOne
  BY InvariantTells
<1> QED
  BY <1>1, TranslationInductive, PTL

(* The text tee_stream accumulates, for the cache, is the upstream's text  *)
(* as far as it has come, in its order.                                    *)
THEOREM TextIsTrue == TranslationSpec => []TextIsTheVendors
<1> USE TranslationAssumption
<1>1. TranslationInvariant => TextIsTheVendors
  BY InvariantTells
<1> QED
  BY <1>1, TranslationInductive, PTL

(* The usage the limiter is reconciled with is the upstream's last word,   *)
(* put together from two events where the sdk splits it                    *)
(* (_translate_events).                                                    *)
THEOREM UsageIsTrue == TranslationSpec => []UsageIsTheVendors
<1> USE TranslationAssumption
<1>1. TranslationInvariant => UsageIsTheVendors
  BY InvariantTells
<1> QED
  BY <1>1, TranslationInductive, PTL

(* An answer counts as finished exactly if an event that came whole gave a *)
(* reason, or if an agent's ended; later events and errors do not take it  *)
(* back.                                                                   *)
THEOREM FinishIsTrue == TranslationSpec => []FinishedIffSaid
<1> USE TranslationAssumption
<1>1. TranslationInvariant => FinishedIffSaid
  BY InvariantTells
<1> QED
  BY <1>1, TranslationInductive, PTL

=============================================================================
