----------------------------- MODULE StreamProxy -----------------------------
(***************************************************************************)
(* One request from the breaker's admission to the end of its response:    *)
(* _stream_and_finalize (generate.py) around stream_with_retry and         *)
(* tee_stream (streaming.py) around one provider's stream().               *)
(*                                                                         *)
(* These are nested asynchronous generators, so at any moment exactly one  *)
(* await is pending; pc names it.  What can happen there is a disjunct:    *)
(* what the upstream answers, an exception the provider does not catch, a  *)
(* client that takes the chunk it was handed, or, once the client is gone, *)
(* the cancellation of what is pending.                                    *)
(*                                                                         *)
(* Provider kinds: "http" is gemini.py and openai.py, whose stream() has   *)
(* the same control; "sdk" is anthropic.py; "agent" is agent.py.           *)
(***************************************************************************)
EXTENDS Naturals, Sequences, FiniteSets

CONSTANTS
    Kinds,              \* the provider kinds, a subset of ProviderKind
    MaxRetries,         \* stream_with_retry's max_retries
    ProviderRetries,    \* _MAX_RETRIES of an http provider, max_retries of the sdk
    MaxChunks           \* bound: what an upstream sends before it ends or fails

ProviderKind == {"http", "sdk", "agent"}

ASSUME StreamAssumption ==
    /\ Kinds \subseteq ProviderKind
    /\ MaxRetries \in Nat /\ ProviderRetries \in Nat
    /\ MaxChunks \in Nat

VARIABLES
    kind,       \* the request's provider
    caching,    \* whether the request is cache-eligible
    pc,         \* the await the request is suspended in
    attempts,   \* stream_with_retry's counter
    tries,      \* the provider's counter of its own attempts
    yielded,    \* its yielded_any, of the current one
    calls,      \* history: calls made to the upstream, the sdk's own included
    links,      \* the calls whose connection is open
    chunk,      \* the chunk handed to the client and not yet parsed
    out,        \* history: what the client was sent, in order
    acc,        \* the StreamAccumulator
    client,     \* "here" or "gone"
    outcome,    \* what the breaker was told: "none", "success", "failure"
    stored      \* the text the cache was given, or NoText

provider == <<tries, yielded, calls, links>>
vars == <<kind, caching, pc, attempts, provider, chunk, out, acc, client, outcome, stored>>

NoText == <<0>>
NoChunk == [kind |-> "none", call |-> 0, then |-> "none"]
ChunkKind == {"text", "usage", "finish", "error", "terminal"}
(* Where the provider, or stream_with_retry, goes on after a chunk.        *)
Continuation == {"body", "closing", "end"}
(* The outermost generator that nobody refers to any more.                 *)
Dropped == {"finalize_dropped", "retry_dropped", "tee_dropped"}
Await == {"start", "connect", "body", "closing", "yielded",
          "reconcile", "store", "done"} \cup Dropped

(* StreamAccumulator.finished_cleanly.                                     *)
FinishedCleanly(a) == a.finished /\ ~a.errored

-----------------------------------------------------------------------------
Init ==
    /\ kind \in Kinds
    /\ caching \in BOOLEAN
    /\ pc = "start"
    /\ attempts = 1
    /\ tries = 0
    /\ yielded = FALSE
    /\ calls = 0
    /\ links = {}
    /\ chunk = NoChunk
    /\ out = <<>>
    /\ acc = [bytes |-> FALSE, text |-> <<>>, finished |-> FALSE,
              usage |-> FALSE, errored |-> FALSE]
    /\ client = "here"
    /\ outcome = "none"
    /\ stored = NoText

(* tee_stream marks the accumulator and forwards before it parses.         *)
Yield(what, then) ==
    /\ chunk' = [kind |-> what, call |-> calls, then |-> then]
    /\ out' = Append(out, [kind |-> what, call |-> calls])
    /\ acc' = IF what = "terminal" THEN acc ELSE [acc EXCEPT !.bytes = TRUE]
    /\ pc' = "yielded"

(* Faulty: what the accumulator says of errors is not looked at.           *)
Faulty_Finalize(a) ==
    /\ outcome' = IF a.finished THEN "success" ELSE "failure"
    /\ pc' = IF ~a.finished THEN "done"
             ELSE IF a.usage THEN "reconcile"
             ELSE IF caching THEN "store" ELSE "done"

(* The loop of _stream_and_finalize is over; the breaker is told at once.  *)
Finalize(a) ==
    /\ outcome' = IF FinishedCleanly(a) THEN "success" ELSE "failure"
    /\ pc' = IF ~FinishedCleanly(a) THEN "done"
             ELSE IF a.usage THEN "reconcile"
             ELSE IF caching THEN "store" ELSE "done"

-----------------------------------------------------------------------------
(* The provider and its upstream.                                          *)

(* stream() makes its first call.                                          *)
Open ==
    /\ pc = "start"
    /\ pc' = "connect"
    /\ tries' = 1
    /\ yielded' = FALSE
    /\ calls' = calls + 1
    /\ links' = links \cup {calls + 1}
    /\ UNCHANGED <<kind, caching, attempts, chunk, out, acc, client, outcome, stored>>

Accept ==
    /\ pc = "connect" /\ client = "here"
    /\ pc' = "body"
    /\ UNCHANGED <<kind, caching, attempts, provider, chunk, out, acc, client, outcome, stored>>

(* An http provider tries again after an error status or a transport error *)
(* if it has yielded nothing; the sdk does before it returns a stream.     *)
MayTryAgain ==
    /\ \/ kind = "http" /\ ~yielded
       \/ kind = "sdk" /\ pc = "connect"
    /\ tries <= ProviderRetries

(* Faulty: the connection that failed is not closed.                       *)
Faulty_TryAgain ==
    /\ pc \in {"connect", "body"}
    /\ MayTryAgain
    /\ pc' = "connect"
    /\ tries' = tries + 1
    /\ yielded' = FALSE
    /\ calls' = calls + 1
    /\ links' = links \cup {calls + 1}
    /\ UNCHANGED <<kind, caching, attempts, chunk, out, acc, client, outcome, stored>>

(* `continue' leaves the `async with', which closes the connection.        *)
TryAgain ==
    /\ pc \in {"connect", "body"}
    /\ MayTryAgain
    /\ pc' = "connect"
    /\ tries' = tries + 1
    /\ yielded' = FALSE
    /\ calls' = calls + 1
    /\ links' = (links \ {calls}) \cup {calls + 1}
    /\ UNCHANGED <<kind, caching, attempts, chunk, out, acc, client, outcome, stored>>

(* An upstream event that is translated to a neutral one.                  *)
Stream ==
    /\ pc = "body" /\ client = "here"
    /\ Len(out) < MaxChunks
    /\ \E what \in IF kind = "agent" THEN {"text"} ELSE {"text", "usage", "finish"} :
          Yield(what, "body")
    /\ yielded' = TRUE
    /\ UNCHANGED <<kind, caching, attempts, tries, calls, links, client, outcome, stored>>

(* The provider gives up in band.  An http provider yields after an error  *)
(* status inside its `async with', the sdk's mid-stream error before its   *)
(* `finally', so closing the connection is still to come.                  *)
Fail ==
    /\ pc \in {"connect", "body"}
    /\ MayTryAgain => kind = "sdk"
    /\ \E then \in {"closing", "end"} :
          /\ then = "closing" =>
                \/ kind = "http" /\ pc = "connect" /\ client = "here"
                \/ kind = "sdk" /\ pc = "body"
          /\ then = "end" => ~(kind = "sdk" /\ pc = "body")
          /\ Yield("error", then)
          /\ links' = IF then = "end" THEN links \ {calls} ELSE links
    /\ UNCHANGED <<kind, caching, attempts, tries, yielded, calls, client, outcome, stored>>

(* The upstream ends its answer, whether or not it sent a finish reason;   *)
(* an agent's gets one from the adapter.                                   *)
EndOfStream ==
    /\ pc = "body" /\ client = "here"
    /\ IF kind = "agent"
       THEN Yield("finish", "end") /\ UNCHANGED <<links, outcome>>
       ELSE /\ links' = links \ {calls}
            /\ Finalize(acc)
            /\ UNCHANGED <<chunk, out, acc>>
    /\ UNCHANGED <<kind, caching, attempts, tries, yielded, calls, client, stored>>

(* After an in-band error the connection is closed ...                     *)
Close ==
    /\ pc = "closing" /\ client = "here"
    /\ links' = links \ {calls}
    /\ Finalize(acc)
    /\ UNCHANGED <<kind, caching, attempts, tries, yielded, calls, chunk, out, acc, client, stored>>

(* ... or that fails as well, which an http provider reports once more.    *)
CloseFails ==
    /\ pc = "closing"
    /\ kind = "http"
    /\ Yield("error", "end")
    /\ links' = links \ {calls}
    /\ UNCHANGED <<kind, caching, attempts, tries, yielded, calls, client, outcome, stored>>

-----------------------------------------------------------------------------
(* tee_stream, stream_with_retry and _stream_and_finalize.                 *)

(* Faulty: an agent's exception escapes its adapter.                       *)
Faulty_Escapes ==
    \/ pc \in {"start", "connect", "body"}
    \/ pc = "closing" /\ kind = "sdk"

(* stream() raises all the same: a request it cannot translate, an event   *)
(* of an unexpected shape, events.close().  agent.py catches everything.   *)
Escapes ==
    /\ kind # "agent"
    /\ \/ pc \in {"start", "connect", "body"}
       \/ pc = "closing" /\ kind = "sdk"

(* Faulty: the sdk's events are not closed.                                *)
Faulty_LeftBehind ==
    IF kind = "sdk" /\ pc # "connect" THEN links ELSE links \ {calls}

(* What a provider that is left by an exception, cancelled or closed has   *)
(* open afterwards: its `async with', or its `finally', closes the call's. *)
LeftBehind == links \ {calls}

(* Faulty: retries whatever the client has already received.               *)
Faulty_MayReopen == attempts <= MaxRetries

(* Faulty: one retry too many.                                             *)
Eager_MayReopen == ~acc.bytes /\ attempts <= MaxRetries + 1

MayReopen == ~acc.bytes /\ attempts <= MaxRetries

(* stream_with_retry opens a second stream ...                             *)
Reopen ==
    /\ Escapes /\ MayReopen
    /\ pc' = "start"
    /\ attempts' = attempts + 1
    /\ links' = LeftBehind
    /\ UNCHANGED <<kind, caching, tries, yielded, calls, chunk, out, acc, client, outcome, stored>>

(* ... or tells the client, past tee_stream and so past the accumulator.   *)
GiveUp ==
    /\ Escapes /\ ~MayReopen
    /\ Yield("terminal", "end")
    /\ links' = LeftBehind
    /\ UNCHANGED <<kind, caching, attempts, tries, yielded, calls, client, outcome, stored>>

(* Faulty: an error event is not noticed.                                  *)
Faulty_Parsed(a, c) ==
    [bytes    |-> a.bytes,
     text     |-> IF c.kind = "text" THEN Append(a.text, c.call) ELSE a.text,
     usage    |-> a.usage \/ c.kind = "usage",
     finished |-> a.finished \/ c.kind = "finish",
     errored  |-> a.errored]

(* tee_stream's parsing of the chunk it has just forwarded.                *)
Parsed(a, c) ==
    [bytes    |-> a.bytes,
     text     |-> IF c.kind = "text" THEN Append(a.text, c.call) ELSE a.text,
     usage    |-> a.usage \/ c.kind = "usage",
     finished |-> a.finished \/ c.kind = "finish",
     errored  |-> a.errored \/ c.kind = "error"]

(* The client has taken the chunk; the generators go on.                   *)
Resume ==
    /\ pc = "yielded"
    /\ acc' = Parsed(acc, chunk)
    /\ chunk' = NoChunk
    /\ IF chunk.then = "end"
       THEN Finalize(acc') /\ links' = links \ {calls}
       ELSE pc' = chunk.then /\ UNCHANGED <<outcome, links>>
    /\ UNCHANGED <<kind, caching, attempts, tries, yielded, calls, out, client, stored>>

(* Reconciling may raise, which ends the response without a store.         *)
Reconcile ==
    /\ pc = "reconcile" /\ client = "here"
    /\ pc' \in {"done"} \cup (IF caching THEN {"store"} ELSE {})
    /\ UNCHANGED <<kind, caching, attempts, provider, chunk, out, acc, client, outcome, stored>>

(* Storing never raises, but may not happen.                               *)
Store ==
    /\ pc = "store" /\ client = "here"
    /\ pc' = "done"
    /\ stored' \in {acc.text, stored}
    /\ UNCHANGED <<kind, caching, attempts, provider, chunk, out, acc, client, outcome>>

-----------------------------------------------------------------------------
(* A client that leaves.                                                   *)

(* The response's task is cancelled, and again at every await it comes to. *)
(* So no await of the upstream or of Redis gets an answer from here on.    *)
Disconnect ==
    /\ client = "here" /\ pc # "done"
    /\ client' = "gone"
    /\ UNCHANGED <<kind, caching, pc, attempts, provider, chunk, out, acc, outcome, stored>>

(* The CancelledError passes every `except' of the generators.  (What the  *)
(* provider's clean-up raises in its place does not: TryAgain, Fail,       *)
(* CloseFails, Reopen and GiveUp may happen after Disconnect too.)         *)
Cancelled ==
    /\ client = "gone"
    /\ pc \in {"connect", "body", "closing", "reconcile", "store"}
    /\ pc' = "done"
    /\ links' = LeftBehind
    /\ UNCHANGED <<kind, caching, attempts, tries, yielded, calls, chunk, out, acc, client, outcome, stored>>

(* Cancelled while it sends a chunk, the response forgets the generators,  *)
(* which are suspended at their yields and hear nothing of it.             *)
LetGo ==
    /\ client = "gone" /\ pc = "yielded"
    /\ pc' = "finalize_dropped"
    /\ UNCHANGED <<kind, caching, attempts, provider, chunk, out, acc, client, outcome, stored>>

(* The event loop closes a generator nobody refers to.  These two have no  *)
(* `finally'; what they iterate over is dropped in its turn, but nothing   *)
(* is left of that when stream_with_retry has caught an exception.         *)
CloseOuter ==
    /\ \/ pc = "finalize_dropped" /\ pc' = "retry_dropped"
       \/ pc = "retry_dropped" /\ pc' = IF chunk.kind = "terminal" THEN "done" ELSE "tee_dropped"
    /\ UNCHANGED <<kind, caching, attempts, provider, chunk, out, acc, client, outcome, stored>>

(* tee_stream's `finally' closes the provider's.                           *)
CloseTee ==
    /\ pc = "tee_dropped"
    /\ pc' = "done"
    /\ links' = LeftBehind
    /\ UNCHANGED <<kind, caching, attempts, tries, yielded, calls, chunk, out, acc, client, outcome, stored>>

Leave == Disconnect \/ Cancelled \/ LetGo \/ CloseOuter \/ CloseTee

Provide ==
    \/ Open \/ Accept \/ TryAgain \/ Stream \/ Fail \/ EndOfStream
    \/ Close \/ CloseFails

Proxy == Reopen \/ GiveUp \/ Resume \/ Reconcile \/ Store

Next == Provide \/ Proxy \/ Leave

Spec == Init /\ [][Next]_vars

(* The event loop runs, cancels what it was told to and closes generators  *)
(* that were dropped.  Nobody else need ever act.                          *)
Abandon == Cancelled \/ LetGo \/ CloseOuter \/ CloseTee \/ (client = "gone" /\ Open)
FairSpec == Spec /\ WF_vars(Abandon)

-----------------------------------------------------------------------------
ChunkAt == [kind : ChunkKind, call : Nat]
Suspended == [kind : ChunkKind, call : Nat, then : Continuation]

(* Every counter stays within its retries; a stream suspended at a yield   *)
(* has a chunk in hand.                                                    *)
TypeOK ==
    /\ kind \in Kinds /\ caching \in BOOLEAN
    /\ pc \in Await
    /\ attempts \in 1..(MaxRetries + 1)
    /\ tries \in 0..(ProviderRetries + 1)
    /\ yielded \in BOOLEAN
    /\ calls \in Nat
    /\ links \subseteq 1..calls
    /\ chunk \in Suspended \cup {NoChunk}
    /\ pc = "yielded" => chunk \in Suspended
    /\ out \in Seq(ChunkAt)
    /\ acc \in [bytes : BOOLEAN, text : Seq(Nat), finished : BOOLEAN,
                usage : BOOLEAN, errored : BOOLEAN]
    /\ client \in {"here", "gone"}
    /\ outcome \in {"none", "success", "failure"}
    /\ stored \in Seq(Nat)

(* Both layers retry, each with its own idea of what was sent; yet what    *)
(* the client has received never comes from two calls, and none is made    *)
(* once it has received anything.                                          *)
OneAnswer == \A i \in 1..Len(out) : out[i].call = calls

(* Retries multiply, but no further than this; and an agent, whose tools   *)
(* may have acted, is never invoked again.                                 *)
CallsBounded ==
    calls <= IF kind = "agent" THEN 1 ELSE (MaxRetries + 1) * (ProviderRetries + 1)

(* A request holds at most one connection, and none while it waits for     *)
(* Redis or when it is over.                                               *)
OneConnection ==
    /\ Cardinality(links) <= 1
    /\ pc \in {"reconcile", "store", "done"} => links = {}

Sent(what) == \E i \in 1..Len(out) : out[i].kind = what

(* The breaker is told what the client was: success if it was sent a       *)
(* finish reason and no error of the provider's, failure otherwise; and    *)
(* it is told something unless the client has left.                        *)
OutcomeMatchesStream ==
    /\ outcome # "none" =>
          (outcome = "success" <=> Sent("finish") /\ ~Sent("error"))
    /\ pc = "done" /\ client = "here" => outcome # "none"

(* What makes the three inductive.  While another call may be made both    *)
(* layers' flags say truthfully that nothing was sent ...                  *)
FlagsAgree ==
    /\ pc \in {"start", "connect"} \/ (pc = "body" /\ ~yielded)
          => out = <<>> /\ ~acc.bytes
    /\ pc \in {"body", "closing"} /\ out # <<>> => acc.bytes
    /\ pc = "yielded" /\ chunk.then # "end" => acc.bytes
    /\ pc = "yielded" /\ chunk.then = "body" => yielded

(* ... the two counters bound the calls ...                                *)
CallsCounted ==
    IF kind = "agent"
    THEN pc = "start" => calls = 0
    ELSE calls <= (attempts - 1) * (ProviderRetries + 1)
                      + (IF pc = "start" THEN 0 ELSE tries)

(* ... and the accumulator is one chunk behind what was sent, at most.     *)
AccumulatorTrue ==
    /\ pc = "yielded" =>
          /\ Sent("finish") <=> acc.finished \/ chunk.kind = "finish"
          /\ Sent("error") <=> acc.errored \/ chunk.kind = "error"
    /\ pc \notin {"yielded", "done"} \cup Dropped =>
          /\ Sent("finish") <=> acc.finished
          /\ Sent("error") <=> acc.errored
    /\ outcome # "none" => pc \in {"reconcile", "store", "done"}
    /\ pc \in {"reconcile", "store"} => outcome # "none"
    /\ pc \in Dropped => client = "gone"

IInv ==
    /\ TypeOK
    /\ FlagsAgree /\ OneAnswer
    /\ CallsCounted /\ CallsBounded
    /\ AccumulatorTrue /\ OutcomeMatchesStream

(* text is what the text chunks of a stream carried, every one of them and *)
(* in order: p says which chunk each piece of it came with.                *)
CarriedBy(text, stream) ==
    \E p \in [1..Len(text) -> 1..Len(stream)] :
        /\ \A i, j \in 1..Len(text) : i < j => p[i] < p[j]
        /\ \A i \in 1..Len(text) : text[i] = stream[p[i]].call
        /\ \A k \in 1..Len(stream) :
              stream[k].kind = "text" <=> \E i \in 1..Len(text) : p[i] = k

(* The accumulator is never reset between attempts; still the cache is     *)
(* given nothing but a whole, finished answer, as the client received it.  *)
StoredIsWhatWasSent ==
    stored # NoText => CarriedBy(stored, out) /\ Sent("finish") /\ ~Sent("error")

(* Nothing but another error follows an error.                             *)
ErrorsComeLast ==
    \A i, j \in 1..Len(out) :
        i < j /\ out[i].kind \in {"error", "terminal"}
            => out[j].kind \in {"error", "terminal"}

(* A client that leaves takes the upstream call with it, at whatever await *)
(* and through whatever the clean-up raises; and none is made later on.    *)
GoneReleases == client = "gone" ~> [](links = {})

(* generate.py:172: "finished_cleanly is the single signal for whether     *)
(* this was a genuine success"; so no success ends in an error event.      *)
SuccessIsGenuine == outcome = "success" => ~Sent("error") /\ ~Sent("terminal")

=============================================================================
