----------------------------- MODULE Translation -----------------------------
(***************************************************************************)
(* The way of an answer from the upstream to the accumulator: bytes are    *)
(* cut into SSE events (sse.py), an event becomes a neutral one or none    *)
(* (openai.py, gemini.py, anthropic.py, agent.py), and tee_stream forwards *)
(* it and adds it to the accumulator (streaming.py), from which the        *)
(* limiter is reconciled and the cache filled.                             *)
(*                                                                         *)
(* The http vendors send bytes, which arrive in chunks that know nothing   *)
(* of events.  Anthropic's sdk and an agent deliver whole events.  Who     *)
(* retries, who leaves and who closes what is in StreamProxy.              *)
(***************************************************************************)
EXTENDS Integers, Sequences, SequencesExt, FiniteSetsExt

CONSTANTS
    Vendors,        \* of "openai", "gemini", "anthropic", "agent"
    Characters,     \* what texts are made of
    SseFrames,      \* the events an http vendor may send
    SdkFrames,      \* those of Anthropic's sdk
    AgentFrames,    \* the chunks of an agent
    MaxFrames       \* bound: upstream events of one answer

VARIABLES
    vendor,
    said,       \* what the upstream has sent, event by event
    wire,       \* what is in flight of it
    got,        \* how much of it the gateway has received
    buffer,     \* what the gateway holds of an event that is not complete
    held,       \* input_tokens, from message_start (anthropic)
    forwarded,  \* neutral events forwarded to the client
    accumulator,
    upstream,   \* "open", "ended" (cleanly) or "broken"
    phase       \* "reading" or "done"

translationVars ==
    <<vendor, said, wire, got, buffer, held, forwarded, accumulator, upstream, phase>>

-----------------------------------------------------------------------------
(* What an upstream sends.  Texts are sequences, as they are concatenated; *)
(* a usage is what the vendor says of its tokens, if anything.             *)

NoUsage == <<>>
Frame(k, x, r, u) == [kind |-> k, text |-> x, finish |-> r, usage |-> u]
Plain(k) == Frame(k, <<>>, "none", NoUsage)

Shape(kinds, usages) ==
    [kind : kinds, text : Seq(Characters), finish : STRING, usage : {NoUsage} \cup usages]

(* "bare" is JSON without choices or candidates, "noise" no JSON, a        *)
(* "comment" a line that is no data, "blank" an empty one.                 *)
IsSse(f) ==
    /\ f \in Shape({"chunk", "bare", "noise", "comment", "blank", "done"}, Nat \X Nat \X Nat)
    /\ f.kind # "chunk" => f = Frame(f.kind, <<>>, "none", f.usage)
    /\ f.kind \notin {"chunk", "bare"} => f = Plain(f.kind)

(* usage: (input, cached) of message_start, (input, output) of a delta.    *)
IsSdk(f) ==
    /\ f \in Shape({"start", "text", "thinking", "ping", "delta"}, Nat \X Nat)
    /\ f.kind # "text" => f.text = <<>>
    /\ f.kind # "delta" => f.finish = "none"
    /\ f.kind = "start" => f.usage # NoUsage
    /\ f.kind \notin {"start", "delta"} => f.usage = NoUsage

(* "other" has no text in the places looked at: a list of content blocks,  *)
(* say.  "step" is an intermediate_step() of a LangGraph node.             *)
IsAgent(f) ==
    /\ f \in Shape({"text", "other", "step"}, {})
    /\ f = Frame(f.kind, f.text, "none", NoUsage)
    /\ f.kind # "text" => f.text = <<>>

ASSUME TranslationAssumption ==
    /\ Vendors \subseteq {"openai", "gemini", "anthropic", "agent"}
    /\ MaxFrames \in Nat
    /\ \A f \in SseFrames : IsSse(f)
    /\ \A f \in SdkFrames : IsSdk(f)
    /\ \A f \in AgentFrames : IsAgent(f)

Frames(v) ==
    CASE v = "openai" -> SseFrames
      [] v = "gemini" -> SseFrames \ {Plain("done")}
      [] v = "anthropic" -> SdkFrames
      [] v = "agent" -> AgentFrames

(* message_start comes first and once, [DONE] last.                        *)
MaySend(f) ==
    /\ vendor = "anthropic" => (f.kind = "start") = (said = <<>>)
    /\ Plain("done") \notin ToSet(said)

Http == {"openai", "gemini"}
Sse == vendor \in Http

(* Bytes, in units that a chunk may be cut between: a newline, `data:',    *)
(* any other field or comment, and the payload itself.                     *)
NL == [byte |-> "newline"]
Data == [byte |-> "data:"]
Other == [byte |-> "field"]

Bytes(f) ==
    CASE f.kind = "blank" -> <<NL>>
      [] f.kind = "comment" -> <<Other, NL>>
      [] OTHER -> <<Data, f, NL, NL>>

(* What travels of an event: bytes, or the event as it is.                 *)
Units(v, f) == IF v \in Http THEN Bytes(f) ELSE <<f>>

-----------------------------------------------------------------------------
(* iter_sse_data_lines                                                     *)

Boundaries(b) == {i \in 1 .. Len(b) - 1 : b[i] = NL /\ b[i + 1] = NL}
HasEvent == Boundaries(buffer) # {}

(* buffer.split(b"\n\n", 1)                                                *)
RawEvent(b) == SubSeq(b, 1, Min(Boundaries(b)) - 1)

(* Faulty: what a chunk brought after the event is dropped with it.        *)
Faulty_Rest(b) == <<>>

Rest(b) == SubSeq(b, Min(Boundaries(b)) + 2, Len(b))

(* The payload of the first line that begins with `data:', if any.         *)
Payload(raw) ==
    LET starts == {i \in DOMAIN raw : raw[i] = Data}
    IN  IF starts = {} THEN <<>> ELSE <<raw[Min(starts) + 1]>>

(* Translation to neutral events.                                          *)

Event(x, r, u) == [text |-> x, finish |-> r, usage |-> u, error |-> FALSE]
ErrorEvent == [text |-> <<>>, finish |-> "none", usage |-> NoUsage, error |-> TRUE]

FinishReason(r) ==
    CASE r = "none" -> "none"
      [] r \in {"stop", "end_turn"} -> "stop"
      [] r = "length" -> "max_tokens"
      [] r = "refusal" -> "safety"
      [] OTHER -> "other"

(* _openai_chunk_to_neutral, _gemini_delta_to_neutral, [DONE]              *)
FromJson(f) ==
    CASE f.kind = "chunk" -> <<Event(f.text, FinishReason(f.finish), f.usage)>>
      [] f.kind = "bare" -> <<Event(<<>>, "none", f.usage)>>
      [] OTHER -> <<>>

(* Faulty: the prompt's cached tokens are not counted.                     *)
Faulty_Held(f) == f.usage[1]

Held(f) == f.usage[1] + f.usage[2]

(* _translate_events                                                       *)
FromSdk(f) ==
    CASE f.kind = "text" /\ f.text # <<>> -> <<Event(f.text, "none", NoUsage)>>
      [] f.kind = "delta" ->
            LET prompt == IF f.usage[1] # 0 THEN f.usage[1] ELSE held
                usage == IF f.usage = NoUsage THEN NoUsage
                         ELSE <<prompt, f.usage[2], prompt + f.usage[2]>>
            IN  <<Event(<<>>, FinishReason(f.finish), usage)>>
      [] OTHER -> <<>>

(* _extract_text, _stream_langgraph_events                                 *)
FromAgent(f) ==
    IF f.text # <<>> \/ f.kind = "step" THEN <<Event(f.text, "none", NoUsage)>> ELSE <<>>

-----------------------------------------------------------------------------
TranslationInit ==
    /\ vendor \in Vendors
    /\ said = <<>> /\ wire = <<>> /\ got = 0 /\ buffer = <<>> /\ held = 0
    /\ forwarded = <<>>
    /\ accumulator = [text |-> <<>>, finish |-> "none", usage |-> NoUsage, errored |-> FALSE]
    /\ upstream = "open"
    /\ phase = "reading"

(* Faulty: a later event without a finish reason takes the reason back.    *)
Faulty_Accumulate(e) ==
    accumulator' =
        [text |-> accumulator.text \o e.text,
         finish |-> e.finish,
         usage |-> IF e.usage = NoUsage THEN accumulator.usage ELSE e.usage,
         errored |-> accumulator.errored \/ e.error]

(* _extract_delta, and what tee_stream does with it.                       *)
Accumulate(e) ==
    accumulator' =
        [text |-> accumulator.text \o e.text,
         finish |-> IF e.finish = "none" THEN accumulator.finish ELSE e.finish,
         usage |-> IF e.usage = NoUsage THEN accumulator.usage ELSE e.usage,
         errored |-> accumulator.errored \/ e.error]

(* The provider yields at most one neutral event for an upstream one.      *)
Forward(events) ==
    /\ forwarded' = forwarded \o events
    /\ IF events = <<>> THEN UNCHANGED accumulator ELSE Accumulate(events[1])

Send ==
    /\ upstream = "open" /\ Len(said) < MaxFrames
    /\ \E f \in Frames(vendor) :
          /\ MaySend(f)
          /\ said' = Append(said, f)
          /\ wire' = wire \o Units(vendor, f)
    /\ UNCHANGED <<vendor, got, buffer, held, forwarded, accumulator, upstream, phase>>

(* The upstream is through, or its connection breaks, or is closed early.  *)
Hang ==
    /\ upstream = "open"
    /\ upstream' \in {"ended", "broken"}
    /\ \E n \in 0 .. Len(wire) : wire' = SubSeq(wire, 1, n)
    /\ UNCHANGED <<vendor, said, got, buffer, held, forwarded, accumulator, phase>>

(* Faulty: a chunk replaces what was left of the one before.               *)
Faulty_Joined(chunk) == chunk

Joined(chunk) == buffer \o chunk

(* The next chunk of bytes, of any length.                                 *)
Chunk ==
    /\ phase = "reading" /\ Sse /\ ~HasEvent
    /\ \E n \in 1 .. Len(wire) :
          /\ buffer' = Joined(SubSeq(wire, 1, n))
          /\ wire' = SubSeq(wire, n + 1, Len(wire))
          /\ got' = got + n
    /\ UNCHANGED <<vendor, said, held, forwarded, accumulator, upstream, phase>>

(* One turn of the loop over the events in the buffer.                     *)
NextEvent ==
    /\ phase = "reading" /\ HasEvent
    /\ LET payload == Payload(RawEvent(buffer))
       IN  Forward(IF payload = <<>> THEN <<>> ELSE FromJson(payload[1]))
    /\ buffer' = Rest(buffer)
    /\ UNCHANGED <<vendor, said, wire, got, held, upstream, phase>>

(* An event of the sdk's stream, or a chunk of the agent's.                *)
NextObject ==
    /\ phase = "reading" /\ ~Sse /\ wire # <<>>
    /\ LET f == Head(wire)
       IN  /\ Forward(IF vendor = "agent" THEN FromAgent(f) ELSE FromSdk(f))
           /\ held' = IF f.kind = "start" THEN Held(f) ELSE held
    /\ wire' = Tail(wire)
    /\ got' = got + 1
    /\ UNCHANGED <<vendor, said, buffer, upstream, phase>>

(* The end: an agent's answer is given its finish reason, an exception of  *)
(* any upstream becomes an error event.  What is left in the buffer goes.  *)
End ==
    /\ phase = "reading" /\ wire = <<>> /\ ~HasEvent
    /\ \/ upstream = "ended"
          /\ Forward(IF vendor = "agent" THEN <<Event(<<>>, "stop", NoUsage)>> ELSE <<>>)
       \/ upstream = "broken" /\ Forward(<<ErrorEvent>>)
    /\ phase' = "done"
    /\ UNCHANGED <<vendor, said, wire, got, buffer, held, upstream>>

TranslationNext == Send \/ Hang \/ Chunk \/ NextEvent \/ NextObject \/ End

TranslationSpec == TranslationInit /\ [][TranslationNext]_translationVars

-----------------------------------------------------------------------------
(* The reference: what the gateway should know, from the upstream's own    *)
(* list of events and the number of bytes that came, without any framing.  *)

(* Where the i-th event of an answer ends.                                 *)
UpTo(v, s, i) == SumFunction([j \in 1 .. i |-> Len(Units(v, s[j]))])

(* The events that have come to their last byte.                           *)
Complete == SubSeq(said, 1, Max({i \in 0 .. Len(said) : UpTo(vendor, said, i) <= got}))

CaughtUp == ~HasEvent

(* An event that the client is to have something of.                       *)
Telling(f) ==
    \/ f.kind \in {"chunk", "bare", "step", "delta"}
    \/ f.kind = "text" /\ f.text # <<>>

LastOf(S(_)) ==
    LET which == {i \in DOMAIN Complete : S(Complete[i])}
    IN  IF which = {} THEN Plain("none") ELSE Complete[Max(which)]

(* sse.py:52, ADR-0006: one upstream event, one neutral event, and no more *)
(* than one event's latency.  Wherever the chunks are cut, when the        *)
(* gateway waits for more it has forwarded exactly the events whose last   *)
(* byte has come: none is lost, doubled, or kept for the next chunk.       *)
OneForOne ==
    CaughtUp /\ phase = "reading" =>
        Len(forwarded) = Cardinality({i \in DOMAIN Complete : Telling(Complete[i])})

(* The text that is cached and replayed is the upstream's, in its order.   *)
TextIsTheVendors ==
    CaughtUp => accumulator.text = FlattenSeq([i \in DOMAIN Complete |-> Complete[i].text])

(* generate.py:183: the tokens the limiter is reconciled with are the      *)
(* upstream's last word on them, also where its parts come apart: the sdk  *)
(* tells of the prompt at the beginning and of the rest at the end.        *)
UsageIsTheVendors ==
    CaughtUp =>
        LET last == LastOf(LAMBDA f : f.kind # "start" /\ f.usage # NoUsage)
            start == said[1].usage
            prompt == IF last.usage[1] = 0 THEN start[1] + start[2] ELSE last.usage[1]
        IN  accumulator.usage =
                IF last.usage = NoUsage \/ Sse THEN last.usage
                ELSE <<prompt, last.usage[2], prompt + last.usage[2]>>

(* streaming.py:29: an answer counts as finished only if the upstream said *)
(* so, in an event that came whole, and what comes after (usage, [DONE],   *)
(* noise) does not take it back.  An agent says so by ending.              *)
FinishedIffSaid ==
    CaughtUp =>
        (accumulator.finish # "none") =
            IF vendor = "agent" THEN phase = "done" /\ upstream = "ended"
            ELSE LastOf(LAMBDA f : f.finish # "none") # Plain("none")

=============================================================================
