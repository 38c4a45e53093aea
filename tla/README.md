# Formal verification of fastapi-ctx-gateway

TLA+ models of the gateway in `src/src/fastapi_ctx_gateway/`, TLC runs that check
them on small instances, and TLAPS proofs of results that hold for every value
of the constants. Paths below are relative to `src/src/fastapi_ctx_gateway/`
unless they start with `docs/` (that is `src/docs/`).

Contents: [the system](#1-the-system), [the modules](#2-modules-and-code),
[the runs](#3-runs-bounds-and-fairness), [the proofs](#4-proofs),
[what the models show that the docs deny](#5-disagreements),
[limits](#6-what-is-left-out), [plan](#7-plan).

## 1. The system

A gateway between tenants and LLM vendors. One route matters,
`POST /v1/{provider}/{model}:streamGenerateContent`; a request to it runs through
one pipeline, in one asyncio event loop per worker process:

    verify_api_key -> get_provider -> get_circuit_breaker      dependencies, in threads
      -> injection detector                (await)
      -> rate limiter: check and consume   (await Redis)
      -> breaker.allow_request()           (no await)
      -> prune                             (no await)
      -> cache lookup                      (await) --hit--> replay, and nothing else
      -> stream_with_retry( tee_stream( provider.stream() ) )   (await per chunk)
      -> breaker.record_success / record_failure   (no await)
      -> rate limiter: reconcile           (await Redis)
      -> cache store                       (await)

Workers share Redis only. Within a worker, requests interleave at the awaits,
and share the breaker objects, the providers' dict and the cache index.

### Components, their state, and what makes them correct

| Component | Code | State | Operations | Correct if |
|---|---|---|---|---|
| Circuit breaker | `circuit_breaker.py` | state, failure count, opening time, trial slots; one object per provider and worker | `allow_request`, `record_success`, `record_failure`, reading `state` | it refuses exactly after N failures in a row and for the timeout; every counted slot has a holder; it always recovers |
| Rate limiter | `ratelimit.py`, `scripts/sliding_window.lua` | one Redis hash per key and window, their expiry; the worker's cached script sha | `check`, `reconcile`, expiry, Redis restart | budgets hold in spite of late, reordered and duplicated writes; counts live as long as they are weighed |
| Token estimator and pruner | `ratelimit.py`, `pruning.py` | none | `estimate`, `prune` | what is left fits, the most recent turns that fit are kept, nothing is taken for a repetition that is none |
| Streaming proxy | `proxy/streaming.py`, `routers/generate.py:154` | the accumulator, the retry counter | forward, parse, retry, give up, finalize | the client gets one answer; breaker and cache hear the truth about it; no connection is leaked |
| Provider adapters | `providers/*.py` | an upstream connection per call, a retry counter, `yielded_any` | `stream` | as above |
| Agent registry | `providers/agent.py:157` | `app.state.providers[name]`, `app.state.circuit_breakers[name]` | `register_agent_provider` at any time | an agent is not punished for the one it replaces |
| Semantic cache | `cache/` | vector index with tags tenant and model, TTL | `lookup`, `store` | no hit crosses a tenant or a model; only finished answers are stored |
| Injection guardrail | `guardrails.py` | none (a worker thread per call) | `detect` | fails open in time, whatever hangs; blocks only in block mode |
| Thread pool | `asyncio.to_thread` in `guardrails.py`, `cache/vectorizer.py`, `providers/agent.py` | the queue and the threads of a worker's event loop | start, finish, time out, abandon | no job is lost or answers for another; waits end |
| Authentication | `auth.py` | a limiter budget per source of failures | `verify_api_key` | only failures consume it, and a valid key never meets it |
| Application lifecycle | `app.py`, `providers/registry.py` | `app.state`, the shared HTTP and Redis clients, the Anthropic pool | boot, startup, shutdown | a name's provider and breaker belong together; every resource is open while used and closed after |
| SSE framing and translation | `providers/sse.py`, the adapters' `_translate*`, `proxy/streaming.py:34` | a buffer of bytes, the prompt's token count, the accumulator | split, translate, accumulate | one event out for one that came whole; text, usage and finish reason are the upstream's |

The remaining parts (metrics and tracing, the wording of errors, the schemas of
requests and their translation for a vendor, parsing of the environment) keep no
state the others depend on; PROJECT.json lists them with the reason they are not
modelled.

### What is hard here

* *Interleaving at awaits.* A request asks the breaker early and reports late;
  in between the circuit opens, half-opens, closes, or is replaced altogether.
* *Ends that report nothing.* A cache hit, and a client that disconnects, never
  reach the code that reports to the breaker and reconciles the budget.
* *Time read before an await.* The limiter's timestamp is stale when Redis runs
  the script; expiry runs on another clock than the weights.
* *Two retry layers* around one accumulator that is never reset.
* *Unwinding.* A disconnect hits four nested generators at any await: some are cancelled,
  some are dropped and closed later, and what their clean-up raises may be retried.
* *Partial failure* at each await of the finalization.
* *Threads that outlive their request.* A timeout or a disconnect abandons a job
  that is running; the thread is not free before the job ends.
* *A dict of app.state is iterated across awaits* at shutdown, while anyone may
  register an agent; startup overwrites what was registered before.
* *Bytes and events.* Chunks are cut anywhere; a vendor may tell its token counts in
  parts, and go on after the finish reason.
* *Rounding.* A factor of 1.1 in binary, and a sum of ceilings.

PROJECT.json's `hazards` names each one with its line and the properties that
would catch it.

## 2. Modules and code

| Module | Models | Detail |
|---|---|---|
| `CircuitBreaker` | `circuit_breaker.py` and the ways its callers end | a breaker object and its callers |
| `RateLimiter` | `sliding_window.lua`, `ratelimit.py` | one key; all windows, commands in flight, restarts |
| `Pruner` | `pruning.py`, `TokenEstimator` | pure functions on a conversation |
| `StreamProxy` | `_stream_and_finalize`, `stream_with_retry`, `tee_stream`, the four adapters' `stream()` | one request, every await |
| `Gateway` | `routers/generate.py`, `deps.py`, `register_agent_provider`, `cache/` | concurrent requests of a worker; composes `CircuitBreaker`, one instance per breaker object |
| `Auth` | `auth.py` over `RateLimiter` | the attempts of one source |
| `AppLifecycle` | `create_app`, the lifespan, `registry.py`, `register_agent_provider` | one app, two lifespans, every configuration |
| `WorkerThreads` | `guardrails.py`, `cache/semantic_cache.py`, `cache/vectorizer.py`, blocking agents | concurrent requests over a pool of threads |
| `Translation` | `sse.py`, the four adapters' translation of answers, `tee_stream` | one answer, byte by byte |
| `MC*` | | constants for TLC; `MCContents` takes `Pruner` and `Translation` into one run |
| `*Proofs` | | theorems; `LimiterProofs` has those of `RateLimiter` and `Auth`, `AnswerProofs` those of `StreamProxy` and `Translation` |
| `FoldTheorems` | | sums over finite sets, joined sequences, least and largest numbers; for `LimiterProofs`, `PrunerProofs` and `AnswerProofs` |

PROJECT.json's `map` gives the lines of each definition.

### CircuitBreaker

`breaker` is the object's four fields. `CurrentState`, `Admits`, `AfterAllow`,
`AfterSuccess` and `AfterFailure` are the methods as functions of those fields, so
that other modules can reuse them; reading `state` moves OPEN to HALF_OPEN, so
even a rejection (`Reject`) may change the object. The breaker never awaits:
each method is one step. A caller is admitted, and then succeeds, fails or
abandons. The clock is the difference `now() - _opened_at` (the only thing the
code looks at), saturated at the timeout. `role`, `streak`, `quiet` and `leaked`
are history: nothing in a guard reads them except whether a caller is idle.

### RateLimiter

One action per half of a command: the worker reads its clock and sends
(`SendCheck`, `SendReconcile`), Redis runs the script later (`AdmitCheck`,
`RejectCheck`, `Reconcile`), on whatever timestamp it was given. Redis's clock is
`now`; a worker's reading may be ahead by up to `ClockSkew`, a command on its way
for up to `MaxDelay`. `Tick` also drops the hashes that are due; `Restart` may
keep or lose the hashes and always loses the script; `NoScript` is the exception
nobody catches. Weights are kept exact by multiplying the script's comparisons by
the window's length. The module has no notion of a tenant: it is one key,
`{api_key}:{model}`.

### Pruner

The gateway keeps no conversation, so a behaviour of this module is a client that
adds one turn and sends everything again; its state is what `prune` answered.
Kept turns are positions, which makes "the same turn twice" visible. Sizes are
integers in quarter tokens; `Tokens` gives the value `math.ceil(raw * 1.1)` has in
double arithmetic, where 1.1 is slightly too large: at some multiples of ten
tokens the result is one more than the exact ceiling. Texts are sequences of passages of
known lengths; `EncodeFields` writes the lengths out in decimal, since whether a text may
look like a length and a colon is what the encoding is about. `sum()` is the community
modules' `SumFunction`.

### StreamProxy

The four nested generators have one pending await at any moment, `pc`. `Provide`
is the adapter and its upstream, `Proxy` the layers around it, `Leave` what follows
when the client disconnects, which may be at each await. The adapters of Gemini and OpenAI have the same control and
are one kind, `http`; Anthropic's (whose SDK retries by itself, and which has an
explicit `finally`) is `sdk`; `agent` never retries and lets nothing escape. A
chunk carries the number of the call that produced it, which is how mixing would
show. `tee_stream` forwards a chunk before it parses it: `Yield` and `Resume` are
separate steps, and a client that leaves in between leaves an unparsed chunk.

From `Disconnect` on, Starlette cancels the task at every await it comes to, so nothing the
upstream or Redis would answer is heard (the guards `client = "here"`). At an await inside
the generators the `CancelledError` passes all of them (`Cancelled`), and the provider's
`async with` or `finally` closes the connection (`LeftBehind`). While a chunk is being sent
the generators are suspended at their yields and hear nothing: the response forgets them
(`LetGo`), and the event loop closes them from the outermost inward, each when the one
around it is gone (`CloseOuter`), until `tee_stream`'s `finally` closes the provider's
(`CloseTee`). When closing a connection raises, that exception takes the `CancelledError`'s
place and is treated like a failure of the upstream, so that `TryAgain` and `Reopen` may
even make another call on behalf of a client that has left, which is cancelled in turn.

### Gateway

`pc` is the await a request is suspended in; what runs between two awaits is one
step (so `Admit` asks the breaker, prunes and decides eligibility). `Objects` are
the provider and breaker objects ever made under each name, numbered in turn;
`current` is what `app.state` holds. A request captures its provider object and
its breaker object by two dependencies with awaits between them (`Arrive`,
`Bind`), and `Register` may fall between. `B(o) == INSTANCE CircuitBreaker` maps
each breaker object to the module above: its callers are the requests that
captured it. The limiter is an outcome, the stream is the result it reports;
both are modelled in full elsewhere. The cache is the set of partitions (tenant,
model) that hold an entry; which entry is near enough to a prompt is left open.

### Auth

`verify_api_key` of one source address; the limiter is the module `RateLimiter`
itself, extended, with a token limit and estimates of 0 and never reconciled
(`AuthAssumption`), which is how `app.py:191` builds it. `Resolve` is the return of
`resolve_tenant` and touches nothing; the other actions are a limiter's action and
what the attempt is answered. `AuthIsALimiter` proves the module refines
`RateLimiter`.

### AppLifecycle

Startup has no await and is one step, `Startup` or `StartupFails`. Shutdown is one
action per await: `Visit` takes the next provider from the dict's iterator,
`AcloseReturns` and `AcloseRaises` end its `aclose`, `CloseRedis`, and `CloseClient`
for the end of `async with`. `Register` may fall between any two of them; a name
that is new to the dict makes the iterator raise (`LoopBreaks`). `order` keeps the
insertion order of the dict, which is what the loop follows. `mishaps` is history:
the causes for which something may stay open.

### WorkerThreads

The threads are the event loop's default pool; FastAPI runs synchronous
dependencies in another one (anyio's), which is not part of this. A request waits
for one job at a time, in `queue`, in `running` or in `posted`, the moment between
the thread's end and the loop's next turn, where a timeout may still win. `Timeout`
exists in detection and lookup only, as in the code, `Disconnect` only while the
body is made. Whether a job ends is left open.

### Translation

The http vendors' events are bytes, in units a chunk may be cut between: newline,
`data:`, other fields, payload. The SDK's and the agents' are objects. Which events there
are is left to the constants `SseFrames`, `SdkFrames` and `AgentFrames`; `IsSse`, `IsSdk` and
`IsAgent` say what is assumed of one (an SSE event other than a chunk has no text, an agent's
no usage), and `MaySend` of their order. `Units` is what travels of an event. `Chunk` is one turn of
the loop over the response, `NextEvent` one of the loop over the buffer, `NextObject`
one over the SDK's or the agent's stream. Neutral events pass `tee_stream` one by
one, so its own splitting is the identity here. The reference reads `said`, the
upstream's own list, and a count of bytes; it does not mention buffers.

## 3. Runs, bounds and fairness

| Run | Question | Instance | Distinct states |
|---|---|---|---|
| `breaker` | Is what the breaker admits what its results and the clock say; is every slot accounted for; does it recover? | 4 callers, threshold 3, timeout 2, 2 trial slots | 1,315 |
| `breaker_wedged` | Is HALF_OPEN always decided? *No.* | 2 callers, 1 slot | |
| `limiter_budget` | What may a hash hold, at worst? | 2 requests, window 2, commands up to 4 ticks late, 4 ticks, a restart | 1,086,292 |
| `auth` | Does a configured key always get through; what does a 429 take; is a count ever forgotten while it is weighed; what can a sliding window admit? | 2 attempts at a time, limit 2, window 3, skew 1, delay 2, 7 ticks, a restart | 1,125,685 |
| `limiter_restart` | Does a worker serve again after Redis restarts? *No.* | 1 request, 1 worker | |
| `contents` | Is anything but a repetition dropped while there is room; are the most recent turns that fit kept; does what is kept fit? Is what is forwarded and accumulated the upstream's, wherever it is cut? | `Pruner`: all conversations of up to 5 turns over 7, with and without system, 3 budgets; `Translation`: 4 upstreams, up to 3 events each, every cut | 421,198 (117,648 + 303,550) |
| `pruner_recency` | Does the most recent turn always survive, or do at least the oldest turns go first? *No.* | `Pruner`, the same | |
| `stream` | Do retries, failures and disconnects leave client, breaker, cache and connections consistent? | one request of each kind, one retry at each layer, 4 chunks | 133,841 |
| `stream_genuine` | Is a recorded success a success? *No.* | the same, 2 chunks | |
| `gateway` | Does each breaker object behave as `CircuitBreaker`; do outages and hits stay where they belong? | 2 requests, 2 tenants, 2 providers, one re-registered | 1,115,173 |
| `lifecycle` | Do provider and breaker of a name belong together; are clients open while used and closed after; does shutdown end? | every configuration, 3 vendors, 1 name of an agent's own, 2 registrations, 2 lifespans | 206,651 |
| `threads` | Is any job lost or answered by another; do waits end in spite of hung threads? | 3 requests, 2 threads, block mode | 38,264 |

*Why the bounds are enough.* Breaker: a threshold of 3 separates "first failure",
"below" and "at"; two slots separate "one taken" from "full"; four callers let
two trials and two stragglers overlap; timeout 2 has a state between armed and
due. Limiter: the script looks at two windows only; four ticks of windows of two cover a window that is
previous, current and written late, seven ticks of windows of three also one that has
expired; there skew and delay together just fit a window, the case in which the sliding load is
bounded (§5); two requests suffice for a command to be overtaken. In the budget and
authentication runs one worker stands for many, because each command takes its own clock
reading. Contents: `Pruner` and `Translation` share no state, so a behaviour is all of one or all of
the other and nothing is lost by checking both in one run (`MCContents`). Pruner: five turns hold a pair of duplicates and a turn dropped between
two that stay; the budgets sit at 15, at the rounding boundary 55, and at 60, one
turn above. Stream: one retry at each layer is what the code has
(`MaxRetries = 1`, `_MAX_RETRIES = 1`); four chunks are enough for a text, a usage, a
finish and an event after the finish. Gateway: two requests of two tenants are the
least that can be told apart; one re-registration gives a replaced breaker with
requests still on it. Lifecycle: two
registrations and two lifespans let an agent be registered before, during and after
a lifespan and be overwritten by the next; the configurations are all there are.
Threads: one thread fewer than requests, so that jobs queue behind abandoned ones; with
both threads hung everything else waits. Translation: three events are a text, a
finish with usage, and one after it; the properties are about neighbours and the last
of a kind. The invariants of `gateway` are safety properties and its
next-state relation treats request slots alike, and tenants alike; so does that of
`auth` with its attempts, whose only temporal property is about single steps. Those
symmetries are sound; no other run uses symmetry.

*Deadlock.* Checked everywhere but in the runs of `StreamProxy` and `Translation` (a
request, an answer ends), `Pruner` (the conversation reaches its bound) and
`AppLifecycle` (an app that refused to boot, or ended for the last time).

*Fairness.* `CircuitBreaker`'s `FairSpec`: time passes (`WF(Tick)`); an admitted
request ends (`WF(Finish(c))`: `app.py:175` and `anthropic.py:79` bound connecting and
each read at 30 s; that an agent returns, and that a client reads its response or
goes away, are assumptions about the environment, as nothing in the code bounds
them); clients keep coming (`WF(Admit(c))`, an assumption about the environment, without which an
OPEN breaker is simply never asked). `HalfOpenDecidedOrLeaked` uses only that
trials end. `RateLimiter`'s `FairSpec`: Redis answers (`WF(Serve(r))`) and a
script that is not loaded gets loaded (`WF(LoadScript(k))`). `StreamProxy`'s: once
the client is gone the event loop cancels what is pending and closes the generators that were
dropped (`WF(Abandon)`: anyio's cancel scope around the body, asyncio's finalizer of
asynchronous generators). Nothing obliges an upstream, a client that stays, or a failing
clean-up to act. `AppLifecycle`'s: the loop
runs the shutdown and the clients' close methods return or raise. `WorkerThreads`':
a free thread takes a job, the loop delivers results, its timers fire (`WF(Timeout)`
is that of `wait_for`: it bounds detection and lookup only). Nothing says that a job
ends; `PatientWaitsEnd` names that as its hypothesis, that every thread is free again
and again. Strong fairness is not assumed anywhere.

## 4. Proofs

All theorems hold for every value of the constants that satisfies the module's named
assumption (`BreakerAssumption`, `LimiterAssumption`, `StreamAssumption`,
`GatewayAssumption`, `AuthAssumption`, `LifecycleAssumption`, `ThreadsAssumption`,
`PrunerAssumption`, `TranslationAssumption`): counts are natural numbers, sets of slots and
threads are finite, a passage of text has characters, a window and a failure threshold are
not zero. `config.py` checks no ranges; a window of zero would divide by zero in the script,
and a threshold of zero behaves as one.

**CircuitBreaker.** `IInv == TypeOK /\ StateMeaning /\ SlotAccounting`. The
properties a caller can see (`NoFalseAlarm`, `FailsFast`) mention only history and
the answer; they are not inductive, because nothing in them ties the object's
fields to the history. `StateMeaning` does: the failure count is the streak, CLOSED
means the streak is short, an OPEN breaker's timer runs from the last failure.
`SlotAccounting` is needed for the counter's bound. Theorems: `TypeCorrect`,
`NeverFalseAlarm`, `AlwaysFailsFast`, `SlotsAccounted`, all from `Inductive`.

**RateLimiter.** Four theorems, with an invariant each, from the weakest assumption on
delays to the strongest.

* `BudgetCapped` is proved with `TypeOK` alone, for *any* delays, skews, expiries,
  restarts and reconciles: an admission raises a window to at most the limit plus what the
  window before it lent by having gone negative (`AdmittedFits`), a reconcile raises the
  history by what it adds, an expiry resets to zero.
* `CountsStayIntact` needs `LateInv`: a command in flight is at most a skew ahead and a
  delay behind, a hash is due no earlier than its window needs (less the skew), and until
  then it counts what its window admitted.
* `SlidingLoadIsBounded` adds `CapsInv`, that no window ever admits more than the limit,
  and a counting argument: `Window` ticks touch two windows. For the strict bound when commands are
  prompt there is `OnTimeInv`, which carries what a check compared of two windows for as long as
  either is looked at.
* `WeightedLoadIsBounded` (prompt commands, agreeing clocks) needs `PromptInv`: no window later
  than this one has been written. The step that matters is `TickWeighted`: as time passes
  the weight of the past window only shrinks, and at a boundary the current window
  becomes the past one with full weight.

TLAPS's solvers handle `div` and `%` through the lemmas `WindowOfStamp` and `NextTick`, and
sums through `FoldTheorems`.

**FoldTheorems.** `MapThenSumSet` and `FlattenSeq` are recursive functions over the subsets
of a set and over positions, so a proof first has to show that the function exists.
Induction is done without an induction theorem: among finite sets for which a statement were
false there would be a smallest one. The lemmas say what a sum of naturals is, and how it
moves when one entry or one element does; what a joined sequence gains by one more part
(`FlattenOneMore`); and what `Max` and `Min` choose from numbers.

**StreamProxy.** `IInv` adds three conjuncts. `FlagsAgree`: while another call could
still be made, `yielded_any` *and* the accumulator's flag truthfully say that
nothing was sent (this is what carries `OneAnswer` over two retry layers that do not
know of each other). `CallsCounted`: the product of the two counters bounds the
calls. `AccumulatorTrue`: the accumulator lags what was sent by at most the chunk in
hand. Theorems: `TypeCorrect`, `AnswersNeverMix`, `CallsAreBounded`, `OutcomeIsTrue`.
`OneConnectionHeld` rests on what each `pc` says of the connection: a call is made
only from places where the one before has been released, and a generator that is dropped while
it reports an exception holds none. `NothingAfterErrors` ties
the error flag of what was sent to the places from which something may still be sent.
`StoredWasSent` follows the accumulated text: at each await it is the text of what was sent,
but for the chunk in hand (`TextBehind`), whatever was retried before.

**Gateway.** `BreakersImplement` is a refinement for every breaker object at once:
whatever is registered and however requests interleave, each step of the gateway
is, for each object, a step of `CircuitBreaker` or leaves it alone. So
`NeverFalseAlarm`, `AlwaysFailsFast` and `SlotsAccounted` hold of every breaker of
the worker, the replaced ones too. It rests on `Captured` (a request has a role
with its breaker exactly while it is looking up or streaming) and `Shape`.
`OutagesAreLocal` rests on `Blameless`: a breaker whose provider's name was never
blamed is CLOSED. `HitsArePartitioned` rests on `OnlyProvenStored`;
`NoPredecessorsBreaker` on registrations only counting up. `TypeCorrect` includes that no
breaker object leaks more than its one slot, by way of `OneSlot`: the slot is free, or held by
one trial, or leaked. The theorems hold for any numbers of requests, tenants, models,
providers and registrations.

**Auth.** `AuthIsALimiter`: forgetting the attempts, every step of `verify_api_key` is
a step of `RateLimiter` or none, so its theorems carry over; `FailuresCapped` and
`FailuresWeighed` are those of the limiter for failures. `KnownKeysGetThrough` uses
`AttemptsWellFormed`: whoever waits for the limiter has an unknown key. `LockedOutFairly` is the
action property that a 429 takes `auth_failure_rpm_limit` real failures: by `FailuresInv`
no window counts more than the failures it saw, restarts and expiries only take counts away, and the
weighted count a check compares is never more than the two counts together (`MostWeight`).

**Pruner.** The conversation is arbitrary; what has to be understood is a fold.
`LoopMeans` says of every stage of `_sliding_window` which positions it has kept and what it
has counted; `LoopStep` is one turn of the loop, and `LoopIsMeant` the induction, by a
smallest set of positions. From it follow `CutConversationsFit`, with the arithmetic of
`RoundingIsSafe` (ceilings of parts are never below the ceiling of the whole),
`RecentTurnsKept` and `NothingNewDropped`. The last two go by `KeptIffStillFits`, which says of
every turn by itself whether it is kept, with neither a loop nor a fingerprint in it; what is
kept after a turn is new and comes after it, so it counts for no more than all that is new from
there on (`RecentFits`). They need that a fingerprint tells
turns apart: `EncodingIsInjective` proves it of `encode_fields`, for any texts. Two fields that
start at one place of the encoded text have their colons at one place
(`PieceTellsApart`; a digit is no colon), so the same length, so the same end; the rest is an
induction over the fields (`SameEncoding`).

**AppLifecycle.** `PairInv` says which names have a provider, which a breaker and
whose it is, by phase: before startup a breaker may have no provider, during and
after a lifespan it has one. `NamesAlwaysPairUp` and `ClientsAreOpen` follow from it, for any
agents, lifespans and registrations; `DetectsWhenAsked` needs nothing else. `TypeCorrect` keeps
the dict and its insertion order together (`KeysInv`). `ResourcesClosed` rests on
`ResourcesInv`: while nothing has gone wrong a pool is only open if its provider is still to
be handed to the loop, and the loop ends exactly at the end of the dict.

**WorkerThreads.** `OneJobPerWaitAlways`. The invariant does not count: `InOnePlace` says that
a request has no job, or one that is only queued, only held by a thread, or only posted.
One lemma for each operation on the queue and the threads says what it does to that; that the counts of
`OneJobPerWait` are then 1 or 0 comes last.

**Translation.** Laid end to end, the events of an answer are a line of bytes (of objects, for
the sdk and agents), and everything the gateway has done is a position on it: what it has received
(`got`) and what the loop over the buffer is through with (`Consumed`). `UpTo(v, s, i)` is
where the i-th event ends. `TranslationInvariant` says that buffer and wire hold just what
stands on the line at their places (`InPlace`, `Bounded`), and that some number k parts the
events: those up to k are consumed, those after it untouched (`Parted`), and what was
forwarded and accumulated is what the first k say (`Agrees`). Why k cannot be defined as the
number of consumed events: a boundary is any two newlines, and blank lines and the end of a comment make
them too, so the loop may swallow half of a blank line, and several silent events at once.
What it may not do is to cut an event with a payload: `BoundaryFits` shows that the first two
newlines in the buffer come no later than those that end the first such event, and that
an event found before it has nothing to tell. `TakesOne` is one turn of the loop; `Send`, `Hang`
and `Chunk` only move positions. `AgreesWithComplete` then compares k with the
reference: when no boundary is left in the buffer, the events between k and the last complete
one are silent. The theorems (`EachOnce`, `TextIsTrue`, `UsageIsTrue`, `FinishIsTrue`) hold for
any events of the assumed shapes, answers of any length, and every way to cut them. TLC checked
the invariant, on answers of two events, before the proof.

*Only model-checked.* The six liveness properties (`OpenIsProbed`,
`HalfOpenDecidedOrLeaked`, `GoneReleases`, `ShutdownEnds`, `TimedWaitsEnd`,
`PatientWaitsEnd`), which are out of this prover's reach. Every safety invariant and action
property that a passing run checks is also a theorem. The type invariants of `RateLimiter`, `Auth` and
`Translation` are the other way round: proved, and in no run.

## 5. Disagreements

Four runs check a sentence of the docs or of a comment and find a behaviour of
the code that contradicts it. PROJECT.json's `findings` quotes each.

1. `breaker_wedged`: a trial that is a cache hit (`generate.py:131`) or whose client
   disconnects keeps its HALF_OPEN slot for ever. With the one slot `app.py`
   configures, every later request to that provider is a 503 until the worker
   restarts, unless a request admitted earlier reports. (`SlotAccounting` does not object:
   it only says that every slot is held or was leaked. `HalfOpenIsDecided` does.)
2. `limiter_restart`: after Redis restarts, a worker that had cached the script's sha
   fails every request until it is restarted itself, or something else, such as a worker that
   starts later, loads the same script.
3. `stream_genuine`: an exception after the finish reason was forwarded ends the
   client's stream in an error event and is recorded, and cached, as a success.
4. `pruner_recency`: the most recent turn does not always survive, and the oldest turns do
   not always go first (`pruning.py:83-86`, `docs/tutorial/context-pruning.md:10`).
   `RecencyHonoured` asks for no more than one of the two and still fails, so its
   counterexample refutes both (`MostRecentSurvives`, `OldestGoFirst`) at once. If the latest
   turn repeats an earlier one it is the *latest* that deduplication removes (`pruning.py:62`);
   the earlier copy may then be dropped for size, and what the user just said reaches the
   provider nowhere. And the loop continues past a turn that does not fit (`pruning.py:96`),
   so an older, shorter one is kept in its place. What does hold is that the most recent
   turns that fit are kept, and that the last one to say something new is
   (`RecentThatFitKept`).

Others contradict a sentence just as plainly; the models show them, without a run of
their own:

* `circuit_breaker.py:31` says OPEN leads to a HALF_OPEN trial before CLOSED. A success
  reported by a request admitted before the circuit opened closes it at once
  (`circuit_breaker.py:74`; `RecordSuccess` of a caller that is no trial).
* `docs/advanced/multi-tenant-keys.md:17` says limits are keyed by the tenant's id, so that
  rotating a key migrates nothing. The key contains the API key (`generate.py:102`): rotating
  starts a new budget, and two keys of one tenant have one each.
* `app.py:220-222` says that an agent that is registered is never clobbered. One that was
  registered before startup under a configured vendor's name is: `update()` replaces it
  (`app.py:178`; `Updated`), and the vendor is then judged by the agent's breaker and its
  thresholds. `NamesPairUp` does not object: it says that a provider has a breaker, and an
  agent its own, not that a vendor has a vendor's.

Things the models contain that no run reports as a violation, which a maintainer
may care about:

* A kept conversation can be estimated one token over its budget by the gateway's
  own estimator, because of the rounding of 1.1; counted exactly it fits
  (`KeptFitsExactly`).
* `reconcile` writes to the window of now. A window may go negative and lend
  budget to the next, or pass its limit (`BudgetCap` bounds both by the amounts).
* Nothing is refunded to a request the breaker refuses, a cache hit, a failure or a
  disconnect.
* In any `Window` of time up to twice the limit may be admitted once commands are
  late; strictly less if they are prompt (`SlidingLoadBounded`). The bound holds only as long as
  delay and skew together fit a window: a check later than that finds the hash of its window
  dropped, starts it anew, and a window may admit its whole budget twice. ADR-0004 expects of the
  approximation an edge error of one or two percent; that is a statement about ordinary
  traffic, and nothing here shows anything so tight.
* An upstream that ends early without a finish reason counts as a failure, but
  the client sees its stream end with no error event.
* A request may meet a breaker newer than its provider, if a registration falls
  between two dependencies: the new agent's breaker hears of its predecessor's
  failures. `NeverJudgedByPredecessor` is the direction that does hold.
* Registering an agent under `anthropic` while the app serves loses the pool of the
  provider it replaces; registering a new name while shutdown awaits an `aclose` makes
  the loop raise, and Redis stays open (`ShutdownReleases` lists all causes).
* A detection or lookup that times out leaves its thread busy. Detection and lookup go on
  regardless (`TimedWaitsEnd`), but `store` and a blocking agent have no timeout and end
  only as threads come free (`PatientWaitsEnd`).
* Anthropic's cached tokens are lost from the sum when the closing event repeats
  `input_tokens`, because the code takes the one or the other (`anthropic.py:248`). The reference
  of `UsageIsTheVendors` counts in the same way, so the run shows that usage is carried
  across the stream, and not that this is the right sum.
* An answer that stopped for MAX_TOKENS or SAFETY counts as finished, is cached, and is
  replayed with the finish reason STOP (`generate.py:197`).

Read in the code, outside the models: an SSE server that ends lines with CR LF is never
understood (`sse.py:59`); with several candidates `choices[0]` mixes their texts
(`openai.py:192`, `gemini.py:171`); an agent's chunks with list content have no text, and an
agent that sends only such ends as an empty success (`agent.py:363`); the cache entry's key
leaves out the provider, the system instruction and binary parts (`semantic_cache.py:95`);
turns that differ in their images only are duplicates (`pruning.py:77`); the semantic cache's
own Redis connection is never closed (`app.py:198`); `cli.py:20` passes an app object, with
which uvicorn starts no second worker (compare `docs/advanced/deployment.md:23`).

## 6. What is left out

* *Data.* The translation of requests for a vendor, canonicalization, embeddings, the
  classifier, the wording and redaction of errors, metrics, traces. In `StreamProxy` chunks
  are their kinds, and a chunk is one SSE event; `Translation` is where they are bytes.
* *Gateway.* A client that leaves before a response begins does not cancel the
  handler, so `Disconnect` starts with the body. Registration runs on the event loop
  without an await and is one step. An unknown provider name is a 404 that changes
  nothing. Entries of one cache partition are not told apart. The breaker of a name that
  is a vendor's, registered before startup, is in `AppLifecycle`.
* *RateLimiter.* The `retry_after_s` of a refusal; several keys (they share nothing but
  the script); a Redis that fails over to a replica.
* *StreamProxy.* Backoff delays between retries (time plays no part there). That closing
  a connection returns or raises, and that an agent's own code lets a cancellation through, is
  assumed; a synchronous agent's thread runs on regardless.
* *AppLifecycle.* The semantic cache (it fails to None, and is closed by nobody), metrics and
  health routes, several apps in a process (they share nothing). That a startup is cancelled
  half-way: it has no await.
* *WorkerThreads.* A detector without a timeout cannot be configured. Redis's part of
  a lookup or a store belongs to the same wait.
* *Translation.* Payloads are well-formed or not JSON; several `data:` lines in one event, CR LF,
  several candidates and JSON that is not an object are not sent by its upstreams (the last
  is `StreamProxy`'s `Escapes`).
* *Not modelled.* Metrics and tracing; the CLI; parsing of settings.

## 7. Plan

Done: `CircuitBreaker`, `RateLimiter`, `Pruner`, `StreamProxy`, `Gateway`, then `Auth`,
`AppLifecycle`, `WorkerThreads`, `Translation`; proofs of all their safety properties. Next:

1. `retry_after_s`: whether a client that waits as told is admitted (the docs promise nothing).
2. The translation of requests: what each vendor is not told (`top_k`, safety settings, binary
   system parts).
3. Entries within a cache partition, so that "near enough" and the key's missing parts show.
