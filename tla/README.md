# A TLA+ model of jaeger-client-node

This directory holds TLA+ specifications of the tracing client in `src/`, the
TLC configurations that model-check them on small instances, and proofs that
TLAPS checks for every instance. Paths below are relative to the repository;
the code modelled is `src/` (Flow-typed JavaScript, not the compiled `dist/`).

All of the client runs on one event loop: a handler runs to its end before the
next one starts. The concurrency is in what happens *between* handlers: timers
fire, sockets and HTTP requests answer in any order or not at all, and the
program calls the API at any time. One action of a module is therefore one
handler, or one synchronous call of the program, with everything it does up to
its return.

## Inventory

**Tracer, Span, SpanContext** (`tracer.js`, `span.js`, `span_context.js`).
State: the flags, the finalization and the baggage of each context, the tags,
logs and duration of each span. Operations: startSpan, setOperationName, setTag
and addTags (with `sampling.priority`), log, setBaggageItem, inject, extract,
finish, close. A span asks the sampler and the debug throttler, counts in the
metrics and hands itself to the reporter. *Hard*: contexts are mutable and
shared, setBaggageItem makes a copy that the old one drifts from, a root span
may be sampled again until it is final, methods may be called in any order and
after finish. *Correct*: one decision per trace, no incomplete span is
reported, no counter drifts.

**Reporters** (`reporters/remote_reporter.js`, `composite_`, `logging_`,
`in_memory_`, `noop_reporter.js`). State: the flush timer, the process, the
callbacks of calls in flight. Operations: setProcess, report, flush, close.
*Hard*: several batches in flight, close while they are, a barrier of callbacks
in the composite one. *Correct*: every span is counted once, and close calls
back when everything is closed.

**Senders** (`reporters/udp_sender.js`, `http_sender.js`, `sender_utils.js`).
State: the batch and its size. Operations: setProcess, append, flush, close.
*Hard*: a span that does not fit waits for an answer in a continuation; an
encoding error; a connection that fails late. *Correct*: each span is in one
place, and a datagram fits.

**Throttlers** (`throttler/*.js`). State: the credits of each operation, the
timers, the fetches in flight. Operations: setProcess, isAllowed, refresh,
close. *Hard*: credits are spent while answers of several fetches are added to
them. *Correct*: credits are conserved, debug stays within the grant, and what
was refused is asked for.

**Samplers** (`samplers/*.js`, `rate_limiter.js`). State: the strategy, a
sampler for each operation, the balance of each rate limiter, the poll timer.
Operations: isSampled, update, poll, close. *Hard*: polls that overlap, updates
that fail half way, parameters that are missing, clocks that step back, a map
with a limit. *Correct*: the latest strategy is in force in the end for what it
names, the lower bound is guaranteed, the balance stays in its range.

**Propagation** (`propagators/*.js`, `baggage/*.js`). Functions between contexts
and carriers, a key cache, baggage restrictions. *Hard*: values that look
encoded or cannot be, names that lose their case or that every object has,
headers that are damaged in part, codecs that differ in what they can say.
*Correct*: trace, decision and the baggage that was written arrive through any
number of processes, and a malformed carrier gives no parent.

**Configuration** (`configuration.js`, `configuration_env.js`). State: none of
its own, but the program's two objects, which it writes into, and the timers and
sockets of the parts that it makes. Operations: initTracer, initTracerFromEnv.
*Hard*: the same objects used again after the environment has changed, values
that count as missing, a part that throws when others have been started.
*Correct*: what was read stays, what throws leaves no more running than is
known.

**TChannel bridge** (`tchannel_bridge.js`, `default_context.js`). State: the span
of each context, the headers objects that go through it. Operations: request,
send, tracedHandler, the wrapped callbacks. *Hard*: contexts read later than they
were given, headers objects that are shared or passed on, requests that are given
up while their handler runs. *Correct*: each span is below its own caller, and
every client span is finished.

**Metrics**
(`metrics/`): counters, incremented by all of them. **The rest**: `util.js`,
`thrift.js` (ids, conversions), constants, logging, Flow types, the IDL,
`dist/`, crossdock, benchmarks and scripts; no protocol state of their own.

`PROJECT.json` lists every component with its status, and under `hazards` the
places that are hard to test, with the properties that watch them.

## The modules

| module | models | abstracts |
|---|---|---|
| `SpanDelivery` | what a reporter promises about spans and metrics, whatever its transport (abstract) | |
| `RemoteReporter` | callbacks, metrics, phases of closing | logging |
| `UDPReporter` | RemoteReporter with UDPSender and the socket | Thrift encoding: sizes, and which spans fail |
| `HTTPReporter` | RemoteReporter with HTTPSender and node's http client | URL, credentials, encoding |
| `Configuration` | initTracer and initTracerFromEnv over the program's objects and the environment | ports, intervals, credentials |
| `TracerClose` | Tracer.close over CompositeReporter, sampler and throttler | what children do with spans |
| `TracerLifecycle` | the two together, from initTracer to the end of close | |
| `RemoteThrottler` | the remote throttler and its fetches | the JSON of an answer |
| `SpanSampling` | contexts, flags and counters of spans | names, tags, ids, baggage values |
| `RateLimiter` | the rate limiter, as operators | floating point |
| `ThroughputSampler` | the rate limiting and guaranteed throughput samplers | tags; the random decision |
| `RemoteSampler` | the polling loop and the samplers it puts in force, the per-operation one with its map | JSON; what samplers decide |
| `TChannelBridge` | spans, contexts and headers of calls within calls | TChannel itself, tags |
| `Propagation` | the codecs, the parent of a span, baggage items | characters: names, ids and values are atoms |
| `ReporterProofs`, `UDPReporterProofs`, `HTTPReporterProofs` | proofs about the reporters: lemmas for both, and each | |
| `SpanThrottlerProofs`, `SamplerProofs` | proofs about `SpanSampling` and `RemoteThrottler`, and about `RemoteSampler` and `ThroughputSampler` | |
| `TracerLifecycleProofs`, `TChannelBridgeProofs`, `PropagationProofs` | proofs about the module each is named for | |
| `MC...` | the instances for TLC | |

`UDPReporter` and `HTTPReporter` EXTEND `RemoteReporter`, which INSTANCEs
`SpanDelivery` with the three metrics as one function. The components meet at
narrow places, and each module takes the others as its environment, but for
`TracerLifecycle`, which composes two: what `Configuration` makes, `TracerClose`
closes. `TracerClose` sees a remote child as one that calls back later (what
`CloseCompletes` of the reporters says), once or, for HTTP, twice;
`SpanSampling` takes any answer of sampler and throttler, and any extracted
context; `RemoteSampler` puts parameters in force that `ThroughputSampler` takes
as inputs of its updates; `Propagation` follows ids and baggage between
processes, which `SpanSampling` leaves out, and leaves to it when sampling is
final; the reporters take each span at most once (what `TypeOK` of
`SpanSampling` says of `reports`).

### UDPReporter

`batch` is `_batch.spans` (a set: the order within a datagram matters to
nothing here), `totalSpanBytes` is `_totalSpanBytes`, `sends` holds the
datagrams given to the socket and not yet answered, each with its spans, the
callback it will call and the span that waits for it. `FlushBatch` is `flush()`
with its three ends: nothing to send, a batch that cannot be written (reset,
callback at once), a batch given to the socket (reset, callback later).
`AppendRefused`, `AppendBuffered`, `AppendFills` and `AppendOverflows` are the
branches of `append()`; `AppendOverflows` keeps its span in the continuation of
the flush. `SendDone` is the answer: the continuation runs, the callback
counts. `SendLost`: node drops a datagram whose address is still being looked
up when the socket is closed, without calling back.

Run `udp_reporter`. Seven spans: two that fill a batch exactly, two that
overflow it, one that cannot be written, one that cannot be converted, one too
large. With a room of four bytes every branch of append is taken with batches
full and empty, and up to four datagrams wait at once, whose answers come in
every order. It shows:
- `NoSpanForgotten`, `OnePlaceEach`: an accepted span is in one place exactly
  (batch, datagram, continuation) until it is counted;
- `MetricsCountEachSpanOnce`: the metrics are the numbers of spans counted each
  way; `ImplementsDelivery`: verdicts are final, nothing is accepted after
  close, the sender is closed once: the specification `SpanDelivery`;
- `BytesMatchBatch`: `_totalSpanBytes`, from which the buffer is allocated, is
  the size of the batch, and the buffer of a datagram that of its spans;
- `ClosingWaitsForItsFlush`: close waits for its own flush and no other;
- `EventuallyCounted`, `CloseCompletes`: liveness.

### HTTPReporter

As above, with `requests` for the requests whose listeners may still be called.
A batch that cannot be encoded is *not* reset. `LateErrors` lets a connection
fail after the response, when the 'error' listener calls back a second time;
`twice` remembers the spans that were counted so.

Run `http_reporter`. Five spans, one of which cannot be encoded, batches of
two. The metrics are not exact (see the disagreements), and the run shows what
still holds: no span is forgotten, a span is counted as sent once at most
and without a poisoned batch the metrics differ from the spans exactly by the
late errors (both `MetricsAddUp`), the batch stays below its
limit unless it is poisoned (a part of `TypeOK`). `MaxFailures` stops the timer
when the failure metric has passed it, so that a poisoned batch, counted again
at each flush, does not make the state space infinite.

### Configuration

`config` and `options` are the two arguments, `env` the environment, where a
variable is a record of its type and a token, and `Truthy` and `ParsedFloat` are
what JavaScript makes of it. `FromBoth` is `_getSamplerFromEnv` and
`_getReporterFromEnv`, which read each setting alike; `Written` replaces a
section of config, unless nothing was read. `Failure` is the first reason to
throw, in the order of the code: metrics of an earlier call, no service name, a
param that is no number, a rate out of range, an agent's address or a
collector's endpoint that `url.parse` does not take (`Unparsable`), and a sampler
of unknown type that the log would name. `MadeBy` tells which parts have been
made by then, and `LeftBehind` what of them runs. An endpoint is parsed when the
sampler's timer has been set; an agent's address before that. `OwnReporters` are
the reporters that a program gives in `options.reporter`, in a composite one. `InitTracer` and
`InitTracerFromEnv` are the functions, `last` and `leaked` are histories. Sampler,
reporter and throttler are the parts; each timer and each socket is a pair of its
part and its kind.

### TracerClose and TracerLifecycle

`current` is `tracer._reporter`, `child` the phase of each child of the composite
reporter, `count` the counter of `_compositeCallback`, `running` the timers and
sockets of the parts. `Assemble` is the constructor. In `TracerLifecycle` a program
makes a tracer of the objects it has, closes it, and may make another one of the
same objects when it has closed or could not be made.

Run `tracer_lifecycle`. Eleven environments, with an agent and a collector that
cannot be parsed among them; sampler and reporter settings, service name, logger,
reporter, throttler, tags and metrics given or not, a few of them at a time; two
calls, with another environment between them, two calls of close for each tracer.
What initTracer makes itself is one remote reporter, beside a logging one at most;
a program's own composite reporter has two remote ones and a logging one here, so
that the barrier waits for two slow children, in either order. One of them may
call back twice. It shows:
- `ReadIsKept`: what initTracerFromEnv has read is in the objects, of which
  either function makes the same tracer again;
- `FailureLeavesLittle`: an exception leaves the sampler's timer if it was the
  endpoint that could not be parsed, every part if the log named a sampler of
  unknown type, and nothing otherwise (see the disagreements), because the
  sampler comes first and checks its settings before it sets its timer;
- `BarrierWaitsForAll`: the callback of close comes when the slowest child has
  called back;
- `NothingStranded`: no span reaches a closed reporter;
- `CloseCompletes`: every close calls back, and stops every timer and socket of
  every combination of parts.

Deadlock is not checked: a tracer that is closed and has nothing left to finish
stops. A composite reporter of no children, which would never call back, is
excluded by `LifecycleAssumption`; nothing in the code makes one.

### TChannelBridge

A call has a client side (`client`), a server side (`server`), and the headers
that are on their way (`wire`). `given` is the context of the request's options:
that of a handler, one of the program, or none; `inContext` is the span that a
context holds at the moment. `headers` are the headers objects: one that the
program shares among its calls, one that each handler got, and new ones. `Request`
and `Send` are the two halves of a client call, `Handle` is `tracedHandler` up to
its handler, `Answer` and `Return` are the two wrapped callbacks; `Return` with
an error comes at any time, when the request is given up. `SendForeign` is a
client that has no tracing but may send `jaeger-baggage`. `carried` and `reused`
are histories.

Run `tchannel_bridge`. Two calls, either of which may be made by the other's
handler, or by the program, in any context; one baggage key; two spans that the
program starts itself in a context. It shows:
- `OwnCaller`: the span of a handler is below the client span of its very call, in
  its trace, and a call in a handler's context is in the handler's trace, whatever
  headers objects are passed on;
- `BaggageOfItsCaller`: a handler reads the baggage of its caller, no less, and no
  more unless the program itself used a headers object twice. Those that a
  handler got may be passed on, because `tracedHandler` deletes what it has read;
  `jaeger-baggage` is not deleted, and goes on;
- `EveryCallFinishes`: client spans are finished in the end, those of handlers
  when they answer.

### RemoteThrottler

`known` are the own keys of `_credits`, `credits` their values in fractions of
a unit, `nan` the operations whose credits became NaN, `fetches` the requests
in flight (slots, since the same set may be asked for twice). An answer brings
balances for any operations, asked for or not: `_credits[op] += balance` is NaN
for a key that is new, and for an entry without a balance. `Inherited` are names
such as 'constructor', which are `in` the credits before any was granted: the
first debug span of one is allowed, and NaN is what is left. `Accessor` of them is
'__proto__': assigning NaN to that does nothing at all, so that every debug span of
such an operation is allowed.

Run `remote_throttler`. An ordinary operation and one of each of these two kinds,
two fetches at a time and balances of 0, ½ and 1½ units, up to 2 units in all per
operation. It shows:
- `CreditsConserved`: credits are neither lost nor made up, but where they are no
  number;
- `DebugWithinGrant`: debug stays within the grant, but for one span of an
  inherited name; of '__proto__' nothing is said, as nothing holds;
- `CreditsAreFetched`: every operation that was refused is asked for.

### SpanSampling

`flags[s][v]` is the v-th context of span s (setBaggageItem makes the next
one), `current[s]` the one in `_spanContext`. Every call may be made at any
time, on old contexts too. `linked`, `sent`, `refused`, `forced`, `roots` and
`spent` are histories for the properties. Run `span_sampling`: two spans (two
traces, or parent and child in either order), two contexts each; the spans are
interchangeable and no property is about liveness, so symmetry is sound. Two
spans are enough for each property to be violated by its mutant, since they
relate a child with its one parent or a span with itself; the theorems are for
any number.

### ThroughputSampler

`limiter` is the `RateLimiter`: `balance`, `max`, `rate` and `tick` are its four
fields, in units of which a credit has `CreditUnit`, and in ticks of the clock
of which a second has `Second`. `Ticked` is `_updateBalance`, `Paid` a
`checkCredit` that pays, `Adjusted` is `update`. The code's numbers are floating
point; the model's are integers, exact but for a change of the rate, where the
new balance is rounded down to a unit. `guaranteed` tells whether the limiter is
the lower bound of a `GuaranteedThroughputSampler`, which asks it after its
probabilistic sampler whatever that decides, or a `RateLimitingSampler`, whose
limiter every answer of the agent updates. `Tick` and `SetBack` are the clock.

Run `throughput_sampler`. Rates of none, half a credit and two credits a second,
the first two below the one credit that the balance may always reach, eight
half seconds, balances down to one credit below zero. It shows:
- `RateRespected`: between two changes of the rate no more is paid than a full
  balance and what the rate brought up to the latest reading of the clock, so
  that a clock set back and forth makes no credit;
- `LowerBoundGuaranteed`: "every operation is sampled at least once in a time
  interval defined by the lowerBound" (`guaranteed_throughput_sampler.js:20`).
  The interval counts from the last sample or change of the rate. It holds when
  the clock is not behind an earlier reading, and when the balance was not below
  zero before the change, which takes a clock that was set back, too. What a
  change of the rate makes of a balance that is not negative is thus checked: one
  that it lost or made negative would be missed in the interval that follows.

### RemoteSampler

`timer` is the initial delay, the interval and their end, `agent` what the agent
answers at the moment, `polls` the requests in flight, each asked or with its
answer on its way, `sampler` the kind and parameters of `_sampler`; `ops` in it
is `_samplersByOperation`. `counted` holds the metrics that the last step
incremented. `Arrives` is the whole of `_parseSamplingServerResponse` for one
answer. `Completes` tells whether an update runs to its end; `Incomplete` holds
what one that throws has done by then, for every order of the operations in it:
the lower bound changed, some of the operations changed, one of them half
(`HalfUpdated`), the default rate not. A sampler that is made for the first time
and throws replaces nothing. `NoNumber` is a rate or a limit that is missing, or a
text that is read as NaN: the checks of the constructors are `x < 0` and `x > 1`,
which it passes, and it is in force then. It leaves the balance of a rate limiter
NaN for good (`nan`). null and other texts are read as numbers, and are those
here. A negative lower bound throws only at a sampler that is made or updated with
it, when `_defaultLowerBound` holds it already: `IsSampled` of an operation that
has no sampler then throws, out of startSpan. An answer names each operation once.

Run `remote_sampler`. Two operations, room for one in isSampled, two polls at a
time, ten answers: of each kind, without operations and with both, with a
parameter missing, and invalid ones that throw at an operation, at the default
rate, at the lower bound of an operation, and at the one limit for all. It shows:
- `TypeOK`: no sampler has a rate or a limit that is a number out of range,
  wherever an update stopped; the lower bound for samplers yet to be made may be;
- `FailureKeepsSampler`: an answer that fails takes no sampler away;
- `UpdatesCounted`: what is in force changes exactly when the answer counts as
  an update, but for a failed one, which may have changed a part. The return
  values of three nested updates must agree for this;
- `UseBounded`: operations that no answer named have `maxOperations` samplers
  at most, though those that answers name are not limited;
- `EventuallyInForce`: when the agent keeps to one valid strategy, it is in force
  in the end and stays so, for the operations that it names and those that get a
  sampler only then, whatever arrived late or stopped half way before. An
  operation that has a sampler and that the strategy does not name keeps it, with
  what an earlier answer, or the half of one that failed, made of it, for as long as
  the strategy stays: no poll makes that good.

### Propagation

One request is followed from a foreign client through up to four spans. `span`
is the context of the span at hand, `carrier` what is between two processes:
the headers of the trace context by name, those with the baggage prefix, the
pairs of `jaeger-baggage`, and whether there is a `jaeger-debug-id`. `Inject`
writes a new carrier with one of the codecs, `Receive` extracts it with the same
one and starts a span, with the context as childOf option or as a reference
before or after another. `text` and `http` are the two instances of
`TextMapCodec`, without and with URL encoding, `b3` is the Zipkin codec with it.
A value that was encoded is a record around it, and `Unescaped` is what decoding
makes of a value that was not. `Unencodable` are the values with half a surrogate
pair, which `maxValueLength` may leave of another (`Truncated`):
encodeURIComponent throws at them, and `InjectThrows` leaves the headers of the
trace context and those of some items in the carrier, which the program may
send. `Inherited` are the keys such as 'constructor' that are found in the cache of
normalized keys without having been put there; `SetBaggageThrows` is
setBaggageItem of one, which ends in a TypeError where getBaggageItem normalizes
what it found (`span.js:79`). `LowerCased`, `Damaged` and `Lost` are the
network; after a loss the process may try again with another codec. `trace`,
`chain`, `decided`, `items` and `intact` are histories: what the request should
have with it.

Run `propagation`. Foreign requests with each codec, with a good context, a
damaged one and half of one, with debug ids and with one baggage key in two
spellings; another key, and one that every object has; values that look encoded,
that are cut, and that a cut makes impossible to encode. It shows:
- `OneTrace`: every span is in the trace and below the span that it should be;
- `DecisionTravels`: a sampled span is followed by sampled ones, and a span that
  is neither sampled nor in debug by such. A span in debug that was switched off
  again is the exception: B3 sends it as in debug, which means sampled;
- `BaggageReaches`: an item that a process set is read by all that follow, as it
  was set, with three exceptions: the binary codec carries nothing; another
  spelling of its key, which only foreign clients send, may take its place where
  HTTP makes one name of the two; and inject may have thrown before it came to it,
  at a value, its own or another, that cannot be encoded.

## Fairness

Weak fairness, on what the event loop does by itself: `setInterval` keeps
firing until it is cleared (`Flush`, `Refresh`), an open socket answers every
`send`, and the tracer's constructor calls `setProcess`. `TracerLifecycle` takes
from the reporters that the flush of close is answered. TChannel calls back every
request, with an error when its time is up; handlers need not answer. For HTTP,
that every request is answered or fails is an assumption about the collector: the sender's
`timeout` option has no listener, so that nothing in the code ends a request
that hangs. For the throttler likewise, where a request may end by an answer,
by a failure or by a connection that closes. `EventuallyCounted` excepts spans
that are still waiting when close is called; `CreditsAreFetched` excepts a
closed throttler. `EventuallyInForce` of `RemoteSampler` needs strong fairness of
the agent: polls may fail again and again, but not all of them for ever. It is
an assumption about the agent, not about the code, and nothing less would do,
since the code has no retry but the next poll. Nothing is assumed of the
program: it need not finish a span or call close. `SpanSampling`, `Propagation` and
`ThroughputSampler` have no liveness: their steps are the program's, the network's
and the clock's.

## What is proved

TLAPS checks, with no assumption but those the modules state of their constants
(`SizesAssumption`, `SpanFinite`, `HTTPAssumption`, `ThrottlerAssumption`,
`SamplingAssumption`, `RateLimiterAssumption`, `ThroughputAssumption`,
`CloseAssumption`, `LifecycleAssumption`, `CallAssumption`,
`RemoteSamplerAssumption`, `PropagationAssumption`, `ForeignAssumption`), every
safety property of the passing runs. Two theorems have hypotheses of their own,
`ReadStays` and `DeliveryWithoutErrors`. The names in `RemoteThrottler` and
`ThroughputSampler` that other modules have too are prefixed there (`ThrottlerSpec`,
`ThroughputSpec`), since a module of proofs extends two that share no state.

- **UDPReporter**, for any finite set of spans, any sizes and any limit:
  `TypeOK`, `MetricsCountEachSpanOnce`, `NoSpanForgotten`, `OnePlaceEach`,
  `ClosingWaitsForItsFlush`, and that it implements `SpanDelivery`. The
  conjunction of the five invariants is inductive, and none but the types is so
  alone: an answer counts exactly its spans because they are pending, which
  they are because they are in no other place. `CallbackCounts` and
  `LaterCounts` do the arithmetic of the metrics once for all actions. For the
  refinement, `OutcomesMoveForward` says that a step moves spans forward only,
  and `ExactCountsFollow` that exact metrics before and after the step then
  grow as `SpanDelivery` wants. `BytesMatchBatch` comes on top of them: sizes are
  written as the number of bytes of a set of spans, not as a sum, so that disjoint
  sets add up by the cardinality of a union (`SizesAdd`), and disjoint they are
  because each span is in one place.
- **HTTPReporter**, for any finite set of spans, any batch size and any spans that
  cannot be encoded, with late errors or without: `TypeOK`, `NoSpanForgotten`,
  `MetricsAddUp`. The metrics are no count of outcomes here, as spans are
  counted again. `Counts` says by how much: the metric of success is ahead by the
  late errors always, the other two are exact until a batch is poisoned. `Places`
  says what makes a second count harmless: no span is in two requests, or in a
  request and the batch, and one that was counted twice is in neither. When all spans
  can be encoded and no connection fails late, HTTPReporter implements
  `SpanDelivery` (`DeliveryWithoutErrors`): these two errors are all that keeps it
  from doing so. The instance for TLC has both.
- **RemoteThrottler**, for any operations, unit, balances and number of
  fetches: `ThrottlerTypeOK`, `CreditsConserved`, `DebugWithinGrant`. The last needs
  `SpoiltWithinGrant` besides conservation: an operation whose credits are NaN
  is excepted from conservation, so it must be remembered that it was within
  the grant before. Names on `Object.prototype` are excepted as the properties say:
  one span more than the grant, and any number for '__proto__'. `MaxGranted`,
  `MaxOutstanding` and `MaxFree` are parameters that may be any numbers.
- **SpanSampling**, for any finite set of spans and any number of contexts:
  `TypeOK`, `ChildrenAgree`, `InjectedAgrees`, `ReportsAreComplete`,
  `OneCreditPerSpan`, `MetricsMatch`. That parent and child agree does not say that
  they will: the inductive invariant adds that both are finalized, that what was
  injected is, that a span which lost a tag is finalized and unsampled or was forced,
  that a reported one is finalized and sampled or was forced, and that one
  which took a credit is in debug. All calls but `_setSamplingPriority` keep
  the flags of a finalized context (`FinalKept`). `MetricsMatch` is inductive with
  no more than that the roots have been started (`CountInv`): each of the
  sums has one counter for sampled spans and one for others, and a start
  increments one of the two (`StartCounts`).
- **ThroughputSampler**, for any rates, unit and clock: `ThroughputTypeOK`,
  `RateRespected`, `LowerBoundGuaranteed`. The two last speak of what was or will
  be paid and not of the balance. `Account` ties them to it: paid and left
  together are at most a full balance and what the rate brought up to
  `_lastTick`. `OnTime` says why the next sample is not late: either nothing but
  time has passed since the last one, or the balance has been full since.
  `ScaledBounded` keeps the balance below its maximum when that changes, and one
  that is not negative from becoming so, which `OnTime` needs at a change.
- **TracerLifecycle**, for any environments, settings and finite set of the
  program's own reporters: `FailureLeavesLittle`, `NothingStranded`,
  `BarrierWaitsForAll`, and `ReadIsKept` for objects whose sampler param is no text
  of 0 or NaN. The first follows from the order in which `initTracer` makes the
  parts: what was made when it throws is what comes before (`MadeBefore`). That
  nothing is stranded needs `OpenWhileConfigured`: a reporter is open as long as
  the tracer has it. The barrier is a count, and the callback comes when it has
  reached the number of children; `Counted` ties it to the phases of the children
  for as long as none has called back twice, and `NotClosedYet` says that no child
  has been closed before the first call of close. `ReadIsKept` is a fixed point:
  `initTracerFromEnv` reads each setting with the object before the environment and
  writes what it read into the object, so that reading it again changes nothing
  (`ReadTwice`, `WrittenTwice`, `ReadAgain`). It fails for a value that is there and
  is read as one that counts as missing; a text as param that parseFloat makes 0 or
  NaN of is the only such value (`ReadableParam`, and see the disagreements).
- **TChannelBridge**, for any finite set of calls in any nesting and any use of
  the headers objects: `OwnCaller`, `BaggageOfItsCaller`. `OwnCaller` speaks of
  spans only, but a span gets its parent from what is on the wire, or from a
  context. So the invariant adds that what is on the wire names the client span
  of its call (`Sides`), and that a context holds a span of its own trace
  (`Contexts`); `SpansKept` says that no step changes the parent or the trace of
  a span. For the baggage, `Items` says that the wire holds what the client span
  has, whose items do not change once it has been sent, because no context
  holds it.

- **RemoteSampler**, for any answers, operations and limits: `TypeOK`,
  `UseBounded`, `UpdatesCounted`, `FailureKeepsSampler`. `TypeOK` says that the
  samplers in force have no rate and no limit that is a number out of range (one
  that is missing they may have, and the lower bound for those not made yet may be
  negative), which must hold wherever an update stops:
  `Incomplete`, what an update that throws has done by then, is shown to stay in
  the legal samplers for every set of operations that it may have reached. For
  `UseBounded` an answer names the samplers that it makes, so that only
  `isSampled` adds to those that no answer named.
- **Propagation**, for any keys, those on `Object.prototype` included, and any values,
  those that cannot be encoded included, any escaping and truncating of them, any
  foreign client and any number of processes: `TypeOK`, `OneTrace`,
  `DecisionTravels`, and `BaggageReaches` with its exceptions. `TypeOK` says that no
  value in the baggage is still encoded; that none was decoded once too often is
  said by `BaggageReaches` only. Keys must be normalized to lower case, unless they
  are on `Object.prototype` and cannot be set. Between two processes a trace is nowhere but
  in the carrier, so the invariant says what the codec will read there: the ids
  and flags of the span at hand or nothing valid (`IdsArrive`), and each
  item (`ItemsArrive`), after whatever the network did. `AtHand` says of which span.
  `RestrictedBaggage` is why it holds of an inject that throws, too: what it wrote
  by then is a part of what it would have written.

The type invariants of `UDPReporter`, `RemoteThrottler`, `SpanSampling` and
`ThroughputSampler` are theorems and no longer properties of their runs, and so
are the types that `TChannelBridgeProofs` needs.

Only model-checked: all liveness, which is out of the prover's reach
(`EventuallyCounted`, `CloseCompletes`, `EveryCallFinishes`, `CreditsAreFetched`,
`EventuallyInForce`). `PacketFits`, `CloseFlushesBuffer` and `ConfigOverridesEnv`
are false, which TLC shows.

## Where the code and its documents disagree

Each of the first three is a run that TLC finds violated.

- `udp_packet`: a span that overflows the batch waits for the flush that its append
  started. Another one is appended to the empty batch meanwhile. The answer of the
  socket adds the first one to it without a look at its size
  (`udp_sender.js:115-120`, where a TODO admits as much), and the next flush sends
  both in a datagram larger than `maxPacketSize`, which `_maxSpanBytes` is computed
  for (`udp_sender.js:37`).
- `udp_close`: `close()` flushes the batch; a span that waits for an earlier
  flush is not in it. The callback comes and the span is never sent, although
  "RemoteReporter.close() now ensures that the buffer is flushed before
  invoking the callback" (`CHANGELOG.md:74`).
- `config_override`: "all of them can be overridden via properties on the
  `config` object" (`README.md:53`), but `_getConfigValue` takes 0 and false for
  missing, so that `param: 0` and `logSpans: false` in config give way to the
  environment.

Others are in the models, and the properties are stated so that they allow them:

- an encoding error returns before the reset (`http_sender.js:104-108`), so that
  each later flush counts the same spans as failed again, and `HTTPReporter`
  does not implement `SpanDelivery` (`MetricsAddUp` excepts it, and
  `DeliveryWithoutErrors` proves that it does without such errors);
- extract gives an empty context for a carrier without a trace, where its doc
  says null (`tracer.js:318`); a trace started below it is counted neither as
  started nor, unless it is an RPC server's, as joined (`MetricsMatch`);
- with a logger, a sampler of unknown type throws where the log names it, when
  the reporter has its timer and its socket (`configuration.js:227`); without
  one, the tracer never samples (`FailureLeavesLittle`);
- a collector's endpoint that `url.parse` does not take, a text whose credentials
  cannot be decoded or no text at all, throws in the sender's constructor
  (`http_sender.js:45`), when the remote sampler has its timer, which polls on
  (`FailureLeavesLittle`);
- a sampler's param that config gives as a text of 0 or NaN, where the schema says
  number (`configuration.js:38`), is read as such and written into config, where the
  next initTracerFromEnv takes it for missing: it then takes that of the
  environment or throws (the hypothesis of `ReadStays`; no instance has it);
- initTracer replaces `options.metrics`, and a second call with the same object
  takes the replacement for a factory and throws (`ReadIsKept`);
- a sampler's type or the host and port of its agent from the environment,
  without a param, throw (`configuration.js:79`), although "none of the env vars
  are required"; so does an entry of `JAEGER_TAGS` without "=";
- the callback of a second `close()` comes at once, from the no-op reporter, and
  not "after the tracer has been closed" (`tracer.js:338`);
- the first debug span of an operation named like a member of
  `Object.prototype` is allowed without credits (`SpendInherited` of
  `RemoteThrottler`), although isAllowed should "return false [...] on initial
  call" (`test/throttler/remote_throttler.js:59`); and of one named '__proto__',
  every debug span is;
- an answer with a negative lower bound leaves it in force when its update throws
  (`per_operation_sampler.js:49`), and isSampled, with it startSpan, throws for
  operations that have no sampler until a later answer succeeds
  (`FailureKeepsSampler`); one without a sampling rate, or without a limit, is put in
  force as it is (`TypeOK` of `RemoteSampler`);
- setBaggageItem throws for a key such as 'toString' (`span.js:75-79`), and inject, into
  headers of HTTP, for a baggage value with half a surrogate pair
  (`text_map_codec.js:38`), which the limit on values may have made of a whole one
  (`baggage_setter.js:52`): `SetBaggageThrows` and `InjectThrows` of `Propagation`.

## Bounds

| name | bounds | why it is enough |
|---|---|---|
| spans of the reporters | 7 and 5 | one of each kind, and enough for several batches in flight |
| `MaxPacketSize`, `MaxSpanBatchSize` | 5 bytes, 2 spans | the exact fit, the overflow and the too large span all occur |
| `MaxFailures` | 4 | two flushes of a poisoned full batch |
| `MaxCalls`, `MaxClose` | 2, 2 | a tracer made of what another has left in the objects; a close while the first flushes, or after |
| `Call`, `MaxLocal` of TChannelBridge | 2, 2 | a call within a call, or two with one headers object; a span of the program in a handler and outside |
| `MaxOutstanding`, `MaxGranted`, `MaxFree` | 2 fetches, 4 half units, 2 | answers overtake each other; two debug spans, granted or free |
| `MaxTime`, `MaxDebt` of ThroughputSampler | 8 ticks, 1 credit | four seconds, twice the time that the lowest bound needs; the clock can be set back from any balance |
| `MaxOutstanding`, `Answer` of RemoteSampler | 2 polls, 10 answers | an old answer overtakes a new one; each way to throw; parameters that are missing |
| `MaxSpans` of Propagation | 4 | three hops, so that every codec comes before and after every other, or a child in between |
| `Span`, `MaxContexts` of SpanSampling | 2, 2 | a parent and child, each with a stale context |

## Not modelled, and the plan

Thrift encoding, ids, logging and formatting are left out: no property is about
them. `util.js` and `thrift.js` are conversions without state; Flow types and the
IDL have no behaviour; `dist/` is generated, crossdock, benchmarks and scripts are
tooling around the library. Requests that hang for ever, which the sender's
timeout does not end, are in no instance, and neither are carriers of `Propagation`
that hold headers already, a foreign trace id of zero, which B3 takes for valid and
the other codecs do not, or a foreign item '__proto__', which no object keeps. An
answer of the agent that names an operation twice is in none either: it may count
as an update though nothing has changed in the end. The names of operations are
such that `encodeURIComponent` takes them; at one with half a surrogate pair the
throttler's timer throws (`remote_throttler.js:130`). Still to come:

1. **Proofs** of how large a datagram can get at most, since `PacketFits` is false.
2. **SpanSampling** and **Propagation** closer together: the finalization of an
   extracted context, and a stale context injected after its span has changed.

## Running it

    tlc -workers 2 -config UDPReporter.cfg MCUDPReporter.tla
    tlapm UDPReporterProofs.tla

`PROJECT.json` lists the runs with their configurations, for every property a
mutant (an operator named after the definition it changes, such as
`HasRoom_OneMore`) that violates it, and for every definition the lines of
the code that it models.
