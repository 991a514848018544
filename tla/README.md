# TLA+ development of ethryx

ethryx is a sidecar proxy in front of an Ethereum execution layer (EL) and
consensus layer (CL) node. This directory holds TLA+ models of its concurrent
and time-dependent parts, TLC configurations that check them on small
instances, and TLAPS proofs. Source paths are relative to the repository
(`src/health.rs` is `src/src/health.rs` in `PROJECT.json`).

## The system

| part | source | state it keeps | operations |
|---|---|---|---|
| run and shutdown | `lib.rs`, `lifecycle.rs` | shutdown watch channel, completion sender clones, join handles, listeners | warm-up, bind, accept loops, signal, joins, drain; deadline and cancellation of every task |
| EL transport detection | `health.rs` 417-458, `proxy.rs` 411-454, `state.rs` | `el_use_h2` (atomic) | one batch per poll, the alternate after a transport failure; the verdict is read when a request is forwarded |
| readiness gate | `health.rs` | probe cache (watch channel), `prev_ready`, gauges | poll loop; `/readyz`, `/healthz`, `/eth/v1/node/health` |
| probe parsing | `health.rs` 460-757, 806-972 | numeric gauges | EL batch, Beacon envelopes, quantities; ages, distances, `/healthz`, gauges |
| routing and HTTP proxy | `proxy.rs`, `headers.rs` | connection handle | classify, mocks, compose the upstream URI, forward, strip hop-by-hop headers |
| WebSocket | `websocket.rs` | two sockets, the shared client sink in mocked mode | handshake over HTTP/1.1 and HTTP/2, two pumps, close handshake, 1 s drain |
| JSON-RPC mock | `rpc.rs` | none | recognise `eth_syncing` calls and batches, reply, stay silent, or forward |
| OpenTelemetry | `otel.rs`, `metrics.rs` | instrument maps under RwLocks, the SDK's sums | register, record, export, flush (optional feature) |
| configuration, entry point | `config.rs`, `main.rs` | none | flags and presets, signals |

How they interact: `run_inner` polls once, publishes the first probe, starts the
poller and only then binds and accepts. The poller alone writes the verdict and
the cache; handlers and forwarded requests read them without waiting. The
signal is one value in a watch channel, read by the accept loops, the poller,
every connection, every HTTP/2 request task and every relay; a clone of one mpsc
sender in each of them tells `run_inner` when all are gone.

What is hard to test: tasks spawned while the drain is already counting; the
order in which a task drops its sockets and its guard; a receiver that subscribes
after the value was sent, or whose sender is gone; the verdict read just before
the upstream changes; a poll whose EL and CL calls overlap and are cancelled
half-way; gauges, log and cache updated one after the other; ages that grow
between polls; two pumps sharing a sink; a client that leaves between a handshake
and its tunnel; threads that meet in the registration of a metric. `PROJECT.json` lists each of these at
its line, with the properties that look for it.

What makes each part correct:

* run and shutdown: `run()` returns only when everything is released, always
  returns, not later than it promised, and cuts no task before the deadline;
* EL transport: no call is sent twice, the verdict moves only on evidence and
  settles, and a wrong verdict has a bounded life;
* readiness: what handlers serve follows the upstreams within a bound, and
  gauges, log and cache agree;
* WebSocket: messages keep their order, closes reach both sides, a broken side
  ends the relay; the mock answers exactly what it should;
* parsing: no answer is taken for another one's, no age comes from a wrapped number,
  and endpoints and gauges tell one story;
* routing: one request goes one way, is counted once, loses the fields of one hop
  and no others, and is answered in time;
* handshake: the upstream is offered what the client offers, the client is told what
  the upstream agreed to, and no socket is left behind;
* mock: a body is answered here whole or forwarded whole, each call with its own id;
* metrics: one instrument for a name, exact counts, a complete last export.

## Modules

### Lifecycle (with DrainBarrier, LifecycleProofs, MCLifecycle)

`Lifecycle` is `run_inner` + `accept_loop` + `Lifecycle::run`. `pc` is the place
in `run_inner`, `loop[l]` the place in the accept loop of listener `l`, `task[t]`
what became of a connection, an HTTP/2 request or a relay (`kind[t]`),
`deadline` the value in the watch channel and `closed` the loss of its sender.
`sockets` is the set of those whose resources still exist and `guards` the set
of clones of the completion sender. The model keeps the two apart because the
code releases them in two steps: a task drops its future before its guard
(`lifecycle.rs` 37-41), an accept loop its guard before its listener (parameters
drop in reverse order), and `run_inner` needs joins for the second kind.

Actions: `Warm`, `Bind`, `BindFail`, `NewLifecycle`, `SpawnAccept`, `Shutdown`,
`JoinAccept`, `JoinPoller`, `Drained` and `DropRun` are `run_inner` (a caller may
drop its future at any await); `Check`, `Accept`, `AcceptPending`, `AcceptError`,
`Resume`, `Leave`, `CloseListener` the accept loop, whose biased select looks at
the deadline and then accepts, as two steps; `SpawnRequest`, `SpawnRelay`,
`ObserveStop`, `Finish`, `Cancel`, `Release` the tasks.

Time counts ticks from the signal. `Tick` is disabled while a step is due
(`Due`), so the bounds proved are on what the code itself waits for, with
scheduling taken as immediate; safety of the release order does not depend on it.

`DrainBarrier` is what shutdown promises: once closing, work is only begun while
other work exists; closed means no work; nothing follows. `Lifecycle` implements
it with `work <- sockets` (`ImplementsBarrier`).

Properties: `ReturnReleasesAll`, `CutAtSharedDeadline`, `ReturnsInTime` (past the
deadline only an accept loop's 100 ms pause can be left), `ShutdownReturns`,
`AbandonedEnds`, `ImplementsBarrier`.

### ElTransport (with ElTransportProofs)

`verdict` is `el_use_h2`. A poll runs `primary`, then perhaps `alternate`, and is
complete when the beacon calls joined with it are too (`cl`). The upstream is
external: `speaks` changes at any time, and `ever`/`always` are what it spoke at
some time / all through the attempt in flight, so an attempt that straddles a
change may end either way. A glitch is a call left unanswered until the timeout
although its transport is spoken. A request is `new`, `reading` its body, `sent`
over the transport the verdict names at that instant, `delivered`, and answered
or a 502. `mode` covers cleartext, TLS (ALPN decides, the verdict is not used)
and `--trust-upstream`.

Properties: `AtMostOnce`; `MismatchWindow` (a request goes out on a transport the
upstream does not speak only within `MaxLag` = 3 timeouts and one interval of the
last change, or of the last call left unanswered); `SwitchJustified`; `VerdictSettles`.

### Readiness (with ReadinessProofs)

`cache` is the watch channel's probe, `probe` the one being collected, each layer
answering at its own instant. `Judge` (gauges, log, `prev_ready`) and `Publish`
are two steps because handlers run between them. `Seed` is the warm-up's first
probe. Head ages are capped one past `MaxAge`; cached ages grow with the clock,
as the handlers compute them from timestamps. The clock is monotonic in the
model; the code reads the system clock. `ReadyzCode` and `NodeHealthCode` are
what a request would get in the current state.

Properties: `NeverServesPending`, `ServedTruth` (verdict and upstream agree once
the upstreams have been steady for `MaxLag` = 4 timeouts and one interval),
`OneStory`, `LinesAlternate`. `gate` is chosen at the start: sync-only,
`--readyz-strict` or `--trust-upstream`.

### WsRelay (with WsRelayProofs)

An established tunnel: `bridge_ws`, its two pumps and `drain_pair`. Side `c` is
the client, `u` the upstream; `pump[s]` reads from `s` and writes to the other
side. `ws[s]` is the close handshake as Tungstenite tracks it, `buffer[s]` the
frames a socket has accepted and not flushed, `inbound`/`outbound` the bounded
queues between a peer and ethryx, so that a peer that stops reading fills them
and a send blocks. `sink` is the mutex that both pumps share in the mocked mode,
where replies made here and messages of the upstream go to the same socket.

`ReadData`, `ReadClose`, `ReadCall`, `ReadNote`, `ReadFails` take the next message
and start to send it in the same poll, or go to `Lock` first; `SendDone` and
`SendFails` end the send; a close is followed by `LastRead`, for a second at
most; `Finish` is `drain_pair`, which waits a second for the other pump once one
has ended. A timer is only due once what it bounds can make no step (`Stuck`,
`Blocked`): tokio polls the inner future first. The peers keep to the protocol, may leave at any time, and
may write an invalid frame. Left out: the pong that Tungstenite adds by itself,
data lost by a kernel that resets a connection after ethryx has flushed it, and
what shutdown does to a relay, which is in `Lifecycle`.

Whether the tunnel is mocked is chosen at the start (`Modes`), so that one run
covers both. In plain mode the client may stop and resume reading at any time
(`Stalls`). In mocked mode the two pumps share a sink, a client that does not read
holds up both, and what the model then asks is asked of peers that read; the run
sends fewer messages there (`MaxMixed`).

Properties: `InOrder` and `AnsweredInOrder` (nothing lost, doubled or overtaken),
`OrderlyClose` (what was sent before an orderly close arrives), `ClosesBoth` (a
relay that ends by itself has closed both sides, unless one broke),
`ClientIsRead` (a client that does not read is still read from, plain mode),
`EndsWhenRead` (once a peer has left or closed, and while nobody stalls, the
relay ends), `CallsAnswered`; and `TypeOK`, whose bound on the buffers is the
back-pressure. `EndsWithPeer`, without the condition on stalls, is what the
source promises and `ws_relay_stalled` refutes.

### RpcMock (with RpcMockProofs)

`mock_syncing` as a machine that reads a body the way serde's visitors do:
`Open` an object, `Read` a member, `CloseObject`, `CloseArray`, `End`, or `Broken` at any
point. A member is its decoded key and whether that key's deserializer takes the
value; `texts` is what the undecoded bytes contain, and `Readable` says how the two
are related: a method that decodes to `eth_syncing` is spelled out or escaped.
`body` and `whole` are the history the properties compare with: `Local` is
JSON-RPC's own definition of a request that can be answered here, and `Replies`
relates replies and calls without recursion, so that it can be proved about. The
prefilter is an operator, to be compared with the parser it spares.

Properties: `LocalOrForwarded`, `OneReplyEach`, `PrefilterSound`.

### Dispatch, over WsHandshake and Headers (with DispatchProofs, MCDispatch)

One request from its arrival to its answer. `Headers` has the header fields as a
record of lines by name, with `Strip` for `strip_hop_by_hop`; "te" stands for all
hop-by-hop fields that nothing else looks at. `WsHandshake` has the variables of a
request and `websocket::upgrade`: the checks on the offer, the headers that go
upstream, the dial under its timeout, what Tungstenite accepts, what ethryx
accepts on top of it, and the relay that is spawned together with its socket.
`Dispatch` extends both with `dispatch`, `classify_request`, the mocks, the
collected body, `upstream_uri` and `send_http`, and closes the specification.

`stage` is where the handler waits: for the body, for an HTTP upstream (`sending`)
or for a handshake (`dialing`). A handler that waits is dropped when its client
leaves or the shared deadline passes (`Drop`); what it holds goes with it. The
spawned relay is no longer the handler's: it waits for hyper to hand over the
connection (`Upgraded`), and gives up if the client is gone. What follows in an
open tunnel is `WsRelay`, and that it ever ends is not assumed here; what a body is
to the mock is `RpcMock`, here an outcome; the transport to the execution layer is `ElTransport`. Requests (`Cases`, with the flags
and the base they meet) and answers (`Answers`, `Picks`) are constants, and
`MCDispatch` gives them values that are classes: paths by
how they are classified, queries absent, empty or with a parameter, bases with
and without path, trailing slash and query, and offers with each field missing, right,
wrong or doubled, nominated by `Connection` or not. A request over HTTP runs
under every set of flags, a WebSocket one under all mocks. A URI that has to
be joined is parsed anew and may be refused, which is a 502 without a call
(`ComposeFails`); one that the shortcuts spare is not parsed.

Properties: `RoutedOnce`, `HopsStay`, `UriWhole`, `InTime`, `OfferForwarded`,
`SwitchAgreed`, `Ends`, `SocketReleased`. `RoutedOnce` goes both ways: the upstream
that is called is the one the request is for (`IsFor`, a definition apart from
`classify_request` and the mocks), and a request that is answered without a call is
for none, or its answer is one of the few that ethryx makes itself. `SocketReleased` is
about sockets nobody has a use for: a tunnel whose client leaves while a
pump waits for the upstream to read may stay open until the deadline, as
`ws_relay_stalled` shows from the other side, and what ends an open tunnel is
`EndsWhenRead` of the relay.

### ProbeParsing (with ProbeParsingProofs)

The data that `Readiness` abstracts to outcomes. The execution layer writes a batch
answer entry by entry (`Write`), with any ids, known, doubled or unasked, and any
content; `Parse`, `Slot` and `Decode` are `parse_el_batch`; `FailBatch` stands for a
call that fails or a body of another shape. `Join` adds the two Beacon results and
is `update_metrics` too. `Healthz`, `Ready` and `gauges` are then what consumers
see, while the clock runs on after the last poll. A result is a set of one value or
none. Words have `Width` bits; `SlotAge` saturates as the code does.

Properties: `AnswersMatched`, `AgesExact`, `EndpointsAgree`, `GaugesAgree`.

### OtelRegistry (with OtelRegistryProofs)

A call of a metrics macro by a task or by the poller: `ReadLock`, `Lookup`,
`WriteLock`, `Register` and `Apply`, each a step of its own, on two maps with a lock
each. A task takes its active-connection guard (`Begin`), counts requests, drops the
guard (`End`) and then its completion sender (`Release`), in the order of
`lifecycle.rs` 36-48; `Flush` is the end of `run()`, after joins and drain. `made` is
every instrument ever built, `total` what the SDK holds (external: it adds, or keeps
the last value). Begun and answered work is the history that the sums are
compared with.

Properties: `OneInstrument`, `FinalExport`, `CallsReturn`; `ActiveExact` is proved
and not run, since `FinalExport` follows from it at the end.

## Runs

| run | question | bounds |
|---|---|---|
| `lifecycle_safety` | release, timing, shared deadline | 2 listeners, 3 tasks (a connection, its request, that request's relay), grace 1 < pause 2; symmetric |
| `lifecycle_liveness` | shutdown ends, abandoned runs end, the barrier is implemented with its fairness | 1 listener, 3 tasks, no symmetry |
| `el_transport` | double sends, window, justified switches, the verdict settles | 1 request, 2 changes, 2 glitches, interval 1, timeout 2 |
| `readiness` | served truth, one story, alternating lines, under each gate | 1 change, 1 fault, head ages up to 2 |
| `ws_relay` | order, replies, closes, back-pressure, the end of a relay | both modes; queues of 1, 2 messages each way in plain mode and 1 in mocked mode, 2 calls, a drain of 1 tick |
| `rpc_mock` | local or forwarded whole, replies in order, prefilter | bodies of 3 objects of 3 members, 2 ids of which one is null |
| `requests` | route both ways, count, headers, URI, time, handshake, socket (`MCDispatch`) | one request of each class, 16 sets of flags, 9 bases, a timeout of 1 tick |
| `probe_parsing` | matching, ages, one story on all endpoints | batches of 3 entries with 4 ids, 2 polls, words of 3 bits, a clock from 5 to 7 |
| `otel_registry` | one instrument, exact last export, no stuck thread | 2 tasks and the poller, 2 protocols, 2 requests, 2 values of the poller |

Three runs show a statement of the documentation that the code does not keep, each
on the smallest instance that shows it (`findings`):

* `el_transport_window`: the 502 window is longer than "one poll interval";
* `readiness_recovery`: a recovery before the first background poll is not logged;
* `ws_relay_stalled`: a client that does not read keeps the upstream half alive
  after the upstream has left, while the drain's grace never starts.

Three more were met and have no run. One unanswered h2c call leaves the verdict on
HTTP/1.1 for good although the upstream speaks h2c, where `state.rs` 19-21 says that
detection prefers h2c. `/eth/v1/node/health` answers 206, not 503, when one layer
errs and the other is syncing (`health.rs` 253-269). `--mock-cl-node-health` answers
with the verdict rather than always 200 (`README.md` 338 and 344, `proxy.rs` 276-281).

The inductive invariants are not repeated as invariants of the runs: they are
proved for every value of the constants.

Why these bounds are enough to be interesting: three tasks are one full chain
connection, request, relay, or three independent ones; two upstream changes are
one change that overtakes another's detection; a pause longer than the grace is
the case where the grace does not decide; a timeout longer than the interval is
the one where polls dominate. Every action is taken in the passing runs, and each
property has a mutated form of the code (`mutants`) that violates it.

A queue of one is already full while its peer does not read. One request at a time
is enough for `Dispatch`, where requests share nothing that changes; one tick of
timeout tells "in time" from "twice". Three bits hold a product of slot and slot
time that overflows and one that does not, and a genesis time of 0, which the code
takes for unknown. Two tasks of one protocol meet at one key, of two
protocols at one map.

Deadlock is checked in every run; the states where the process has nothing left
to do are explicit (`Stutter`).

## Fairness

Weak fairness on the runtime's steps only: a task whose await is ready is polled,
a timer that is due fires, the clock advances. Nothing is assumed of peers: an
accept, a request, a task ending by itself, an upstream answer may never happen.
The code justifies it: every wait in these loops is a select with the deadline or
a timeout.

The one exception is reading in `WsRelay`: a peer that does not stall reads. A client in
plain mode may stall for ever, and the properties that need it to read say so;
without it a relay may rightly wait, which is what `ws_relay_stalled` is about.

In `Dispatch`, handlers are polled, their timers fire, and the runtime drops what is
cut or has lost its client; bodies, upstreams and the peers of a tunnel may stay silent.
Of a relay only the handover and the cut are fair (`WsRelays`), not its end: `drain_pair`
sees no client leave while its pump waits for the upstream to read. In
`OtelRegistry`, a thread that can take a step of its call takes it at last, which
includes a lock that is free (`std::sync::RwLock` starves nobody for ever while calls
are finite, and here they are), and tasks end after the signal because the deadline
cuts them. `ProbeParsing` has no liveness property and no fairness.

## Proofs

`LifecycleProofs` proves, for any set of listeners and tasks and any grace and
pause, from the three assumptions on constants in `Lifecycle`:

* `Invariant`: `IInv` holds. `ReturnReleasesAll` is not inductive: that no relay is
  left when `guards = {}` needs every live task to hold a guard (`Ownership`);
  that no listener or poller is left needs what the joins have established
  (`Stages`); the timing properties need `Clocks`, which says that deadline, task
  deadlines, pauses and clock agree.
* `ReturnReleases`, `InTime`, `CutShared`: the three safety properties.
* `ImplementsSafety`: each step is a step of `DrainBarrier` or a stutter.

`ElTransportProofs`, for any number of requests, any interval and timeout (from 1
on), and any bounds on changes and unanswered calls:

* `Invariant`: `IInv` adds to types what the properties hide: each request is
  counted by where it stands (`Counted`), the attempt in flight knows what the
  upstream has spoken since it began (`Attempts`), a verdict that names a transport
  not spoken is younger than what the poll has left to run (`Outdated`), and the
  requests under way over it too (`Window`).
* `NoDoubleSend`, `BoundedWindow`, `JustifiedSwitch`.

`ReadinessProofs`, for any interval, timeout and age limit, with and without a
genesis time:

* `Invariant`: `Story` relates log, gauges and the remembered verdict to the probe
  that is judged or published; `Agreement` bounds the age of what a probe says by
  the time left on the timers; `HeadsLag` says a known head is no younger than the layer's own.
  `ServedTruth` follows from the last two, `OneStory` from the first.
* `NoPending`, `SameStory`, `Truthful`, `Alternation`.

`RpcMockProofs`, for bodies of any length and any set of ids: `Invariant` (what has
been read is local and has its replies, the object being read is clean so far and its keys
are the ones remembered), `ForwardedWhole`, `RepliesInOrder`, `FilterSound`. Induction is over the
steps of the parser, so no theorem about recursive definitions is needed.

The timing theorems are for every value of the constants under the model's clock, where
no step that is due is overtaken by `Tick`.

`WsRelayProofs`, for any capacity, message bounds, modes and stalls: `Invariant` adds to
the types `Closing` (a close that came or went says where its pump is), `Guarded` (who
holds the client's sink) and `Room`, which is why buffers stay small: a
buffer holds what the own pump and the far pump put there in their present step, and
neither starts a second while its first may be unflushed. `Bounded` is the
back-pressure, `Alone` the mutual exclusion of the sink.

The order of messages needs a second layer, `Order`, inductive on top of the first
(`OrderInvariant`):

* `Carried`: which kinds of message a queue or a pump may hold; no call gets past its
  pump, and a reply goes to the client only.
* `Sourced`: a close that waits or is passed on was written by its peer and is the last
  thing that this peer writes; a side is told to close because one of the two closed, and
  its socket has left the active state by then.
* `Lanes`: the numbers of the data on the way to a side form one run, from what it has
  received, over its queue, its socket's buffer, the pump's hand and the far queue, up
  to what was written; the same for the replies and the calls that will have one. Once the
  pump that feeds a side has ended, only the part that has reached the side's queue and
  buffer is promised (`Front`).
* `Orderly`: a close that a side did not ask for stands behind all the data of the other.
* `Closes`: while nobody broke off, a socket leaves the active state only with a close
  told to both sides, or to one and in the hand of the pump that owes the other.

From it follow `Ordered` (`InOrder`), `Answered` (`AnsweredInOrder`), `Orderliness`
(`OrderlyClose`) and, for the step that ends a relay, `BothClosed` (`ClosesBoth`). The
lemmas about `Run` say when a queue's numbers stay one run as a message is appended,
taken or moved on.

`DispatchProofs`, for any timeout, any requests with any flags and bases, and any
answers of upstreams: `Invariant` adds

* `Timed` (elapsed plus left is within the budget of the stage) and `Placed` (the
  stage says what was sent, and a body is only collected from a POST that is for the
  execution layer, with the syncing mock on), for `Routed`, `Hops` and `Timely`;
* `Inputs` (what `CasesAssumption` says of a request stays so) and `Composed` (the
  URI is whole, and there is none before something is sent), for `Addressed`;
* `Shaken` (a handshake is what a valid request for a tunnel makes of its headers, and
  a relay stands only on an answer that was agreed), for `Offering` and `Switching`.

`Meant` and `Nobody` say that the classification in the code finds whom a request is
for, and answers itself just what is for nobody. `StripCrosses` ties the code's `Strip` to the definition that `HopsStay` uses,
`Trailing` and `Trims` say what is left of a path, `Composes` that the two shortcuts of
`upstream_uri` change nothing, `OfferJoins` that flattening puts lines one after the
other without loss, `Distinct` that an offer without duplicates has as many tokens as it is
long. The last three hold for sequences of any length: they are inductions over sets of
numbers (`NatClosed`, from the well-foundedness of `<`), which needs no theorem with an
operator as its parameter. The assumptions on `Cases` are types but for two: the
segment of a path is not empty (the root is a class of its own), and no client guesses
the fresh key of another connection.

`ProbeParsingProofs`, for words of any width, any values of the answers and any
number of polls: `Invariant` adds `Slotted`, which says what the slots hold half-way through the
entries; `Matched`, `Ages`, `Endpoints`, `Gauges`.

`OtelRegistryProofs`, for any tasks and protocols: `Invariant` is `Exclusive` (a writer is
alone with its map), `Registered` (registry and instruments are inverse to each
other, which is what the second lookup preserves), `Callers`, `Recordings` (sums are the
cardinalities of live guards and of answered requests) and `Settled`; `Unique`,
`Exact`, `LastWord`.

Left to TLC: all liveness (`ShutdownReturns`, `AbandonedEnds`, `VerdictSettles`,
`EndsWhenRead`, `ClientIsRead`, `CallsAnswered`, `CallsReturn`, `Ends`,
`SocketReleased`, the fairness half of `ImplementsBarrier`), which needs ENABLED.
Every safety invariant and every action property that a passing run checks is a theorem.

## Not modelled, and the plan

* `config.rs`: clap's declarations and two values that a network preset stands in for.
  No state and no concurrency; modules take the values as constants or initial states.
* `main.rs`: argument parsing, logging set-up and signal wiring, straight-line calls.
* Of `otel.rs`: set-up of exporters and layers, propagation of trace contexts, and the
  fan-out to Prometheus, which are calls into libraries; periodic exports before the
  last one.
* Sockets of hyper's client pool, which the code's completion guard does not track.
* Build, release and license scripts.
* The cache is frozen while a drain is under way (`health.rs` 534): intended, as the
  poller ends with the signal, and bounded by the grace.
* Under `--trust-upstream`, `/healthz` would report block and slot 0 with their
  great ages: no property is stated about it.

What is left: a composition of `ElTransport` and `Readiness` under one poll loop, with `ProbeParsing` as its data.
