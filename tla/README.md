# Sentinel-Flow in TLA+

Models of the event-driven core of Sentinel-Flow: the two brokers, the fraud rules, the
resilient CRM client with its circuit breaker, the pipeline from the ingest gateway to
the CRM with GDPR purges running across it, the exports and dashboards that read it
meanwhile, and the shutdown of the process around it. Paths are relative to the
repository.

## 1. Inventory

One process, `cmd/monolith`, runs four modules that share a broker, a database and a
telemetry tracker. HTTP handlers run in a goroutine per request; the fraud and the
marketing worker are one goroutine each.

    POST /v1/events --> ingest --raw topic--> fraud worker --screened topic--> marketing worker --> CRM
                          |                       |                                |
                       tracker               events table                  crm_contacts table
                                                  ^                                ^
                            POST /v1/privacy/gdpr-delete (deletes from both, writes privacy_logs)

| Component | State | Operations | Hard behaviour | Correct when |
|---|---|---|---|---|
| In-memory broker, `pkg/broker/broker.go` | subscriber channels per topic, `closed`, RWMutex | Publish, Subscribe (raw, screened), Close | send loop under the read lock, drops, a context that ends mid-loop, Close at any time | no panic, nothing after Close, per-publisher order, a drop costs only the slow consumer, a failed publish reached nobody or not everybody, publishers never wait for consumers |
| Redis broker, `pkg/broker/redis.go` | client, pubsubs, `closed`, a forwarder per subscription | the same | subscription not awaited, retries, broken connections, Close and contexts against the forwarder | forwards everything that arrives in order, a stream ends only after it, no forwarder is left, nothing after Close |
| Circuit breaker, `pkg/resilience/circuit_breaker.go` | state, failures, lastFailure | Allow, RecordSuccess, RecordFailure | outcomes that arrive in another state, renewed cooldown | state and counter agree, sheds load, recovers |
| Resilient client, `pkg/resilience/resilient_client.go` | locals of each call | Do | retries, backoff, the consumer's context ending anywhere, shared request body | attempts bounded, a call that used them up opens the breaker |
| Fraud rules, `pkg/domain/fraud/rules.go` | IPHistory, UserHistory | three Evaluate | pruning, strict window edges, masked addresses as keys, flagged events leave no trace | the pruned history decides as the whole log would, about one address |
| Fraud service, `pkg/domain/fraud/service.go` | none of its own | Start, ScreenEvent | save, count, publish are separate and may fail | no event stops on the way, saved before published |
| Fraud and marketing repositories | events, crm_contacts, privacy_logs | Save, Get, Delete | lock released inside a purge, duplicate event ids, upsert | a purge erases, a contact has its event |
| Ingest, `pkg/domain/ingest` | none | HandleIngest, AnonymizeIP, CheckGDPRConsent | client disconnects while publishing, count after publish | refused events leave no trace, totals add up |
| Marketing service, `pkg/domain/marketing/service.go` | none | StartConsumer, ProcessMarketingWorkflow | remote call between three writes | attempts = successes + failures, no fraudulent contact |
| Privacy API, `pkg/domain/marketing/handlers.go` | none | HandleGDPRDelete, HandleCCPAExport | races with both workers, partial failure | nothing the purge found survives; an export misses nothing that stays and shows nothing purged |
| Telemetry, `pkg/domain/analytics` | six counters | IncrementMetric, GetMetrics | counters read one by one | counts conserve events; a dashboard shows no backlog that never was |
| `cmd/monolith`, `cmd/orchestrator` | the servers, the workers' context, `shutCtx`'s deadline | start, signal, shutdown | workers cancelled before the servers stop, one deadline for four servers, nobody waits for the workers | it ends; unless late, it serves what had begun; every event is accounted for |
| other `cmd/*`, `pkg/config`, `pkg/mockdb`, `scripts/` | wiring, settings, test doubles, load | - | - | - |

## 2. Modules

| Module | Models | Extends / composes |
|---|---|---|
| `EventBus` | what the `Broker` interface promises a consumer: one stream per subscription | - |
| `MemoryBroker` | `InMemoryBroker`: lock, send loop, Subscribe, Close, consumer loops | implements `EventBus` (`ImplementsBus`, refinement by `Bus == INSTANCE EventBus WITH ...`) |
| `RedisBroker` | `RedisBroker`: publish with retries, the subscription's connection, the forwarding goroutine, Close | - |
| `CircuitBreaker` | the breaker with its clock | - |
| `ResilientClient` | concurrent calls of `Do` over one breaker and one remote | extends `CircuitBreaker`, implements `BreakerSpec` |
| `FraudRules` | the rules and `ScreenEvent`'s verdict over every event sequence | - |
| `Pipeline` | ingest, fraud worker, marketing worker, purges, repositories, counters | abstracts the three above: a queue that drops, a free verdict, a free sync outcome |
| `Reports` | `HandleCCPAExport` and `GetMetrics` as readers of the pipeline | extends `Pipeline` |
| `Lifecycle` | the process: `main` from the signal on, the four servers, workers and handlers meanwhile | extends `Pipeline`, whose actions it restricts by what is closed |
| `MCMemoryBroker`, `MCFraudRules`, `MCPipeline`, `MCReports`, `MCLifecycle` | instances for TLC | `MCReports` extends `MCPipeline` and `Reports` |
| `MemoryBrokerProofs`, `RedisBrokerProofs`, `ResilientClientProofs`, `FraudRulesProofs`, `PipelineProofs` | theorems | extend their modules |
| `PipelineCounts` | theorems about the counters | extends `PipelineProofs` |
| `ReportsProofs`, `LifecycleProofs` | theorems about the readers and the process | extend their modules and `PipelineCounts`, `PipelineProofs` |

### How state and actions correspond to the code

**MemoryBroker.** A publisher inside `PublishRaw`/`PublishScreened` (one body, two
topics) holds the read lock from `Publish` to `Finish` or `Abandon`; each pass of the
loop is one action: `Deliver` (`case sub <- event`), `Drop` (`default`), `Abandon`
(`case <-ctx.Done()`; `select` may choose it although the channel has room). `Lock`
announces a writer, which keeps new readers out and enters when the last reader has
left, as Go's `RWMutex` does; `Subscribe`, `SubscribeClosed`, `Close` and `CloseAgain`
are the whole body under the write lock: only receives can run meanwhile, and they
commute with it. `Receive`, `EndOfStream` and `Quit` are the `select` of the two worker
loops. `crashed` becomes true on a send on, or a second close of, a closed channel.
`result`, `taken` and `overflow` record history for the properties.

**RedisBroker.** `Publish` is the check of `closed` under the mutex; what follows runs
without it: the server runs the command (`Execute`), the reply comes (`Reply`), go-redis
sends it again (`Retry`) or gives up (`Fail`). A command the client gave up may still
reach the server (`ExecuteLate`). On the other side `Subscribe` starts the forwarder and
does not wait for `Confirm`; a connection may `Break` and `Reconnect`, losing what was on
it; `Arrive` moves a message to go-redis' channel, `Overflow` drops it when that stays
full. `ForwardTake`, `ForwardGive`, `ForwardCtx` and `ForwardEnd` are the cases of the
forwarder's two `select`s. `Close` is three kinds of steps under the mutex, `BeginClose`,
`ClosePubSub` for each subscription, `CloseClient`, as publishers and forwarders do not
need the mutex and go on meanwhile. The server, the network and go-redis are not in the
repository: they are modelled from what the code asks of them, and marked external. The
module models one of the two topics; they share no state but `closed`. Retries and late
commands can duplicate and reorder events, so this broker does not implement `EventBus`.

**CircuitBreaker, ResilientClient.** Each method of the breaker runs under its mutex and
is one action. `age` is the time since `lastFailure` in ticks, up to the first one
past the cooldown; `failures` stops at the threshold, above which the code never
distinguishes it. A call of `Do` is `Begin` or `Blocked`, then attempts (`Send`, one of
the outcomes, `Retry` after a backoff or `GiveUp` when the context ends in it).
All requests carry one context, that of the marketing consumer, which `main` cancels once
at shutdown (`Cancel`; `done` stays true). From then on `client.Do` returns the context's
error before it touches the body or the remote: `NeverSent` takes the place of `Send` and
`Retry`, and an attempt that is already under way may still be answered, or be `Aborted`.
Calls may still begin, as the consumer's `select` may pick another event. `main` starts one
marketing consumer, so the program has one caller; the client is written for several, and
so is the model. `RunningSpec` is the behaviour before any shutdown, for the two runs that
refute a sentence of the docs.
`ReuseError` is what `net/http` does with a request whose body has been read: `Clone`
copies the reference to the body, and a fresh connection finds no bytes to send; on a
reused connection the transport rewinds it, and then the retry has any of the other
outcomes. The clock (`TimePasses`) and the remote (`Outage`) act at any time.
`clean`, `sentOpen` and `told` are ghosts of the properties.

**FraudRules.** One worker screens events one after the other, so `ScreenEvent` is one
step: prune and append the stamp of the masked network, compare and remember the
country, add up the scores. An event keeps the address it came from, a host in a network;
the rule sees the network only, since the gateway masked it (`Mask`). `RateIsSlidingWindow`
is therefore about networks, and `RateCountsOneAddress`, which the docs promise, is refuted. `Tick` moves the only clock the rules read. `log` keeps
every event with its flags and is the reference against which the pruned histories
are checked. The slice of stamps of a network is a set, as nothing reads its order; a stamp is
`<<time, serial>>`, the serial number keeping two of the same tick apart, so the
cardinality is the slice's length. Scores are in tenths; windows are in ticks.

**Pipeline.** Every access to shared state is a step: a channel, a repository, a counter.
`HandleIngest` is `Reject`, or `PublishRaw`/`PublishFails` and then `Accept`; `ScreenEvent`
is `Screen`, `SaveEvent`, `CountVerdict`, `PublishScreened`; `ProcessMarketingWorkflow` is
`Pick`, `CountAttempt`, `Sync`, `CountResult`, `SaveContact`; `HandleGDPRDelete` is
`BeginPurge`, the deletion of the chosen store (`MemoryDeleteEvents` and `MemoryCascade`,
between which the lock is released, or `PostgresDelete`, one transaction),
`PurgeContact`, `PurgeLog`. The variable `store` is chosen at the start, as
`main` does; with `"postgres"` every statement may fail, and its
error is logged, as in the code, except in `DeleteUserEvents`, where it becomes a 500.

**Reports.** A reader is a client of one of the two read-only APIs, one request after the
other. An export is `BeginExport`, `ExportEvents` (500 if the query fails) and
`ExportContact`, where any error of `GetCRMContact` answers "no crm contact synced", also
one of the database; `ExportComplete` therefore excepts the contact on PostgreSQL. The
memory tracker's `GetMetrics` is six atomic loads, `LoadCounter` in `LoadOrder` (the order
of the struct literal, in which Go evaluates the calls); PostgreSQL's is one SELECT. As
successes are loaded after attempts, a dashboard may show a success rate above 100 %;
in return its backlog is never invented (`BacklogIsReal`). `kept` and `purged` are ghosts: the
records stored ever since the export began, and those that purges answered before had found.

**Lifecycle.** `main` is where the main goroutine is: running, in `Shutdown` of one of the
servers, closing the database, closing the broker (the deferred call), returning, gone.
`Signal` is the receive from `stop`, `cancel()` and `WithTimeout`; `Expire` the timer of
`shutCtx`. `Drain` is a `Shutdown` that returned nil, after which no connection of that
server is left and no request begins; `GiveUp` one that returned the context's error, after
which connections on which no request had come may still bring one. `Quit` ends a worker's
loop between two events only (the `select` may also go on choosing events); in the
middle of one, `Refuse` is `PublishScreened` with the cancelled context or on the closed
broker. The steps of `Pipeline` go on until `Exit`, with what is closed taken from them: a
drained server begins nothing, a closed pool fails every statement, a closed broker
takes no event (`RefuseRaw` is the 500) and no subscriber. A statement under way when the
pool is closed is ordered before the close, which nobody can tell apart. After `Exit` every
goroutine stays where it was. The orchestrator is the case `store = "memory"`.

## 3. Runs

`expect: pass`:

| Run (cfg) | Bounds | Shows |
|---|---|---|
| `MCMemoryBroker` | 2 topics, 2 publishers with 2 calls each, 2 consumers, 2 closers, capacity 1 | `NoPanic`, `Sealed`, `LosslessUntilOverflow`, `FailedMeansUndelivered`, `ImplementsBus` |
| `MCMemoryBrokerLive` | 1 call each, 1 closer | `PublishReturns` and `WriterGetsIn` without any fairness of consumers; `Drained` for consumers that go on receiving |
| `ResilientClient` | 2 callers under one context, threshold 3 and 2 retries as in `main.go`, cooldown 2 ticks | `StateMatchesFailures`, `ShedsLoad`, `ExhaustedLeavesOpen`, `Recovers`; no deadlock |
| `MCFraudRules` | 5 events of 6 kinds, 5 ticks, limit 2 in 2 ticks, geo window 3 | `RateIsSlidingWindow`, `NoFastTravel`, `VerdictJustified` |
| `MCReports` | 2 requests of 4 kinds, at least one of `u1`, whose purge runs (`PostsBounded`), capacity 1, both stores; beside two signups of `u1` (one on PostgreSQL) also 1 reader that asks again and again (`ReadersBounded`) | the conservation laws, `RefusedLeavesNoTrace`, `ContactsHaveEvents`, `FraudNeverMarketed` (the laws that count and the stored event of a contact: memory store), `PurgeErasesRecords`, `ExportComplete`, `PurgedNotExported`, `BacklogIsReal` |
| `MCLifecycle` | 2 equal requests or 1 and a purge on the memory store, 1 of either on PostgreSQL (`Posts`), a signal at any time | `ServedUnlessLate`, `EachEventOnce`, `ShutdownEnds`, `EveryEventHandled` |
| `RedisBroker` | 1 publisher with 2 calls and 1 retry, 1 consumer, capacities 1 | `ForwardsEverything`, `EndMeansAll`, `NilMeansSent`, `ClosedIsSilent`, `NoForwarderLeak`, `Drained` |

`expect: violation` (each checks one sentence of the docs or a comment, quoted in
`PROJECT.json`):

| Run (cfg) | What the code does instead |
|---|---|
| `ResilientClientDiagram` | goes from OPEN straight to CLOSED: the half-open probe fails and the retry of the same call succeeds |
| `ResilientClientReuse` | counts retries that fail on the spent request body, so one or two failures of the remote trip a threshold of three |
| `MCFraudRulesLastEvent` | compares with the last event that passed, not with the last event |
| `MCFraudRulesRateAddress` | adds up the events of all addresses of a masked network, so a user is flagged for a neighbour's rate |
| `MCPipelinePurge` | stores queued events of a purged user after the purge answered |

### Why the bounds are enough

The broker's hazards need a reader inside the loop, a second reader, a writer that
waits and one that comes after it, a full channel and one with room; two of each and
capacity 1 give all of them, and the proofs of no panic and of sealing do not depend on
the bounds. For the breaker, two calls with three attempts each exceed the threshold
alone and together, and a cooldown of two ticks has a strict inside. For the rules, five events
exceed the limit of 2 by enough to have stamps both pruned and kept, and five ticks
hold two geo windows that overlap. In the pipeline two requests over capacity 1
overflow each queue, race with each other in both workers and with the purge. The two
users are alike, so the purge is `u1`'s, and what `u2` posts only meets it by a duplicate id;
on PostgreSQL a user's signup and click do not come together, as the marketing worker only
skips the click (both do on the memory store). Metrics are read before the purge begins,
which counts nothing.
The reader comes where two signups of `u1` are under way: requests with other data change
nothing an export or a dashboard could confuse, as both are about one user's records and
about counters; on PostgreSQL one request with all its
statements free to fail already gives every outcome of each. The shutdown needs a handler
under way at each server, an event in each worker's hands, and a full channel, which two
requests give; that its clients come in a fixed order loses nothing, as their events are
equal (no symmetry reduction, since the run checks liveness). In the
Redis broker a subscription shares nothing with another but the server's copies, so one
consumer shows what several would; two calls with a retry put a duplicate, a late and a
next event on a path whose buffers hold one each, so that every stage is seen full.

### Fairness, and why the code justifies it

* `MemoryBroker!Fairness`: a publisher inside the loop takes its next step and a lock
  holder leaves: the Go scheduler runs every goroutine that can run, and `RWMutex` does
  not starve writers. Nobody must publish, subscribe, close, cancel or receive.
* `ConsumerFairness` (the premise of both `Drained`, and of nothing else): event handlers return.
* `RedisBroker!Fairness`: the forwarder goes on, go-redis reads a connection whose
  messages fit, a `Close` that has begun ends; a `select` in which `ctx.Done` stays ready
  chooses it some time. Nothing is assumed of the server, the network or the publishers.
* `ResilientClient!Fairness`: an attempt ends by the client's timeout, a backoff by its
  timer, the clock runs. `Recovers` also assumes that calls keep coming (weak fairness
  of `Call`): the breaker has no timer of its own, and without a caller an open breaker
  stays open. It says nothing of a consumer that was told to stop (`done`).
* `LifecycleFairness`: until the signal, the workers go on; no client must post anything, no
  worker must subscribe (`EveryEventHandled` speaks of events the fraud worker's channel
  took) and nobody must stop the process. After it, only the timer and `main` itself:
  `ShutdownEnds` holds with handlers that hang, as no fairness of `Drain` is assumed.

`CHECK_DEADLOCK FALSE` where the system may really stop: all calls made and the broker
closed, all requests answered, the bounded log full.

## 4. Proofs

All are checked by tlapm; each is for every value of the constants. Every safety invariant
that a passing run checks is stated by a theorem, and so are the action properties and the
refinement of `EventBus`. The assumptions are those of the modules: `BrokerAssumption`,
`RedisAssumption`, `BreakerAssumption` and `ClientAssumption` (there is a caller, and there
are finitely many), `FraudAssumption`, `PipelineAssumption`. The sets of requests, purges
and readers need not be finite.

**`MemoryBrokerProofs`.** `NoPanic` is not inductive: a step from an arbitrary state may have
a sender on a closed broker. `BrokerInv` adds that nobody sends once `closed` is set (the
read lock excludes the writer), that a channel is shut only if `closed`, and that channels
in a subscriber list are open until then. `BrokerTyping`, `BrokerNeverPanics` and
`BrokerSealed` follow. What was delivered is in `StreamInv`: a consumer is subscribed once
(`SubscribedOnce`); an event in a stream is of a call that returned, or of the one under way,
which has served that consumer (`Attributed`); the call under way reached everybody it
served, except where a channel was full (`Reached`); and each outcome says what it should of
the streams (`OutcomeHolds`). From it follow `BrokerLossless` and `BrokerFailedUndelivered` (a call that gives up has not
served the subscriber it waits for, and by `Attributed` the event is with nobody it did not
serve), and
`BrokerImplementsBus` step by step: `Deliver` of a call's event to the next subscriber is an
append of an event the stream does not have (by `Attributed`), newer than that
publisher's others; receives, the end of a stream, subscriptions and `Close` map to their
counterparts; every other step stutters.

**`RedisBrokerProofs`.** `RedisTyping`; `RedisForwards`, by lemmas on
sequences (an event that moves from the head of a buffer to the tail of the next leaves
their concatenation alone), one for each of the four steps that move one;
`RedisEndMeansAll` by `EndInv`: a forwarder whose context lives ended only when its PubSub
was shut and nothing was left (`EndedDry`), and only Close shuts it (`ShutByClose`);
`RedisClosedIsSilent` by `ClosedInv`; `RedisNilMeansSent` by `NilInv`: a subscription that
heard a call begin stays active until it is lossy (`HeardStayActive`), and once the server
has run the command the event is in its stream (`ExecutedIsSent`), which no step takes
away (`StreamKept`).

**`ResilientClientProofs`.** `BreakerNeverHalfWay`, which is inductive with the types
(`BreakerInv`); `ClientUsesBreaker`, the step-by-step refinement of
`BreakerSpec`, and by it `ClientBreakerNeverHalfWay`; `ClientTyping`;
`ExhaustedCallTrips` by `ClientInv`, which relates a call's attempt number to the
breaker's counter (`AttemptsCounted`): with no success since the call began, every
attempt made has been counted; it covers all exits of the loop, also those on the context.
`OpenBreakerShedsLoad` by `OpenBudget`: what was sent since the
breaker opened and what the calls under way may still send (`Left`, a set of attempts) stay
together below the budget of all callers, as a send moves one attempt from the second to the
first and an open breaker admits nobody; the call that opened it has used
its first attempt, which is in neither.

**`FraudRulesProofs`.** `FraudTyping`, and `VerdictsJustified` by cases of the three scores.
`RateIsExact` by `RateInv`: a history holds only stamps of its own network's events
(`StampsOfLog`), and all that are still in the window (`RecentKept`), although it may also hold older
ones that no screening has pruned yet; hence stamps and events of a window are in
bijection when the rule counts. `FastTravelNeverPasses` by `GeoInv`, in which
`HistoryCoversLog` says that the user's history is at least as new as every event that passed.

**`PipelineProofs`.** `PipelineTyping`, and four theorems on the
invariant `FlowInv`, which follows an event through the pipeline: no channel holds it
twice, it is in one place from the screening on (`OnePlace`), it has a verdict exactly
from there on (`OnlyPublished`, `QueuedOnce`, `HaveVerdict`), and it is saved once
(`SavedOnce`). `RefusedNowhere` follows from it. `FraudStaysOut` is inductive relative to
it: `Screen` changes only a verdict that nobody has read. `ContactsStored` adds `SavedInv`
(all that is behind `SaveEvent` is stored or was erased). `PurgesErase` adds `ErasureInv`:
the records a purge found are its user's and stem from events that are stored or erased
and contacts of handled events (`GoneOwned`), so no worker can write one of them again,
each deletion of the handler removes its part (`PurgeProgress`), and a stored contact is
its user's (`ContactOwner`), so deleting by user finds it. The extra conjuncts are needed
because the property speaks of the end of a purge only, while the workers write during all
of it.

**`PipelineCounts`.** `ReceivedIsConserved`: each counter moves with the cardinality of a set
of requests, and the sets are finite because a step adds at most one (`ReceivedInv`); that a
lost event was published (not rejected) makes them disjoint. `AttemptsAreConserved`: the
bound by the legitimate events cannot be counted from the counters alone, since two workers
move them. `CRMInv` says of which events each one is the number, and
`AttemptedWereCounted` (from `FlowInv`) that an event for which an attempt was counted had
its verdict counted before.

**`ReportsProofs`.** The readers change nothing of the pipeline, so its invariants carry over.
`ExportsAreComplete` by `KeptInv`: what was stored ever since the export began is already
shown once its part has been read. `ExportsForget` by `PurgedInv`: what is in `purged` was found
by an answered purge, and by `ErasureInv` it is not stored at any later read.
`BacklogsAreReal` by `LoadedInv` (the counters loaded are a prefix of `LoadOrder`) and `AheadInv`: the
attempts loaded are at most one ahead of the results as loaded, or, where they are not
loaded yet, as they stand now; results only grow, and `CRMInv` gives it at the load of the
attempts.

**`LifecycleProofs`.** A step is one of the pipeline, a refusal (`Refuse`, `RefuseRaw`), or one
of `main`, its timer or a worker's return that the pipeline does not see. `LifecycleTyping`;
`ServedUntilDeadline` by `DrainInv`: before the deadline `main` is past a server only if it was drained,
and on a drained server nothing begins (`DrainedStaysIdle`). `EveryEventOnce` by `PlacesInv`:
the eight places are apart, where the verdict separates the three before the screening from
those behind it, and together they hold exactly what was published.
`ShutdownKeepsPromises`: `RefusedLeavesNoTrace`, `FraudNeverMarketed`, `ContactsHaveEvents` and
`PurgeErasesRecords` hold of the process as it stops, by the invariants of `PipelineProofs`, which
the refusals preserve too. No run checks these four on `Lifecycle`.

### Only model-checked

Liveness under fairness, which is outside the prover's reach: `Drained` of both brokers,
`PublishReturns`, `WriterGetsIn`, `Recovers`, `NoForwarderLeak`, `ShutdownEnds`,
`EveryEventHandled`. What the `violation` runs refute.

## 5. Not modelled

Malformed requests (they change no state), encoding, e-mail and score wording, the text
of the dashboard with its percentages, the delays of the backoff, connection pools, a
failing start (the process ends before it has any state), the standalone commands (each
has a broker and repositories of its own that nobody else uses), configuration, the mock
database driver, the traffic simulator. Each has its row in `PROJECT.json`. The shutdown is
modelled over the in-memory broker; what `Close` and an ended context do to a Redis
subscription is in `RedisBroker`.

## 6. Plan

Done: both brokers, breaker and client, rules, pipeline, reports, lifecycle; their safety
properties proved. Next, as theorems on the same invariants:

1. The counting laws while the process stops: `CRMConserved` on `LifecycleSpec` as it is,
   `ReceivedConserved` with the events of `cut` as a further place.
2. An abstract life of one event (posted, published, judged, handled, or lost on the way)
   that `Pipeline` and `Lifecycle` both implement, step by step from `FlowInv` and `PlacesInv`.
3. `RedisBroker`: how often a retried event can be in a stream, the bound its consumers
   have to live with.
