# Verification of the messaging comparison project

TLA+ models of the in-process bus and schedulers, the RabbitMQ, Kafka and
Artemis adapters, the resilience and idempotency layers, the SSE cluster and the
scenarios of this repository, checked with TLC on small instances and, for the
safety of all but the scenarios, proved with TLAPS for every instance. `PROJECT.json` lists every run, mutant,
mapped definition, finding, hazard and theorem.

`in-memory-bus.ts` has a NUL byte in line 174 (the separator in the key of a
queue), so some tools take it for a binary file; `cat -v` shows it.

## 1. Inventory

The program compares brokers behind two ports, `IMessageScheduler` and
`IMessageBus`, in TypeScript and in .NET.

| Part | State | Operations | Hard behaviour | What makes it correct |
| --- | --- | --- | --- | --- |
| One queue of the in-process bus (`in-memory-bus.ts`) | pending array, in-flight map, consumers, round-robin counter, group pins, delivery counts, retry and expiry timers | publish, subscribe, unsubscribe, ack, nack, throw, pump | settles that come late or twice, consumers that drop, timers | a message is in one place, one per consumer, order, limit, nothing left behind |
| Bus around the queues | map of queues, dedup ids, stream log | routing, dedup, replay, dispose | disposal with timers and microtasks pending | each matching queue gets one copy; replay is complete |
| In-process scheduler, TypeScript (`in-memory.ts`) | pending map, timers, handlers | schedule, cancel, list, sendNow, consume, dispose | cancel against timer and microtask, disposal | listed until fired, cancelled or disposed; at most once; not early |
| In-process scheduler, .NET (`InMemoryScheduler.cs`) | two concurrent dictionaries, `Task.Delay`, cancellation sources | the same | every step on another thread | the same |
| In-process bus, .NET (`InMemoryBus.cs`) | as TypeScript, under locks | the same | handlers on the thread pool | the same |
| SSE cluster (`sse/`) | streams, two bindings per stream, broker queues | GET /events, POST /publish, close | client gone during connect, broker failures, crashes | exactly the addressed messages; no subscription left behind |
| RabbitMQ adapter (`rabbitmq.ts`) | channels, declared topology, settled flags | both ports on a broker | publish and ack not atomic, retry queue, crashes, lost channels | nothing the queue has taken is lost, one settlement, limit |
| Kafka adapter (`kafka.ts`) | lazily made producer and admin, known topics, group members, settled flags | publish, subscribe, consume, commit, seek, dispose | cumulative commits, rebalances that take a partition from a running handler, connects that fail | no record is skipped, order per key, everything settled |
| Artemis adapter (`artemis.ts`) and Jolokia client | one connection, cached senders, receivers, settled flags | both ports, cancel and list through the management API | reconnects, replaced connections, acks lost on the way, cancel against delivery | gone only if acked, an early cancel wins, everything handled |
| Resilience decorator, fault injector | one retry-around-breaker pipeline, failures to inject | wraps each call | retry of what was done, calls racing through one breaker | a blip is absorbed; the breaker opens for transient failures only |
| Idempotent consumer and stores | key to expiry | mark, process, settle | crash between two of these, store unreachable, window passing | processed once within the window |
| Scenarios S1-S20, fault demos | counters of what arrived | tests and demos | waits and assertions against timers | each expects what the bus does, whatever the order of tasks |
| Runner, narrator, CLIs, documents | printed results | - | none of its own | - |

Interaction: the scheduler classes own a bus and forward the bus port to it;
the resilience decorator and the fault injector wrap either port; the SSE hub
uses a bus through `BusMessagePort`; the idempotent consumer wraps an
`AckHandler` of any bus.

## 2. Modules

| Module | Models | Notes |
| --- | --- | --- |
| `BusQueue` | `BusQueue` and the methods of `InMemoryBus` on one queue | the core; one action per operation |
| `MCBusQueue` | instances of it | two or three messages, two handlers, two groups |
| `BusQueueProofs`, `SchedulerProofs`, `SseClusterProofs`, `RabbitBusProofs`, `KafkaGroupProofs`, `ArtemisProofs`, `DeliveryProofs` | proofs | each extends the module it is about; `SchedulerProofs` both schedulers; section 5 |
| `ArrayLemmas` | what `splice`, `push`, `unshift` and `shift` do to an array | extended by the proofs about queues and logs |
| `SchedulerPort` | what the scheduler port promises | abstract specification |
| `SchedulerState` | the fields both in-process schedulers have | extended by the next two |
| `MemScheduler`, `MCMemScheduler` | `in-memory.ts` | implements `SchedulerPort` |
| `NetScheduler` | `InMemoryScheduler.cs` | one dictionary operation per step |
| `SseCluster`, `MCSseCluster` | `sse/` | several instances on one broker |
| `RabbitBus`, `MCRabbitBus` | the bus port of `rabbitmq.ts` on one queue | the broker is external |
| `KafkaGroup`, `MCKafkaGroup` | `kafka.ts` | partitions, groups and rebalances are external |
| `Artemis`, `MCArtemis` | `artemis.ts`, `artemis-jolokia.ts` | the broker and the client library are external |
| `Resilience` | `resilient-scheduler.ts` over `fault-injecting-bus.ts` | the policy library is external |
| `Idempotent` | `idempotency/` | competing consumers of one queue |
| `Delivery` | both together | composes `Resilience` and `Idempotent` over one queue |
| `TopicMatch` | `topicMatch`, the Artemis selector | operators, with a reference definition |
| `MemoryBus` | `InMemoryBus` as a whole | operators on a bus record; extends `TopicMatch` |
| `Scenarios`, `MCScenarios` | `scenarios/`, `fault.ts`, against `MemoryBus` | a driver that runs scripts of calls |

### BusQueue

The variables are the fields of `BusQueue` (`pending`, `inflight`, `consumers`,
`rr`, `affinity` for `groupAffinity`), the count in each `BusMessage`, the armed
timers (`parked`, `ttlArmed`), the `IncomingMessage` objects a handler can still
reach (`incoming`) and `pumping`, which says that the call stack is inside
`pump()`. Four history variables record what was published, how a message left,
how often a dropped consumer gave it back and how often each handler subscribed.
`setup` never changes: it holds the options of the `subscribe()` that created the
queue and says which messages its users publish, which carry a time-to-live and
which are settled a second time. `Init` takes any member of the constant
`Setups`, so one run covers several kinds of queue and the proofs cover all.

JavaScript runs a call to completion, so each operation is one action. `pump()`
is a loop with an early exit; it is unrolled into iterations (`PumpActive`,
`PumpShared`, `PumpPinned`, `PumpPin`) and its end (`PumpStop`), and while
`pumping` holds nothing else can step. A scan that finds no free consumer moves
`rr` and erases void pins, as in the code. Microtasks run before any timer
(`MicrotasksDone`). Publishing to a dead-letter or expiry address is the message
leaving this queue. A body, id or header is not modelled: a message is a value.
`rr` grows without limit in the code and is kept modulo `RRPeriod`, a common
multiple of the possible consumer counts, which changes no `rr % length`.

### Schedulers

`MemScheduler` has a clock, the pending map, one timer per message and the queue
of dispatch microtasks. `setTimeout` is external: at least 1, and 1 when the
delay is too long. `schedule()` unrefs its timer, so a pending message does not
keep the process running: `Exit` ends it whenever no microtask is queued, and
what was pending is lost (`EventuallyFires` says so). `consumed` remembers which
handler was ever registered for which destination. `NetScheduler` splits each
method at its dictionary operations, at `Cts.Cancel` and, in `ConsumeAsync`,
between `GetOrAdd` and the locked `Add`, where `_handlers.Clear()` may come
between and leave the handler in a set nobody reads; a delay is `waiting`, `ran` or `canceled`, and a
continuation runs later on another thread. Both extend `SchedulerState`, which
declares the clock, the pending list, the handlers and what they received; the
operators of `NetScheduler` have names of their own (`NetInit`, `NetNext`,
`SendNowAsync`, ...) so that one module can reason about both.

### SseCluster

`stage` is how far `handleEvents` and `hub.connect` have come, `closed` the flag
of `openSseSink`, `subs` and `queue` what the broker holds (external),
`unbinding` the unsubscribe calls under way. An id is the sequence of its
dot-delimited words, and `routingKeyFor` puts the scope in front. Nothing checks
or escapes the ids of a request, so the key a stream is bound with is a topic
pattern, in which a `*` or `#` of the id is a wildcard; `Matches` reads it as
RabbitMQ does or as the selector of the Artemis adapter does (`Broker`), with the
operators of `TopicMatch`. `OnlyMine` therefore speaks of the ids without a
wildcard: each gets only messages with exactly its own routing key. What an id
with a wildcard gets is what its pattern matches, which `ExactlyTheAudience`
covers: the organisation `#` stands for all of them. A client may go at any moment,
except that one in `Patient` waits for its bindings; the subscribe and
unsubscribe calls of a connection in `Flaky` may be rejected.

### RabbitBus

`pc` is the await each `publish()` or `subscribe()` call has come to, `half` the
calls between the two `assertExchange` of `ensureBusExchanges`, `cached` its
cache `busTopology`, `incoming` the `IncomingMessage` objects with their
`settled` flag. What a channel was given to write waits in `pubWire` and `wire`
until the broker reads it, and is gone if the process crashes first. The broker
is external: exchanges, the main queue, the retry queue, one unsettled message
per channel (prefetch 1) and the counts it puts into x-death and
x-delivery-count. A crashed process starts again with empty caches; the broker
takes back each channel's message on its own. `mode` holds the options of the
`subscribe()` calls. A settlement frame names the message, not the
delivery tag: with a prefetch of one a channel has a single open delivery, and
`SettledOnce` says that no frame is for another one. In a quorum queue the
limit is the broker's, so `AttemptsBounded` is stated for the retry queue, where
the adapter counts.

### KafkaGroup

`pc` is where each call that needs the client stands. `ensureClient` and the
admin client assign their field before they await `connect()`, so a call that
comes meanwhile, or after a failed connect, takes the field as it is. Calls then
pass `ensureTopic` (`topics` is the cache) and append to a partition of the log;
a keyed message always goes to the same one. A send may fail, and one whose
answer is lost is repeated by the client library, which appends the record once
more; `sent` is the order in which messages were first appended.
`startConsumer` awaits `connect()`, then `subscribe()` and `run()`, and may fail at
each (`StartConsumer`, `RunConsumer`). A member then joins its group and polls
record by record; the handler gets an `IncomingMessage` with a `settled` flag,
`ack` commits the next offset, `nack` and a throw seek back. Rebalances, fenced
members (whose commits the coordinator refuses), committed offsets and
auto-created topics of one partition are external. A seek is remembered until
the next poll of that partition, as in the client library. `faults` counts
failed connects, failed and repeated sends, kicks, crashes, nacks, leaves and the
disposal together, up to the `limit` of the setup.

### Artemis

`connection` is the one connection of the adapter; the client library reconnects
old ones on its own, also those the adapter has replaced, so receivers hang on
the connection they were opened with. A call may be rejected while its
connection goes on trying. `GetSender` caches a sender per address. What is
written to a connection waits in a wire until the broker reads it, and is lost
with the connection; the broker then takes back what it had handed to the
receivers of that connection, each counting as an attempt. The queue of a
transient subscription is auto-delete: it goes with its only receiver, on
`unsubscribe()` and with a lost connection alike, and with what it held, and
comes back empty when the client library restores the receiver. The adapter grants no
credit itself, so a receiver may hold several messages. A queue's receiver
accepts as the handler is called; a topic's has a `settled` flag. `Cancel` is two
requests to the management API, one that finds the queue's bean and one that
removes the message, with anything in between. Dead letters and expired messages
travel to their addresses, which may have receivers of their own.

### Resilience, Idempotent, Delivery

A call of the decorator runs through one pipeline shared by all calls: retries
with backoff outside, the circuit breaker inside (half-open lets one call
through). Which calls are of an unsupported operation is chosen in `Init`; the
broker below accepts the message, fails, or accepts it and then fails, and the
fault injector fails the next few calls. A success puts a copy in the queue. A consumer takes one, marks the key, runs the handler and settles;
it can crash or its handler throw between any two of these, the store can be
unreachable (then everything counts as new) and a window can pass. `Delivery`
joins the two on `queue`, with `Bodies <- Calls`: the payload's key is the call
that published it.

### TopicMatch, MemoryBus, Scenarios

Patterns and keys are sequences of words. `TopicMatch` holds the code's matcher,
the selector and a definition that cuts the key into pieces.

`BusQueue` studies one queue in small steps; `MemoryBus` has all of them, with
the maps, the dedup set, the stream log and the timers in one record, and each
call, with the pump it ends in, is a function from record to record, as it is
between two turns of the event loop. Messages travel from queue to queue through
dead-letter and expiry addresses, `dispose()` forgets the queues but not the
timers and subscriptions that still refer to them.

`Scenarios` runs a script against it: a sequence of stages, each a set of steps
(subscribe, publish, stop, dispose, wait, assertion) that are made in any order
(`Promise.all`). Handlers run as microtasks; timers fire in any order, when no
microtask is left and the script waits. Each script is one scenario's sequence
of calls and expectations, its batches cut down to `Count`, and `verdict` is the
status it returns. A wait gives up only when nothing more can happen, because
every time limit of the scripts exceeds the timers in play. Two scripts
are not from the repository's tests: `free` calls in any order, `route`
subscribes with each pattern and publishes with each key.

## 3. Runs

Passing:

| Run | Shows | Instance |
| --- | --- | --- |
| `Queue` | a message is in one place, prefetch of one, single active consumer, group affinity, order of first deliveries, delivery limit, no idle consumer beside work, expiry and finality | five setups: competing consumers with a priority message, two groups, single active consumer, time-to-live, delayed retry; 2 or 3 messages, 2 handlers, limit 2; in the last three setups one message is settled again by somebody who kept it |
| `QueueLive` | every published message leaves the queue | delayed retry, 2 messages, 2 handlers |
| `Scheduler` | `MemScheduler` implements `SchedulerPort`; at most once; only handlers of the message's destination are called; nothing is forgotten while the process runs | 2 scheduled, 1 immediate, 2 destinations, times now, later and as late as the timer can wait |
| `NetScheduler` | once and on time; an early cancel wins; nothing is forgotten | 2 messages, 2 handlers, times now, later and too far |
| `Sse` | exact delivery; an id without wildcards gets only its own; no leak for a client that waits for its bindings | 2 instances, one patient stream and one that is neither patient nor free of broker failures and asks for the organisation `#`; 3 messages, to a user, to her organisation and to an id of two words |
| `Rabbit` | what the queue has taken is not lost, is settled once, has one ending unless a channel was lost, keeps within the retry budget; no frame for an exchange that does not exist | five modes (no dead-lettering, retry queue, quorum queue, expiry, expiry with retry), 2 messages, 2 subscriptions, 1 crash, limit 2; at most `MaxDelivered` deliveries of one message, which is as many as the retry budget, the crash and two closed channels allow |
| `Kafka` | a commit never skips a record; order of a key within a group; a group that keeps running settles everything | three setups: two members in one group with crashes, kicks, nacks, leaves and failing or repeated sends (3 disturbances), the same with handlers that settle after they returned (1), and `subscribe` beside `consume` in groups of their own with connects and sends that fail, nacks and a disposal (2); 2 messages or 1, 2 partitions |
| `Artemis` | a message is gone as consumed only if a handler acked it; a message is in one place; an early cancel wins; what waits where somebody listens is handled | three setups: the scheduler queue with cancel and dispose, a topic with a reader of its dead letters, a transient topic with time-to-live and a reader of the expired, the last two with a connection that may be replaced; 1 or 2 messages, 1 or 2 lost connections, 2 attempts |
| `Delivery` | a blip is absorbed; the breaker opens for cause; processed once; what was published is processed | 2 calls, 2 consumers, 2 retries, breaker after 3 failures, 2 injected failures, 1 error of the broker, 1 mishap on the consumers' side |
| `Scenarios` | every scenario ends with its assertions holding; each queue has its own copy of what it should get; the selector loses nothing | S5-S20 (S7 and S10 in their parts), two fault demos, the free client, every pattern and key of up to 3 words over 2 words |

Two handlers and three messages are enough for every race the code can have on
one queue: a message held by one consumer, one waiting for it, and one that may
go to the other. A limit of two has a first, a last and one attempt too many.
`HandlerSymmetry` is used in `Queue` only, which checks no liveness; handlers are
interchangeable there, and so are messages and subscriptions in `Rabbit`
(`Symmetry`), which checks invariants only. Two Kafka members and partitions
give a partition that changes hands while the other stays; two connections of
Artemis give one that is current and one that was replaced; with two injected failures
and one of the broker the breaker can open during one call or between two, and
can also stay closed. `CHECK_DEADLOCK FALSE` is set because each system may come to rest: all
messages published and settled, all streams closed, the script at its end.

Violations, each of a sentence in the repository (quoted in `PROJECT.json`):

- `TtlFreesSlot`: an expiry that frees a consumer's slot does not pump.
- `SseLeak`: a client that leaves during connect leaks its subscriptions.

The passing runs state exactly what is left: stranding is excluded as long as
nothing has expired, time-to-live is final without a retry delay, leaks are
excluded for clients that wait for their bindings and whose calls the broker
answers, the port is implemented for times the timer can wait for (`Times` of
`Scheduler` stay within `TimerMax`), and Kafka's properties speak of what has
reached the log.

The models also show what no run asserts, because the properties are stated
around it:

- a consumer that drops with a message in flight gives it an attempt beyond
  `maxDeliveries` (`AttemptsBounded` counts these);
- a message that is parked for retry when its expiry timer fires outlives its
  time-to-live (`in-memory-bus.ts:242`);
- a second settle of an old `IncomingMessage` of the in-process bus settles the
  next attempt if the same consumer holds the message again
  (`in-memory-bus.ts:362`); the RabbitMQ adapter has a flag per delivery;
- a delay that `setTimeout` cannot hold is served after 1 ms;
- a pending schedule does not keep the process alive (`in-memory.ts:98`), so a
  program with nothing else to do ends without delivering it;
- a .NET `ScheduleAsync` that fails on an overlong delay leaves its entry listed
  (`ScheduleThrows`);
- a .NET continuation that has begun ignores what `TryRemove` says, so a cancel
  at or after the due time still delivers (`EarlyCancelWins` is about the rest);
- a RabbitMQ `publish()` is over before the broker has the message, so a crash
  may lose it (`NothingLost` speaks of messages the queue has taken);
- with a time-to-live, RabbitMQ's expiry wiring replaces the dead-letter wiring,
  so a refused message lands at the expiry address (`rabbitmq.ts:444`);
- the Artemis selector turns `*` and `#` both into `%`, which also matches more
  words, or fewer (`artemis.ts:399`); it loses nothing that a pattern without
  `#` selects, and that is what `SelectorLosesNothing` says;
- a rejected second subscribe of `hub.connect` throws away the handle of the
  first, whose subscription stays as long as the instance (`hub.ts:67`);
- a Kafka `connect()` after one that failed resolves without connecting, because
  the field is already set (`kafka.ts:113`), so a retry by the resilience
  decorator hides the failure;
- a Kafka `consume()` does not create its topic, so the broker makes it with one
  partition, and a send that the client library repeats is delivered twice
  (`GroupOrder` is about first deliveries);
- an Artemis connection that a second call opened meanwhile, or that a rejected
  call left behind, is never closed by `asyncDispose`;
- the key is marked before the handler runs: a handler cut short in between
  makes the redelivery a duplicate, and the message is acked unprocessed
  (`broken` in `EventuallyProcessed`);
- an unreachable store lets everything through: the error that the comment at
  `idempotency-store.ts:47` promises is commented out, and S10(c) expects the
  open door;
- an unsupported operation is reported as a broken circuit while the breaker is
  open, and `fault-injecting-bus.ts:85` forwards a publish without its options.

## 4. Fairness

- `BusQueue`: `pump()` runs to its end (weak). Microtasks, handlers and retry
  timers are strongly fair: other calls pump in between and disable them for a
  moment, and the event loop serves its tasks in order. That a handler settles
  what it got is an assumption on the application, stated in the property.
- Schedulers: time passes, due timers and queued tasks run, as long as the
  process is there. Nothing obliges it to stay: `Exit` of `MemScheduler` may come
  at any time between microtasks, because unref'd timers do not hold it back. In
  .NET pool threads are background threads and `Task.Delay` holds nothing back
  either; `NetScheduler` has no exit and its liveness is about a process that
  goes on.
- `RabbitBus`, `SseCluster`: none, only invariants are checked.
- `KafkaGroup`: the coordinator completes the rebalances it owes, fetch loops
  poll, a consumer that starts gets an answer to each of its calls, handlers ack
  and return. Members that crash or are kicked owe nothing.
- `Artemis`: connections that try come up, the broker reads and delivers, and
  handlers settle.
- `Delivery`: timers run out, the adapter answers, the queue delivers, a
  consumer that is not cut short goes on.
- `Scenarios`: the event loop goes on (weak fairness of the next-state relation).

## 5. Proofs

Each theorem holds for every value of the constants that satisfies the module's
named assumptions; what the runs check on one instance is thereby shown for any
number of messages, handlers, members, streams, crashes and attempts. The
assumptions give the constants their types, and beyond that say:

- messages, calls, subscriptions and the value for "nobody" are different things
  (`HandlersAssumption`, `SchedulerAssumption`, `RabbitAssumption`,
  `KafkaAssumption`, `ArtemisAssumption`, `ResilienceAssumption`);
- in Artemis, finitely many messages are sent, only the scheduler port sends
  messages for later and only subscriptions of the bus port are transient
  (`ArtemisAssumption`): `publish` of `artemis.ts` takes no delivery time, and
  `consume` never asks for a transient queue;
- only a RabbitMQ queue that is declared for expiry gets messages with a
  time-to-live (`RabbitAssumption`), which is how the repository uses them (S16);
- a topic has at least one partition, and a breaker needs at least one failure
  to open (`KafkaAssumption`, `ResilienceAssumption`).

Every invariant below was checked with TLC before it was proved. The pattern is
the same throughout: an inductive invariant holds initially, each step keeps it
(a lemma per action or kind of action), and it implies the property.

**One queue** (`BusQueueProofs`). `setup` is fixed by `Init` (`SetupKept`).

- `CoreSafety`, with `Typing` and `PrefetchSafety`: `TypeOK`, `ExactlyOnePlace`
  and `PrefetchOne`. Their conjunction `Core` is inductive. None of the three is
  alone: that `settle()` does not put a message into a second place needs that
  an in-flight message is nowhere else, and that `unsubscribe()` returns at most
  one message needs the prefetch of one. `SettleCore`, `DeliverCore` and
  `TakeBack` hold the argument for settling, delivering and returning. The
  other theorems are relative to `Core`.
- `AttemptSafety`: `AttemptsBounded`, through `Ledger`: a message that waits
  still has an attempt, so delivering it cannot exceed the limit.
- `GroupSafety` and `ActiveSafety`: group affinity and single active consumer.
- `OrderSafety`: `FirstDeliveryInOrder`, through `InLine`: a message that was
  never handed out is queued or expired, and those in the queue are in publish
  order, because whatever is put back came from a consumer. `NotOvertaking` says
  that both scans take the first of the messages that are alike.
- `StrandedSafety`: `NothingStranded`. `IdleSteps` lists the steps that end
  outside `pump()`; `CanDeliverKept` says that the pins the last scan erases
  were void.
- `ExpirySafety`: `TtlFinal`, through `Timely`: without a retry delay nothing is
  parked, so the timer finds its message wherever it is.
- `Finality`: the action property `GoneForGood`.

**Schedulers** (`SchedulerProofs`). The TypeScript one: `Typing`, `OnceSafety`
(`AtMostOnce`, through `Life`: a listed message was not dispatched, a message
waits in one microtask and no handler has seen it before that runs; and
`Registered`: the handlers of a destination, and whoever was called with a
message, were registered for it) and
`Refinement`: `MemScheduler` implements `SchedulerPort`, initial states and every
step, with `OnTime` (no timer is armed for less than the wait). The refinement
assumes `DelaysFit`, that `setTimeout` can wait for every time asked for; without
it the code serves the message after 1 ms and the port's promise fails. The .NET
one (`NetSpec`): `NetOnceSafety` (`OnceAndOnTime`, through `NetTiming` and
`NetCalls`: what is on its way to the handlers is due, and a handler still to be
called was not called) and `NetCancelSafety` (`EarlyCancelWins`, because a
message that is `NetStopped` stays stopped).

**SSE cluster** (`SseClusterProofs`). `PrivacySafety` (`OnlyMine`, through
`Addressed`: what waits for a subscription whose key has no wildcard has that
key; `PlainMatches` shows that both brokers then match by equality, whatever
patterns others are bound with), `TeardownSafety`
(`NoLeak`, through `TornDown`) and `AudienceSafety` (`ExactlyTheAudience`,
through `Known`: only accepted messages have an audience, and subscriptions go
only after the client). `ExactlyTheAudience` is stated index by index, for the
frames sent and the queue together.

**RabbitMQ** (`RabbitBusProofs`).

- `TopologySafety`: `PublishesToDeclared`, through `ExchangesKnown` and
  `QueuesKnown`: what the cache says, and what a call has passed, the broker
  has. A call between the two declarations has declared one, so it must not set
  the cache.
- `SettlementSafety`: `SettledOnce`, through `Channels` and `Handed`: a channel
  has written nothing for an open message and one settlement for a settled one.
- `DeliverySafety`: `NothingLost`, through `Placed` and `Kept`: a message is
  published once and in one place, and the ack of a dead-lettered original comes
  after its copy on the same channel.
- `EndingSafety`: `OneEnding`, through `Counted`: a message that has not ended
  has no copy a lost channel does not account for.
- `AttemptSafety`: `AttemptsBounded`, through `Budget`: every delivery but the
  last ended in the retry queue or with its channel, and only a message that is
  not spent is rejected.

**Kafka** (`KafkaGroupProofs`). `CommitSafety`: `NothingSkipped`, through
`Given` (the group was given everything below what it committed, and below every
position, pending seek and record in hand) and `Finished` (the same for what is
settled, if handlers settle before they return: a member has then at most one
record in hand, and only that one may lie between its position and what is
settled). A seek alone or a position alone is not enough, because a pending seek
outlives a rebalance. `OrderSafety`: `GroupOrder`, through `Ordered`: keyed
messages are in the log of one partition, and the first copies of them in the
order they were first sent (`First`: some copy of one comes before every copy of
the other), and a group has been given that log from the front without a gap
(`Given`). A repeated send appends a copy, which changes no order of first
copies (`FirstAppend`).

**Artemis** (`ArtemisProofs`).

- `PlaceSafety`: `OnePlace`, a message is in at most one place. It is the
  conjunction of `OneFrame` (one frame carries it), `Stages` (not sent, on the
  wire, scheduled, out, and never two of these) and `Apart` (one queue once, or
  one receiver). `Apart` alone is not inductive: that a frame the broker reads
  does not add a second copy needs `Stages`, and that it is not read again needs
  `OneFrame`. What a step does to the queues is summed up in `Moves` (nothing
  appears but what the step names, and everything stays apart), with one lemma
  per operation of the broker: routing, handing out, settling, expiry, removal,
  a lost connection and a removed queue. `Flow` says the same of the stages.
- `AckSafety`: `ConsumedOnlyIfAcked`, through `Accepts`: an accept is written
  only for a message the handler has acked (or, on a queue, was called with),
  so it does not matter which of them are lost or read late.
- `CancelSafety`: `EarlyCancelWins`, through `SameQueue` (once the scheduler
  port has sent anything, the queue that the management search names exists and
  is the one the links mean) and `CancelInTime` (a message whose cancel found it
  scheduled is still scheduled, or its time has come, or it is nowhere). The
  last case rests on `OnePlace`: the copy that is removed is the only one.

**Resilience and idempotency** (`DeliveryProofs`). `BreakerSafety`
(`OpensForCause`, through `CountedForCause`: the counter is not ahead of the
failures in a row), `RetrySafety` (`BlipAbsorbed`, through `Calm`: every retry
answers to a fault) and `OnceSafety` (`EffectivelyOnce`, through `PaidFor`: each
time a body was processed, or is about to be by a consumer that has marked it,
is paid for by its key in the store or by a window that passed). `Typing` gives
the types these rest on.

`ArrayLemmas` has the facts about sequences: what an operation leaves of the
elements, of their being distinct and of their order.

Only model-checked:

- all liveness: `EveryMessageLeaves`, `EventuallyFires`, `EventuallyDispatched`,
  `EventuallySettled`, `EventuallyHandled`,
  `EventuallyProcessed`, `EveryScenarioPasses`. Fairness and ENABLED are out of
  the prover's reach.
- `EachHasItsOwn` and `SelectorLosesNothing` of the scenarios: the matcher and
  the pump of the whole bus are recursive, and what a recursive definition
  computes needs induction over data.

## 6. Plan

Done: the core queue, the whole in-process bus under the scenarios, both
schedulers, one RabbitMQ queue, Kafka, Artemis, resilience and idempotency with
their composition, the SSE cluster; the safety properties of all of these but
the scenarios are theorems. Next, in this order:

1. `NetBus`: `InMemoryBus.cs` with its locks and thread-pool handlers.
2. `RabbitBus`: stream replay, partition-by-group and transient queues, the
   scheduler port, connecting twice at once, and the .NET adapter; progress of
   poison messages.

## 7. Not modelled

- The .NET adapters and decorators: ports of the TypeScript ones to other client
  libraries and to the thread pool; the .NET bus beyond its matcher.
- Of the RabbitMQ adapter: stream replay, partition-by-group and transient
  queues, the scheduler port.
- S1-S4, which are straight lines of scheduler calls whose every interleaving
  `MemScheduler` covers, and the .NET scenarios, which repeat the scripts.
- Static page, health check, CORS, heartbeat frames, message bodies and headers,
  command lines, the runner, the narrator, the document generator and the
  deployment files have no protocol of their own.
- Broker features an adapter only passes on (priority, groups and duplicate
  detection of Artemis, partition balance of Kafka).
