# A TLA+ specification of golangMQ

golangMQ is a message broker (`broker/`, `protocol/`) with a load generator
(`internal/bench/`) beside it. These modules model both: TLC checks them on small
instances, and TLAPS proves every invariant that TLC checks, for all instances.

## The system and its parts

| part | source | module | status |
|---|---|---|---|
| queue, dispatcher, consumer's books | `broker/queue.go`, `consumer.go` | `Queue`, abstractly `Delivery` | modelled |
| broker core: declare, bind, publish, ack | `broker/broker.go`, `exchange.go` | `Routing`, `Queue` | modelled |
| channel handlers | `broker/channel.go` | `Routing`, `Queue` | modelled |
| connection, handshake, channels, write pump | `broker/connection.go` | `Connection` | modelled |
| server | `broker/server.go` | `Connection`, `Collector` | modelled |
| wire format | `protocol/` | `Connection` | error returns of the readers only |
| Prometheus metrics | `broker/metrics.go` | `Collector` | the collector, and the counters of connections and consumers |
| benchmark engine, workers, counters, CSV | `internal/bench/engine.go`, `worker.go`, `metrics.go`, `csv.go` | `Bench` | all but latencies and formatting |
| benchmark plan and configuration | `internal/bench/topology.go`, `config.go`, `cmd/benchmark/main.go` | `Topology` | flags that shape the plan, `Validate`, `Build` |
| `cmd/broker`, `exampleClients/`, `tests/` | | | not modelled: wiring, demos, fixtures |

Each client connection has a goroutine that reads and handles one request at a time
and a `writePump` goroutine that owns the socket. Each queue has a `dispatchLoop`
goroutine that hands messages to consumers by writing, through the consumer's
connection, while not holding the queue's lock. Queues are shared by all connections;
their state is protected by `q.mu`, a consumer's books by `c.mu`. There is no
persistence. The SDK that clients and the load generator use is another repository.

## Modules

**`Queue`** is one queue at the grain of its locks. `messages`, `consumers`, `nextTag`
are the fields of `Queue`; `inflight`, `inflightTags`, `pendingMessages` those of
`Consumer`. `dpc`, `dcons`, `dmsg` say where `dispatchLoop` is: `full` is the stretch
between `selectConsumer` returning nil and `cond.Wait` releasing `q.mu`, `writing` the
call of `WriteEnvelope` without the lock. `session` and `handler` are the connection
goroutine; a handler that locks twice (ack, nack) is two steps. `arrivals` and
`settled` are history variables. Tags are counted modulo `TagMod`, 2^16 in the code.

What is merged, and why this loses nothing:
- `selectConsumer` locks one consumer after the other; a consumer it has passed can
  only gain a slot meanwhile, and the nacks that free one are the case `full` keeps.
- `Signal` after `q.mu` is released is part of the step that released it; the code's
  later signal can only wake the dispatcher more often. The nack without requeue, which
  signals without ever holding `q.mu`, is a step of its own (`NackSignal`).
- `DeliverOk` is the successful write and the return of `WriteEnvelope`: once a request
  is in the pump's hands `send` returns what the pump says.

Each session has one consumer on the queue. Metrics are left out here, see `Collector`.

**`Delivery`** is what a queue promises: every message has one owner (nobody yet, the
broker, one consumer, settled), a consumer owns at most `Prefetch`, and ownership moves
by `Accept`, `Give`, `Return`, `Leave`, `Settle`. **`QueueRefinement`** maps `Queue` to it
by `Owner(m)`; `ImplementsDelivery` is the refinement.

**`Connection`** is one connection from accept to teardown: the handshake and serve
loop of the reader (`rpc`), `writePump` (`pump`, `preq`), the channel `writeCh`, the
callers of `send` (`call`), and the dispatchers that write to the connection.
`channels` gives each open channel id its consumers, `registered` is what the queues
know; `ChannelOpen` replaces the channel of an id that is open, as the code does, and
`ChannelClose` and `cleanup` unregister one consumer after the other. Frames are
abstracted to what the handler does with them.

**`Collector`** is the server: several connections that come and go, the dispatchers of
the queues, and scrapes of `/metrics`. `owner` says which goroutine holds each mutex
that is held while another is taken; `th` is where each goroutine is. Critical sections
that nest nothing are one step. Messages are only counted (`depth`, `inflight`), because
what matters here is what a scrape adds up and who waits for whom. `scrape` is what a
scrape has read so far, with the labels it has emitted; that `Gather` refuses duplicate
labels and `promhttp` then answers with an error is modelled from how the libraries are
configured. `nacks` counts the nacks that happen while a scrape holds the queue's lock.

**`Routing`** has several exchanges, queues and sessions. A publish is the lookup of the
exchange, the snapshot of the bound queues and one enqueue per queue; declarations,
binds and other publishes interleave. Queues are as abstract as `Delivery`, because
`Queue` has the races inside one. An ack or nack takes any consumer of the channel that
holds the tag, as the code does; tags are drawn per queue.

**`Bench`** is one run of the load generator, from its first connect: the setup calls,
each of which may fail, then `engine` is the phase of `Run`, `pub` and `con` the program
counters of the workers, `tot`, `win`, `all` the counters, `rows` what the CSV rows add
up to, `held` and `clients` what `Run` has open. The phase boundary is atomic
with the records because both take `phaseMu`. The broker is a set of messages that may
be delivered, at least once. The connections may be lost, the caller may cancel, the
CSV may fail to be written at any time.

**`Topology`** reads a command line flag by flag (`SetInt`, `SetDistribution`), with the
cursor that ties `-distribution` to the axis before it, and then evaluates `Build`, a
pure function, in one step. It also starts from every configuration of a bounded set.

The theorems are in modules of their own: **`QueueGuarantees`** (what a queue keeps whatever
breaks) and **`QueueExactness`** (what it keeps while connections hold, and the refinement),
**`ConnectionProofs`**, **`CollectorProofs`**, **`CollectorBacklog`** (the sums of a scrape),
**`RoutingProofs`**, **`BenchProofs`** and **`TopologyProofs`**. `MCQueue`, `MCRouting`, `MCBench`
and `MCTopology` hold the sets and symmetries of the TLC instances. Operators whose
comment says *Faulty* or *Mutant* are plausible wrong versions of the definition below
them; they are not part of any specification and are used to see that each property
can fail.

## What the runs check

| run | result | states | what it shows |
|---|---|---|---|
| `QueueSafety` | holds | 256,000 | no loss unless a wrapped tag clashes, prefetch, consistent books, first dispatch in arrival order; one connection may break |
| `QueueExact` | holds | 495,000 | while connections hold: one copy of each message, exact inflight, `Queue` implements `Delivery` |
| `QueueDrain` | holds | 2,900 | every enqueued message is settled, with acks and a consumer that stays |
| `QueueRedelivery` | violated | | a broken connection's message is requeued twice |
| `QueueLostWakeup` | violated | | a nack's wakeup is lost |
| `ConnectionSafety` | holds | 125,000 | requests answered exactly once, handshake first, complete teardown but for the consumers of replaced channels; `send` returns unless stranded |
| `ConnectionTeardown` | violated | | the reader is stranded in `send` and the teardown never happens |
| `RoutingSafety` | holds | 2,000,000 | complete fan-out; every message of a queue in one place |
| `CollectorSafety` | holds | 142,000 | no circular wait among the five kinds of mutex, a scrape's numbers add up, gauges agree with counters, every scrape ends |
| `ScrapeLabels` | violated | | consumers with equal tags make the whole scrape fail |
| `BenchRun` | holds | 1,072,000 | exact accounting across the phase boundary, windows add up, quiet after drain, sound summaries, nothing left open by a failed setup, `Run` returns |
| `TopologyPlan` | holds | 166,000 | flags bind as their order says, sound placement and loads, exact carving, no feasible plan rejected, ignored caps ignored |

### What the violated ones say of the code

1. *Duplicate requeue* (`queue.go:123-133` against `53-73`). The dispatcher is writing
   to a consumer whose connection breaks; the cleanup requeues the pending message, then
   the failed write requeues it again. `tests/disconnect_test.go:117-118` expects exactly
   the unacked bodies. A consequence, also visible in the model, is that a consumer given
   both copies books one tag and two slots, and one slot is never released.
2. *Lost wakeup* (`channel.go:118-151` against `queue.go:95-97`). The nack takes its slot
   back under `c.mu` and signals without `q.mu`, both before `cond.Wait`.
   An ack cannot do this, since `Broker.Ack` holds `q.mu`.
3. *Stranded send* (`connection.go:68-97`). `writePump` exits on the first write error
   with requests still in `writeCh`; their callers wait on `req.err` for ever. If the
   caller is the reader, nothing of the connection is cleaned up.
4. *Equal labels* (`metrics.go:155` with `consumer.go:26`). Default tags are made from the
   channel id and a count, so they repeat from one connection to the next; two such
   consumers on one queue give one scrape two metrics of the same name and labels, and
   every scrape fails until one of them leaves. `FEATURE_METRICS_REPORT.md:56` says that
   `GET /metrics` returns the exposition format, and the deployment's health check is that
   request (`OBSERVABILITY_STATUS.md:58`).

### What else the models show

Read off the models; no run here states them as properties.

- `HandleNack` raises the dead-letter counter before it publishes and ignores the error of
  `Broker.Publish` (`channel.go:140-146`): a message whose dead-letter exchange does not exist
  is gone, although `metrics.go:46` describes the counter as "DLX republish executed".
- `drops` is stored before the consumers are stopped (`engine.go:398-404`). After a drain that
  timed out, deliveries recorded later are counted as consumed and as dropped, against
  `BENCHMARK_HARNESS_BULLETPROOF_TESTING_PLAN.md:60` ("`published - consumed_unique`").
  `SuccessAccounted` shows that the loss is never underreported and that a drained run is exact.
- A `channel.open` for an open id leaves the old channel's consumers registered for ever
  (`connection.go:249`): `RegisteredIsOwned` has to except them, also after the teardown.
- A dispatcher stranded in `send` no longer serves any consumer of its queue.
- `ConsumersUnregistered` is incremented with `Connection.mu` held during a teardown
  (`queue.go:71` under `connection.go:100`); this is harmless, as `NoCircularWait` shows.

### Bounds

Two consumers and three messages let a message be requeued by one session while another
takes it and a third waits behind; two tags make every third publish wrap (`QueueSafety`);
a prefetch of one makes the dispatcher wait. `QueueExact` has a prefetch of two and four
tags, so that tags do not clash and a consumer can hold two deliveries. `Connection` needs
a write channel that can be full with three senders, hence capacity two, and eight frames:
four for the handshake and four requests, enough to open a channel, consume, open it again
and close it; two channel ids and two consumers per queue let one channel's consumers leave
while another's stay. `Routing` has one exchange, two queues, two keys,
one publish and one dead letter, enough for two sessions to bind, publish and settle
against each other, and for a message that dies on one queue and arrives on another.
`Collector` has two connections, one queue and one scrape: every nesting of two different
locks occurs, and a queue with two consumers is scanned while one of them leaves. With
two queues, the safety properties were checked once, apart from the runs kept here: they
hold in all of its 9,979,763 states. `Bench` has two publishers with one message each and up to
two consumers, so that one message can be warmup and one measured, one redelivery and one
row before the last, and a second consumer that fails to start when the first runs; its five
option sets have each option both ways. `Topology` takes command lines of up to four flags:
an axis, its distribution, another axis and a distribution that must not reach the first.
Symmetry is used for messages and consumers in
`QueueExact` and `QueueRedelivery` and for sessions in `RoutingSafety`, all of which check
no liveness. Deadlock is not checked: messages, frames and publishes are finite, so each
system ends. The exception is `CollectorSafety`, where scrapes never end and deadlock
is checked.

### Fairness

- `Queue`: the dispatcher runs (weak); steps that need `q.mu` are strongly fair because
  Go's mutex hands over to a starving waiter; clients answer what they receive, which is an
  assumption about clients. `WriteEnvelope` is assumed to return; `ConnectionTeardown`
  shows when it does not.
- `Connection`: goroutines run (weak); `send` is strongly fair because a Go channel serves
  its blocked senders in order. The client need not send, but reads what it is sent or its
  connection fails.
- `Collector`: a goroutine that does not wait for a client is strongly fair, because Go's
  mutex hands over to a starving waiter. Nothing is assumed of requests, of new scrapes and of
  the writes to clients, which may hang for ever.
- `Bench`: workers and `Run` are weakly fair: timers fire and SDK calls return. Nothing
  is assumed of the sampler, the caller or the broker.

## What is proved

For every value of the constants, that is for any number of messages, consumers,
connections, channels, queues, workers or flags, with the prefetch, the capacities and the
tag space left open. TLC checks the same definitions on the instances above. Each argument
is an inductive invariant: the properties themselves are not kept by every step, and
what has to be added says why the code is right.

### `Queue` (`QueueGuarantees`, `QueueExactness`)

Whatever connections break:

- `TypeCorrect`, `PendingIsRegisteredCorrect`: nothing is pending at an unregistered
  consumer and its two maps agree. `Lifecycle` is added: registered consumers are exactly
  those of running sessions, only those have handlers, a pending message sits under its own
  tag, and whatever anyone holds has been published, so that drawing a tag never retags a
  message in use.
- `PrefetchCorrect`: `inflight` never undercounts an open session's deliveries and never
  exceeds the prefetch. The outstanding tags are counted through each release.
- `NoLossCorrect`: `Spec => []LiveTagsDistinct => []NoLoss`, the at-least-once guarantee.
  That the tags in play are distinct is a hypothesis because the code does not ensure it:
  tags wrap.
- `FirstDispatchInOrderCorrect`: with `InOrder`, the queue is a stretch of messages sent
  before, followed by exactly the arrivals after some point, none of which was sent.
  Everything put back goes to the head, so the second stretch only loses its first message.

While no connection breaks (`Fragile = {}`) and live tags are distinct:

- `ExactlyOneCopyCorrect` and `InflightExactCorrect`, from `OnePlace` (a message is once in
  the queue, with one session, in one nack's hands or settled; an ack that was looked up
  still finds its message) and `Counted`.
- `ImplementsDeliveryCorrect`: initial states map to initial states of `Delivery` and
  every step to a step of it or a stutter, again from `OnePlace`.

Both hypotheses are needed. `QueueRedelivery` shows what a broken connection does, and a clash of
tags overwrites a pending message. The second can be replaced by a count:

- `TagsSuffice`: with fewer messages than tags, 65,536 in the code, live tags are
  distinct (`TagsDrawn`: tags are drawn in order and none twice). `FewMessagesNoLoss` and
  `FewMessagesExact` state the results above without a hypothesis on tags.

### `Connection` (`ConnectionProofs`)

`ConnectionTypeCorrect`, `RequestsAccountedCorrect`, `HandshakeFirstCorrect` and
`RegisteredIsOwnedCorrect`, from one invariant `ConnectionInv`. It adds that the reader is
inside `send` exactly at the points that call it (`ReaderCalls`); how far the greeting is at each
point of the handshake, where an ignored error of `tune` means that `writePump` has returned
and `open-ok` must fail (`Greeted`, `Phases`); and that a cleanup takes every consumer but
those of replaced channels (`Leaving`).

### `Collector` (`CollectorProofs`, `CollectorBacklog`)

- `CollectorTypeCorrect`, `NoCircularWaitCorrect`, `GaugesAgreeCorrect`, from `CollectorInv`:
  who holds which lock can be read off the program counters (`Holding`), loops over
  consumers run over consumers that stay registered (`Scans`), counters trail what they
  count by one step (`Gauges`). A goroutine that holds a lock waits only for one of higher
  rank, so a set of goroutines that all wait on each other would have no member of
  greatest rank.
- `BacklogSnapshotCorrect`: what a scrape has added up, with the counts it has yet to read, is
  at most the backlog it found and at least that less the nacks since (`Snapshot`). The sum over
  the consumers is a fold of the library. It is related to the cardinality of a set of
  cells by well-founded induction on finite subsets.

### `Routing` (`RoutingProofs`)

`RoutingTypeCorrect`, `AccountedCorrect`, `FanOutCompleteCorrect`, from `RoutingInv`: each tag
of a queue is in one place (`OnePlace`), the tags in some place are those drawn (`Drawn`), and
what a publish has done and has left to do is bound (`Planned`).

### `Bench` (`BenchProofs`)

`BenchTypeCorrect`, `MeasuredExactCorrect`, `WindowsConserveCorrect`,
`DrainedIsQuietCorrect`, `NothingLeaksCorrect`, `SuccessAccountedCorrect`, from `BenchInv`:
every counter equals what it should, less what the workers hold between minting and
recording (`Minted`, `Books`, `Tallies`), rows and window add up (`Windows`), and the phases
say who may run, why the run is there and what has been lost (`Phases`, `Reasons`, `Drops`).

### `Topology` (`TopologyProofs`)

- `PlacementSoundCorrect`, `LoadsShapedCorrect`, `CarvingExactCorrect`: facts about `Build` for
  any configuration it accepts. Position in a slice is a bijection to an initial stretch of
  the integers; round-robin and packing are then division with remainder, and the loads
  are compared by injections between the workers of two slots.
- `RejectsOnlyInfeasibleCorrect`: a pigeonhole argument. An assignment that respects the cap
  would number each worker by its slot and its rank there, below slots times cap.
- `IgnoredCapsIgnoredCorrect`: configurations that differ only in the caps of evenly spread axes
  have the same plan (`Alike`).
- `FlagsBindCorrect`: a loop invariant over the flags read so far (`Followed`, `Applied`). Integer
  flags are taken to have parsed; `flag.Parse` refuses the others by itself.

### Assumptions

The constants are assumed to be what the code makes them, by named `ASSUME`s that TLC
evaluates in the runs: `None` is none of the things it stands beside
(`NoneAssumption`, `ReaderAssumption`, `CollectorAssumption`, `LocksAssumption`,
`OwnersAssumption`), sets that the program keeps in memory are finite (`FiniteAssumption`,
`BenchAssumption`), prefetch and capacity are positive (`PrefetchAssumption`,
`CapAssumption`), there are at least two tags (`TagModAssumption`), configurations have the
fields of `Config` and command lines are made of its flags (`ConfigsAssumption`,
`CommandLinesAssumption`). `FragileAssumption`, `RepliesAssumption` and `RepeatsAssumption`
only give types. The bounds of the models (`BoundsAssumption`, `RoutingAssumption`)
are any natural numbers.

### Only model-checked

All liveness: `QueueDrains`, `SendReturns`, `TornDownUnlessStranded`, `ScrapeCompletes` and
`RunReturns` rest on fairness, which the proof system does not handle. The four violated
properties are refuted by a run each and have no theorem. Every invariant of the passing runs has one.

Proofs name Zenon as the default prover (`USE Zenon`) in most modules and cite `SMT` where a leaf needs
arithmetic: this halves the time. A module takes up to about sixteen minutes from nothing.

## Hazards

`PROJECT.json` lists, line by line, what can go wrong here that a test would hardly reach,
with the properties that cover it. Not covered: the bind-ok sent for a failed bind
(`channel.go:192`), a single ignored return value that needs no interleaving.

## Not modelled

- Latency samples and percentiles (`internal/bench/metrics.go:26-118`): sequential arithmetic
  on floats, where a model would repeat the formula; unit tests cover it.
- Encoding and decoding of frames, event types and constructors (`protocol/`): JSON by the
  standard library. What matters to the control, the readers' errors, is in `Connection`.
- The message counters of `broker/metrics.go`: nothing reads them.
- Formatting: the printed plan, the CSV columns, the JSON summary, logs.
- `cmd/broker`, the example clients and the test helpers: wiring and fixtures. The SDK is
  another repository; its clients are the environment of `Queue`, `Routing` and `Bench`.
- The composition of `Connection` with `Queue`. Each takes from the other what its
  environment actions allow: in `Queue` a connection may break at any step of a write, and in
  `Connection` a dispatcher may write at any time while a consumer is registered.
