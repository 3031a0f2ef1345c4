----------------------------- MODULE Collector -----------------------------
(***************************************************************************)
(* The server with its connections coming and going (broker/server.go),    *)
(* and the scrapes of /metrics that read its state while it changes        *)
(* (stateCollector in broker/metrics.go), at the grain of five kinds of    *)
(* mutex: Server.mu, Connection.mu, Broker.mu, Queue.mu and Consumer.mu.   *)
(* Exchange.mu is only ever taken with none of the others held, and holds  *)
(* nothing modelled here.                                                  *)
(*                                                                         *)
(* The goroutines are one per connection, one dispatcher per queue and one *)
(* per scrape.  Messages are only counted: Queue has their identities.  A  *)
(* connection has at most one consumer, which stands for it.               *)
(*                                                                         *)
(* A critical section in which no other lock is taken is one step, guarded *)
(* by its lock being free.  A lock held while another is taken has the     *)
(* goroutine as its owner from the step that takes it to the one that      *)
(* gives it back.                                                          *)
(***************************************************************************)
EXTENDS Integers, FiniteSets, FiniteSetsExt

CONSTANTS Conns,     \* connections, and their handler goroutines and consumers
          Queues,    \* queues, and their dispatchers
          Scrapers,  \* goroutines that serve /metrics
          Tags,      \* consumer tags, as NewConsumer makes them from channel ids
          Prefetch,  \* Consumer.prefetch (10)
          MaxMsgs,   \* bound: nobody starts to publish to a backlog of this size
          None

ASSUME CollectorAssumption ==
  /\ IsFiniteSet(Conns) /\ IsFiniteSet(Queues) /\ IsFiniteSet(Scrapers)
  /\ Conns \intersect Queues = {} /\ (Conns \union Queues) \intersect Scrapers = {}
  /\ None \notin Conns \union Queues \union Scrapers \union Tags
  /\ Prefetch \in Nat \ {0} /\ MaxMsgs \in Nat

VARIABLES owner,      \* lock -> the goroutine that holds it, or None
          th,         \* goroutine -> where it is and what it works on
          tracked,    \* Server.connections
          declared,   \* the domain of Broker.queues
          depth,      \* queue -> len(q.messages)
          consumers,  \* queue -> Queue.consumers
          inflight,   \* consumer -> Consumer.inflight
          on, tag,    \* consumer -> its queue and tag, None before basic.consume
          total,      \* the Prometheus counters of connections and consumers
          scrape      \* scraper -> what it has read so far

stateVars == <<tracked, declared, depth, consumers, inflight, on, tag>>
metricVars == <<total, scrape>>
vars == <<owner, th, stateVars, metricVars>>

-----------------------------------------------------------------------------
Goroutines == Conns \union Queues \union Scrapers

ServerMu == <<"server">>
BrokerMu == <<"broker">>
ConnMu(c) == <<"conn", c>>
QueueMu(q) == <<"queue", q>>
ConsumerMu(k) == <<"consumer", k>>

Locks == {ServerMu, BrokerMu} \union {ConnMu(c) : c \in Conns}
           \union {QueueMu(q) : q \in Queues} \union {ConsumerMu(k) : k \in Conns}

ASSUME LocksAssumption == None \notin Locks

\* Where a goroutine blocks, by the lock it is about to take.
AtServer == {"track", "untrack", "connections"}
AtBroker == {"declare", "publish", "consume", "ackLookup", "queues"}
AtQueue == {"enqueue", "register", "ack", "requeue", "unregister",
            "dispatch", "failed", "queue"}
AtConsumer == {"ackFind", "ackScan", "nack", "return", "select", "book", "revert", "consumer"}
Lockless == {"accepted", "serve", "registered", "closing", "unregistered", "gone",
             "off", "writing", "idle", "refused", "queueRead", "collected"}
Points == AtServer \union AtBroker \union AtQueue \union AtConsumer \union Lockless
            \union {"cleanup"}

Wants(t) ==
  CASE th[t].pc \in AtServer -> ServerMu
    [] th[t].pc \in AtBroker -> BrokerMu
    [] th[t].pc = "cleanup" -> ConnMu(t)
    [] th[t].pc \in AtQueue -> QueueMu(th[t].q)
    [] th[t].pc \in AtConsumer -> ConsumerMu(th[t].k)
    [] OTHER -> None

\* t is at p and what it needs there is free.
Blocked(t) == Wants(t) # None /\ owner[Wants(t)] # None
At(t, p) == th[t].pc = p /\ ~Blocked(t)

\* On to p; between two rounds a goroutine works on nothing.
Goto(t, p) ==
  th' = [th EXCEPT
    ![t].pc = p, ![t].scan = {},
    ![t].k = IF p \in {"serve", "dispatch", "idle", "refused"} THEN None ELSE @,
    ![t].q = IF p \in {"serve", "idle", "refused"} THEN None ELSE @]

\* On to p, for the queue q, or for c's own consumer and its queue.
GotoFor(t, p, q) == th' = [th EXCEPT ![t].pc = p, ![t].q = q]
GotoForOwn(c, p) == th' = [th EXCEPT ![c].pc = p, ![c].q = on[c], ![c].k = c]

\* The loop over Queue.consumers, in any order: on to one of S, or to p.
Visit(t, S, body, p) ==
  \/ \E k \in S : th' = [th EXCEPT ![t].pc = body, ![t].k = k, ![t].scan = S \ {k}]
  \/ S = {} /\ Goto(t, p)

Take(t, l) == owner' = [owner EXCEPT ![l] = t]
Give(l) == owner' = [owner EXCEPT ![l] = None]

Counters == {"opened", "closed", "registered", "unregistered"}
Count(counter) == total' = [total EXCEPT ![counter] = @ + 1]

\* The messages of q that are queued or with its consumers.
Backlog(q) == depth[q] + MapThenSumSet(LAMBDA k : inflight[k], consumers[q])

\* The deliveries that have reached c's client, which is what it can answer:
\* the one whose write the dispatcher has not seen succeed is not among them.
Held(c) ==
  inflight[c] - Cardinality({q \in Queues :
    th[q].k = c /\ th[q].pc \in {"writing", "failed", "revert"}})

NoReading == [todo |-> {}, base |-> 0, got |-> 0, nacks |-> 0, labels |-> {},
              clash |-> FALSE]

Init ==
  /\ owner = [l \in Locks |-> None]
  /\ th = [t \in Goroutines |->
             [pc |-> CASE t \in Conns -> "track" [] t \in Queues -> "off" [] OTHER -> "idle",
              q |-> IF t \in Queues THEN t ELSE None, k |-> None, scan |-> {}]]
  /\ tracked = {} /\ declared = {}
  /\ depth = [q \in Queues |-> 0] /\ consumers = [q \in Queues |-> {}]
  /\ inflight = [k \in Conns |-> 0]
  /\ on = [k \in Conns |-> None] /\ tag = [k \in Conns |-> None]
  /\ total = [m \in Counters |-> 0]
  /\ scrape = [s \in Scrapers |-> NoReading]

-----------------------------------------------------------------------------
(* Server.HandleConnection, from accept to the deferred teardown.           *)

Track(c) ==
  /\ At(c, "track")
  /\ tracked' = tracked \union {c}
  /\ Goto(c, "accepted")
  /\ UNCHANGED <<owner, declared, depth, consumers, inflight, on, tag, metricVars>>

Accepted(c) ==
  /\ At(c, "accepted")
  /\ Count("opened")
  /\ Goto(c, "serve")
  /\ UNCHANGED <<owner, stateVars, scrape>>

\* The next request, or the end: the handshake or a read has failed.
Request(c) ==
  /\ At(c, "serve")
  /\ \/ \E q \in Queues, p \in {"declare", "publish", "consume"} :
          /\ p = "publish" => q \in declared /\ Backlog(q) < MaxMsgs
          /\ p = "consume" => on[c] = None
          /\ GotoFor(c, p, q)
     \/ on[c] # None /\ \E p \in {"ackFind", "nack"} : GotoForOwn(c, p)
     \/ Goto(c, "closing")
  /\ UNCHANGED <<owner, stateVars, metricVars>>

Closing(c) ==
  /\ At(c, "closing")
  /\ Count("closed")
  /\ Goto(c, "cleanup")
  /\ UNCHANGED <<owner, stateVars, scrape>>

\* Connection.cleanup holds Connection.mu around unregisterConsumer.
Cleanup(c) ==
  /\ At(c, "cleanup")
  /\ \/ on[c] # None
        /\ Take(c, ConnMu(c))
        /\ GotoForOwn(c, "unregister")
     \/ on[c] = None /\ Goto(c, "untrack") /\ owner' = owner
  /\ UNCHANGED <<stateVars, metricVars>>

\* Mutant: the connection is not deleted from the map.
UntrackNot(c) ==
  /\ At(c, "untrack")
  /\ Goto(c, "gone")
  /\ UNCHANGED <<owner, stateVars, metricVars>>

Untrack(c) ==
  /\ At(c, "untrack")
  /\ tracked' = tracked \ {c}
  /\ Goto(c, "gone")
  /\ UNCHANGED <<owner, declared, depth, consumers, inflight, on, tag, metricVars>>

-----------------------------------------------------------------------------
(* The request handlers, by the locks they take.                           *)

DeclareQueue(c) ==
  /\ At(c, "declare")
  /\ LET q == th[c].q IN
     /\ declared' = declared \union {q}
     /\ th' = [th EXCEPT ![c].pc = "serve", ![c].q = None,
                         ![q].pc = IF q \in declared THEN @ ELSE "dispatch"]
  /\ UNCHANGED <<owner, tracked, depth, consumers, inflight, on, tag, metricVars>>

\* Broker.Publish: the exchange is found and leads to the queue, or not.  The
\* exchange's lock, and the queue's for the delivery tag, are taken with no
\* other held and change nothing counted here.
PublishLookup(c) ==
  /\ At(c, "publish")
  /\ \E p \in {"enqueue", "serve"} : Goto(c, p)
  /\ UNCHANGED <<owner, stateVars, metricVars>>

\* Also the second half of a nack with requeue.
Enqueue(c) ==
  /\ At(c, "enqueue") \/ At(c, "requeue")
  /\ depth' = [depth EXCEPT ![th[c].q] = @ + 1]
  /\ Goto(c, "serve")
  /\ UNCHANGED <<owner, tracked, declared, consumers, inflight, on, tag, metricVars>>

ConsumeLookup(c) ==
  /\ At(c, "consume")
  /\ Goto(c, IF th[c].q \in declared THEN "register" ELSE "serve")
  /\ UNCHANGED <<owner, stateVars, metricVars>>

Register(c) ==
  /\ At(c, "register")
  /\ consumers' = [consumers EXCEPT ![th[c].q] = @ \union {c}]
  /\ on' = [on EXCEPT ![c] = th[c].q]
  /\ \E x \in Tags : tag' = [tag EXCEPT ![c] = x]
  /\ Goto(c, "registered")
  /\ UNCHANGED <<owner, tracked, declared, depth, inflight, metricVars>>

Registered(c) ==
  /\ At(c, "registered")
  /\ Count("registered")
  /\ Goto(c, "serve")
  /\ UNCHANGED <<owner, stateVars, scrape>>

\* Mutant: Consumer.mu is kept while Broker.Ack runs.
AckFindHolding(c) ==
  /\ At(c, "ackFind")
  /\ \/ Held(c) > 0 /\ Goto(c, "ackLookup") /\ Take(c, ConsumerMu(c))
     \/ Held(c) <= 0 /\ Goto(c, "serve") /\ owner' = owner
  /\ UNCHANGED <<stateVars, metricVars>>

\* HandleAck looks for the tag under Consumer.mu and lets it go.
AckFind(c) ==
  /\ At(c, "ackFind")
  /\ Goto(c, IF Held(c) > 0 THEN "ackLookup" ELSE "serve")
  /\ UNCHANGED <<owner, stateVars, metricVars>>

AckLookup(c) ==
  /\ At(c, "ackLookup")
  /\ Goto(c, "ack")
  /\ UNCHANGED <<owner, stateVars, metricVars>>

AckLock(c) ==
  /\ At(c, "ack")
  /\ Take(c, QueueMu(th[c].q))
  /\ Visit(c, consumers[th[c].q], "ackScan", "serve")
  /\ UNCHANGED <<stateVars, metricVars>>

AckScan(c) ==
  /\ At(c, "ackScan")
  /\ LET found == th[c].k = c /\ Held(c) > 0
         done == found \/ th[c].scan = {}
     IN /\ inflight' = IF found THEN [inflight EXCEPT ![c] = @ - 1] ELSE inflight
        /\ Visit(c, IF done THEN {} ELSE th[c].scan, "ackScan", "serve")
        /\ owner' = IF done THEN [owner EXCEPT ![QueueMu(th[c].q)] = None] ELSE owner
  /\ UNCHANGED <<tracked, declared, depth, consumers, on, tag, metricVars>>

\* HandleNack takes the message back under Consumer.mu alone.  Afterwards it is
\* requeued, discarded, or republished as a dead letter.
Nack(c) ==
  /\ At(c, "nack")
  /\ \/ /\ Held(c) > 0
        /\ inflight' = [inflight EXCEPT ![c] = @ - 1]
        /\ \/ \E p \in {"requeue", "serve"} : Goto(c, p)
           \/ \E q \in declared : Backlog(q) <= MaxMsgs /\ GotoFor(c, "publish", q)
        /\ scrape' = [s \in Scrapers |->
             IF owner[QueueMu(on[c])] = s THEN [scrape[s] EXCEPT !.nacks = @ + 1] ELSE scrape[s]]
     \/ Held(c) <= 0 /\ Goto(c, "serve") /\ UNCHANGED <<inflight, scrape>>
  /\ UNCHANGED <<owner, tracked, declared, depth, consumers, on, tag, total>>

Unregister(c) ==
  /\ At(c, "unregister")
  /\ Take(c, QueueMu(th[c].q))
  /\ Goto(c, "return")
  /\ UNCHANGED <<stateVars, metricVars>>

\* The pending messages go back to the queue under Queue.mu and Consumer.mu.
Return(c) ==
  /\ At(c, "return")
  /\ LET q == th[c].q IN
     /\ consumers' = [consumers EXCEPT ![q] = @ \ {c}]
     /\ depth' = [depth EXCEPT ![q] = @ + inflight[c]]
     /\ inflight' = [inflight EXCEPT ![c] = 0]
     /\ Give(QueueMu(q))
  /\ Goto(c, "unregistered")
  /\ UNCHANGED <<tracked, declared, on, tag, metricVars>>

Unregistered(c) ==
  /\ At(c, "unregistered")
  /\ Count("unregistered")
  /\ Give(ConnMu(c))
  /\ Goto(c, "untrack")
  /\ UNCHANGED <<stateVars, scrape>>

Handler(c) ==
  \/ DeclareQueue(c) \/ PublishLookup(c) \/ Enqueue(c)
  \/ ConsumeLookup(c) \/ Register(c) \/ Registered(c)
  \/ AckFind(c) \/ AckLookup(c) \/ AckLock(c) \/ AckScan(c) \/ Nack(c)
  \/ Unregister(c) \/ Return(c) \/ Unregistered(c)

HandleConnection(c) ==
  Track(c) \/ Accepted(c) \/ Handler(c) \/ Closing(c) \/ Cleanup(c) \/ Untrack(c)

-----------------------------------------------------------------------------
(* Queue.dispatchLoop.  cond.Wait is the dispatcher not moving; it may wake *)
(* at any time, which covers every Signal.                                  *)

Dispatch(q) ==
  /\ At(q, "dispatch")
  /\ depth[q] > 0 /\ consumers[q] # {}
  /\ Take(q, QueueMu(q))
  /\ Visit(q, consumers[q], "select", "dispatch")
  /\ UNCHANGED <<stateVars, metricVars>>

\* Mutant: prefetch compared with <= instead of <.
SelectConsumerOver(q) ==
  /\ At(q, "select")
  /\ \/ inflight[th[q].k] <= Prefetch /\ Goto(q, "book") /\ owner' = owner
     \/ /\ inflight[th[q].k] > Prefetch
        /\ Visit(q, th[q].scan, "select", "dispatch")
        /\ owner' = IF th[q].scan = {} THEN [owner EXCEPT ![QueueMu(q)] = None] ELSE owner
  /\ UNCHANGED <<stateVars, metricVars>>

\* selectConsumer: the first consumer with room, or none.
SelectConsumer(q) ==
  /\ At(q, "select")
  /\ \/ inflight[th[q].k] < Prefetch /\ Goto(q, "book") /\ owner' = owner
     \/ /\ inflight[th[q].k] >= Prefetch
        /\ Visit(q, th[q].scan, "select", "dispatch")
        /\ owner' = IF th[q].scan = {} THEN [owner EXCEPT ![QueueMu(q)] = None] ELSE owner
  /\ UNCHANGED <<stateVars, metricVars>>

Book(q) ==
  /\ At(q, "book")
  /\ depth' = [depth EXCEPT ![q] = @ - 1]
  /\ inflight' = [inflight EXCEPT ![th[q].k] = @ + 1]
  /\ Give(QueueMu(q))
  /\ Goto(q, "writing")
  /\ UNCHANGED <<tracked, declared, consumers, on, tag, metricVars>>

\* WriteEnvelope returns.  Nothing says when: the client may not be reading.
Written(q) ==
  /\ At(q, "writing")
  /\ \E p \in {"dispatch", "failed"} : Goto(q, p)
  /\ UNCHANGED <<owner, stateVars, metricVars>>

Failed(q) ==
  /\ At(q, "failed")
  /\ Take(q, QueueMu(q))
  /\ Goto(q, "revert")
  /\ UNCHANGED <<stateVars, metricVars>>

Revert(q) ==
  /\ At(q, "revert")
  /\ depth' = [depth EXCEPT ![q] = @ + 1]
  /\ inflight' = [inflight EXCEPT ![th[q].k] = @ - 1]
  /\ Give(QueueMu(q))
  /\ Goto(q, "dispatch")
  /\ UNCHANGED <<tracked, declared, consumers, on, tag, metricVars>>

DispatchLoop(q) == Dispatch(q) \/ SelectConsumer(q) \/ Book(q) \/ Failed(q) \/ Revert(q)

-----------------------------------------------------------------------------
(* One GET /metrics: stateCollector.Collect inside the registry's Gather.   *)

Scrape(s) ==
  /\ At(s, "idle") \/ At(s, "refused")
  /\ Goto(s, "connections")
  /\ UNCHANGED <<owner, stateVars, metricVars>>

CollectConnections(s) ==
  /\ At(s, "connections")
  /\ Goto(s, "queues")
  /\ UNCHANGED <<owner, stateVars, metricVars>>

\* On to one of the queues S, or to the end.
NextQueue(s, S) ==
  /\ \/ \E q \in S : GotoFor(s, "queue", q)
     \/ S = {} /\ Goto(s, "collected")
  /\ scrape' = [scrape EXCEPT ![s] = [@ EXCEPT
       !.todo = S \ {th'[s].q}, !.base = 0, !.got = 0, !.nacks = 0]]

CollectBroker(s) ==
  /\ At(s, "queues")
  /\ Take(s, BrokerMu)
  /\ NextQueue(s, declared)
  /\ UNCHANGED <<stateVars, total>>

\* Mutant: Queue.mu is let go before the consumers are read.
CollectQueueUnlocked(s) ==
  /\ At(s, "queue")
  /\ LET q == th[s].q IN
     /\ owner' = owner
     /\ scrape' = [scrape EXCEPT ![s].base = Backlog(q), ![s].got = depth[q], ![s].nacks = 0]
     /\ Visit(s, consumers[q], "consumer", "queueRead")
  /\ UNCHANGED <<stateVars, total>>

CollectQueue(s) ==
  /\ At(s, "queue")
  /\ LET q == th[s].q IN
     /\ Take(s, QueueMu(q))
     /\ scrape' = [scrape EXCEPT ![s].base = Backlog(q), ![s].got = depth[q], ![s].nacks = 0]
     /\ Visit(s, consumers[q], "consumer", "queueRead")
  /\ UNCHANGED <<stateVars, total>>

CollectConsumer(s) ==
  /\ At(s, "consumer")
  /\ LET label == <<th[s].q, tag[th[s].k]>> IN
     scrape' = [scrape EXCEPT ![s].got = @ + inflight[th[s].k],
                              ![s].labels = @ \union {label},
                              ![s].clash = @ \/ label \in scrape[s].labels]
  /\ Visit(s, th[s].scan, "consumer", "queueRead")
  /\ UNCHANGED <<owner, stateVars, total>>

\* Mutant: the queue is read again until nothing has moved meanwhile.
CollectedQueueRetries(s) ==
  /\ At(s, "queueRead")
  /\ Give(QueueMu(th[s].q))
  /\ IF scrape[s].nacks = 0 THEN NextQueue(s, scrape[s].todo)
     ELSE /\ Goto(s, "queue")
          /\ scrape' = [scrape EXCEPT ![s] = [NoReading EXCEPT !.todo = scrape[s].todo]]
  /\ UNCHANGED <<stateVars, total>>

CollectedQueue(s) ==
  /\ At(s, "queueRead")
  /\ Give(QueueMu(th[s].q))
  /\ NextQueue(s, scrape[s].todo)
  /\ UNCHANGED <<stateVars, total>>

\* Gather refuses two metrics of one name and one set of label values, and
\* promhttp turns its error into a 500.
Collected(s) ==
  /\ At(s, "collected")
  /\ Give(BrokerMu)
  /\ Goto(s, IF scrape[s].clash THEN "refused" ELSE "idle")
  /\ scrape' = [scrape EXCEPT ![s] = NoReading]
  /\ UNCHANGED <<stateVars, total>>

Collect(s) ==
  \/ CollectConnections(s) \/ CollectBroker(s) \/ CollectQueue(s) \/ CollectConsumer(s)
  \/ CollectedQueue(s) \/ Collected(s)

Next ==
  \/ \E c \in Conns : HandleConnection(c) \/ Request(c)
  \/ \E q \in Queues : DispatchLoop(q) \/ Written(q)
  \/ \E s \in Scrapers : Collect(s) \/ Scrape(s)

Spec == Init /\ [][Next]_vars

\* A goroutine that is not waiting for a client runs, and a Go mutex is handed
\* to a waiter that has starved: a lock that keeps being free is got.  Nothing
\* is assumed of requests, of writes to clients and of new scrapes.
FairSpec ==
  /\ Spec
  /\ \A c \in Conns : SF_vars(HandleConnection(c))
  /\ \A q \in Queues : SF_vars(DispatchLoop(q))
  /\ \A s \in Scrapers : SF_vars(Collect(s))

-----------------------------------------------------------------------------
(* Properties.                                                             *)

TypeOK ==
  /\ owner \in [Locks -> Goroutines \union {None}]
  /\ th \in [Goroutines -> [pc : Points, q : Queues \union {None}, k : Conns \union {None},
                            scan : SUBSET Conns]]
  /\ tracked \subseteq Conns /\ declared \subseteq Queues
  /\ depth \in [Queues -> Nat] /\ consumers \in [Queues -> SUBSET Conns]
  /\ inflight \in [Conns -> -1..Prefetch]
  /\ on \in [Conns -> Queues \union {None}] /\ tag \in [Conns -> Tags \union {None}]
  /\ total \in [Counters -> Nat]
  /\ \A s \in Scrapers : scrape[s].todo \subseteq Queues

\* No set of goroutines is stuck with each one waiting for a mutex another of
\* them holds, whatever requests, dispatches, teardowns and scrapes run
\* together: Server.mu, Connection.mu, Broker.mu, Queue.mu and Consumer.mu are
\* only ever nested in one order.
NoCircularWait ==
  \A S \in (SUBSET Goroutines) \ {{}} :
    \E t \in S : Blocked(t) => owner[Wants(t)] \notin S

\* The depth and the in-flight counts that one scrape reports for a queue add
\* up to the backlog the queue had when Collect locked it, less the messages
\* nacked meanwhile: Collect holds Queue.mu over the consumers, and HandleNack is
\* the one handler that moves a message without it.
BacklogSnapshot ==
  \A s \in Scrapers : th[s].pc = "queueRead" =>
    /\ scrape[s].got <= scrape[s].base
    /\ scrape[s].got >= scrape[s].base - scrape[s].nacks

Settled == \A c \in Conns : th[c].pc \in {"track", "serve", "gone"}

\* What the gauges show agrees with the counters once no connection is half
\* way through a handler, opened less closed never exceeds the connections
\* gauge, and a registered consumer's connection is still tracked: the order of
\* HandleConnection's deferred calls.
GaugesAgree ==
  /\ total.opened - total.closed <= Cardinality(tracked)
  /\ \A q \in Queues : consumers[q] \subseteq tracked
  /\ Settled =>
       /\ total.opened - total.closed = Cardinality(tracked)
       /\ total.registered - total.unregistered =
            Cardinality({r \in Queues \X Conns : r[2] \in consumers[r[1]]})

\* Every scrape that starts is answered, even when clients stop reading and the
\* dispatchers hang in their writes: no write happens under a lock Collect needs.
ScrapeCompletes ==
  \A s \in Scrapers : th[s].pc = "connections" ~> th[s].pc \in {"idle", "refused"}

\* /metrics never answers with an error instead of the metrics.
ScrapeAnswers ==
  \A s \in Scrapers : th[s].pc # "refused"
=============================================================================
