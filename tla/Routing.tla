------------------------------ MODULE Routing ------------------------------
(***************************************************************************)
(* Exchanges, queues, bindings and the requests of the channels that use   *)
(* them (broker/broker.go, exchange.go, channel.go): declarations, binds,  *)
(* publishes that fan out to the bound queues one after the other, and     *)
(* acks and nacks by delivery tag, with dead-lettering.                    *)
(*                                                                         *)
(* A session is a connection with one channel; its goroutine handles one   *)
(* request at a time, in steps that end where a lock is released.  Each    *)
(* queue is abstracted as module Delivery does (waiting here, pending at a *)
(* consumer, settled): the races inside one queue are module Queue's.      *)
(***************************************************************************)
EXTENDS Integers, Sequences, FiniteSets, Functions

CONSTANTS
  Sessions,
  Exchanges, Queues, Keys,  \* names and routing keys clients use
  DeadLetters,  \* the dead-letter arguments a queue.declare may have
  MaxPublish,   \* bound: how many messages clients publish
  MaxDead,      \* bound: how many messages are dead-lettered
  None          \* the empty name

ASSUME RoutingAssumption ==
  /\ DeadLetters \subseteq [exchange : Exchanges \cup {None}, key : Keys \cup {None}]
  /\ MaxPublish \in Nat /\ MaxDead \in Nat

VARIABLES
  exchanges,  \* Broker.exchanges
  queues,     \* Broker.queues: the declared ones
  dlx,        \* Queue.dlx and Queue.dlxRoutingKey
  bindings,   \* Exchange.bindings, as triples
  work,       \* what the goroutine of each session has left to do, see Work
  waiting,    \* Queue.messages
  nextTag,    \* Queue.nextTag
  consuming,  \* the queues each session's channel has a consumer on
  pending,    \* Consumer.pendingMessages, for each session and queue
  settled,    \* history: the tags acked or refused for good, for each queue
  published,  \* history: how many messages clients have published
  refused     \* the DeadLettered counter

topology == <<exchanges, queues, dlx, bindings>>
queueVars == <<waiting, nextTag>>
channelVars == <<consuming, pending, settled>>
counters == <<published, refused>>
vars == <<topology, work, queueVars, channelVars, counters>>

-----------------------------------------------------------------------------

Idle == [op |-> "idle"]

\* Queues bound to an exchange under a routing key.
Bound(e, k) == {q \in Queues : <<e, k, q>> \in bindings}

\* Broker.Publish of a message with routing key k on exchange e: the lookup of
\* the exchange, getQueues, and the loop over its result.  due is the history
\* variable of the properties: the queues bound when the publish began.
Lookup(e, k) ==
  [op |-> "lookup", exchange |-> e, key |-> k, due |-> Bound(e, k)]

Init ==
  /\ exchanges = {} /\ queues = {} /\ bindings = {}
  /\ dlx = [q \in Queues |-> [exchange |-> None, key |-> None]]
  /\ work = [s \in Sessions |-> Idle]
  /\ waiting = [q \in Queues |-> <<>>]
  /\ nextTag = [q \in Queues |-> 1]
  /\ consuming = [s \in Sessions |-> {}]
  /\ pending = [s \in Sessions |-> [q \in Queues |-> {}]]
  /\ settled = [q \in Queues |-> {}]
  /\ published = 0 /\ refused = 0

SetWork(s, w) == work' = [work EXCEPT ![s] = w]

-----------------------------------------------------------------------------
(* Declarations. *)

DeclareExchange(s, e) ==
  /\ work[s] = Idle
  /\ exchanges' = exchanges \cup {e}
  /\ UNCHANGED <<queues, dlx, bindings, work, queueVars, channelVars, counters>>

\* A second declaration changes nothing, not even the dead-letter arguments.
DeclareQueue(s, q, dead) ==
  /\ work[s] = Idle
  /\ q \notin queues
  /\ queues' = queues \cup {q}
  /\ dlx' = [dlx EXCEPT ![q] = dead]
  /\ UNCHANGED <<exchanges, bindings, work, queueVars, channelVars, counters>>

\* BindQueue looks both names up under b.mu; when one is missing the error is
\* ignored and the client is told that the binding succeeded.
BindLookup(s, e, k, q) ==
  /\ work[s] = Idle
  /\ e \in exchanges /\ q \in queues
  /\ SetWork(s, [op |-> "bind", binding |-> <<e, k, q>>])
  /\ UNCHANGED <<topology, queueVars, channelVars, counters>>

\* Faulty: a new map replaces the queues bound under the key before.
BindReplaces(s) ==
  /\ work[s].op = "bind"
  /\ LET e == work[s].binding[1]  k == work[s].binding[2] IN
     bindings' = {b \in bindings : b[1] # e \/ b[2] # k} \cup {work[s].binding}
  /\ SetWork(s, Idle)
  /\ UNCHANGED <<exchanges, queues, dlx, queueVars, channelVars, counters>>

\* Exchange.bind
Bind(s) ==
  /\ work[s].op = "bind"
  /\ bindings' = bindings \cup {work[s].binding}
  /\ SetWork(s, Idle)
  /\ UNCHANGED <<exchanges, queues, dlx, queueVars, channelVars, counters>>

-----------------------------------------------------------------------------
(* Publishing. *)

HandlePublish(s, e, k) ==
  /\ work[s] = Idle
  /\ published < MaxPublish
  /\ published' = published + 1
  /\ SetWork(s, Lookup(e, k))
  /\ UNCHANGED <<topology, queueVars, channelVars, refused>>

\* An unknown exchange is an error; a client is told, a dead letter is lost.
PublishLookup(s) ==
  /\ work[s].op = "lookup"
  /\ SetWork(s, IF work[s].exchange \in exchanges
                  THEN [work[s] EXCEPT !.op = "route"] ELSE Idle)
  /\ UNCHANGED <<topology, queueVars, channelVars, counters>>

\* Exchange.getQueues: the queues bound at this moment, in any order.
Route(s) ==
  /\ work[s].op = "route"
  /\ LET w == work[s] IN
     SetWork(s, [op |-> "fan", exchange |-> w.exchange, key |-> w.key, due |-> w.due,
                 todo |-> Bound(w.exchange, w.key), got |-> {}])
  /\ UNCHANGED <<topology, queueVars, channelVars, counters>>

\* One round of the loop: a tag is drawn and the message appended.
Enqueue(s, q) ==
  /\ work[s].op = "fan"
  /\ q \in work[s].todo
  /\ waiting' = [waiting EXCEPT ![q] = Append(@, [tag |-> nextTag[q], key |-> work[s].key])]
  /\ nextTag' = [nextTag EXCEPT ![q] = @ + 1]
  /\ SetWork(s, [work[s] EXCEPT !.todo = @ \ {q}, !.got = @ \cup {q}])
  /\ UNCHANGED <<topology, channelVars, counters>>

PublishReturn(s) ==
  /\ work[s].op = "fan"
  /\ work[s].todo = {}
  /\ SetWork(s, Idle)
  /\ UNCHANGED <<topology, queueVars, channelVars, counters>>

-----------------------------------------------------------------------------
(* Consumers.  Of an ack or a nack, any consumer of the channel that has     *)
(* the tag is taken: tags are drawn per queue, so this may be a consumer of  *)
(* another queue than the client means.                                      *)

\* Faulty: the consumers of a queue that is not declared yet are accepted.
ConsumeUndeclared(s, q) ==
  /\ work[s] = Idle
  /\ q \notin consuming[s]
  /\ consuming' = [consuming EXCEPT ![s] = @ \cup {q}]
  /\ UNCHANGED <<topology, work, queueVars, pending, settled, counters>>

\* HandleConsume; a queue that was not declared is an error.
Consume(s, q) ==
  /\ work[s] = Idle
  /\ q \in queues \ consuming[s]
  /\ consuming' = [consuming EXCEPT ![s] = @ \cup {q}]
  /\ UNCHANGED <<topology, work, queueVars, pending, settled, counters>>

\* dispatchLoop hands the head of the queue to a consumer.
Dispatch(s, q) ==
  /\ q \in consuming[s]
  /\ waiting[q] # <<>>
  /\ pending' = [pending EXCEPT ![s][q] = @ \cup {Head(waiting[q])}]
  /\ waiting' = [waiting EXCEPT ![q] = Tail(@)]
  /\ UNCHANGED <<topology, work, nextTag, consuming, settled, counters>>

\* The orders in which a loop over a Go map may visit S.
Orders(S) == Bijection(1..Cardinality(S), S)

\* ch.cleanup, for channel.close or teardown: what is pending is requeued.
CloseChannel(s) ==
  /\ work[s] = Idle
  /\ consuming[s] # {}
  /\ \E order \in [Queues -> UNION {Orders(pending[s][q]) : q \in Queues}] :
       /\ \A q \in Queues : order[q] \in Orders(pending[s][q])
       /\ waiting' = [q \in Queues |-> order[q] \o waiting[q]]
  /\ pending' = [pending EXCEPT ![s] = [q \in Queues |-> {}]]
  /\ consuming' = [consuming EXCEPT ![s] = {}]
  /\ UNCHANGED <<topology, work, nextTag, settled, counters>>

\* Faulty: the pending message is looked up and not deleted.
TakeCopy(s, q, m) ==
  /\ work[s] = Idle
  /\ q \in consuming[s]
  /\ m \in pending[s][q]
  /\ UNCHANGED pending

\* The consumer on q gives m up, settled or about to be requeued.
Take(s, q, m) ==
  /\ work[s] = Idle
  /\ q \in consuming[s]
  /\ m \in pending[s][q]
  /\ pending' = [pending EXCEPT ![s][q] = @ \ {m}]

HandleAck(s, q, m) ==
  /\ Take(s, q, m)
  /\ settled' = [settled EXCEPT ![q] = @ \cup {m.tag}]
  /\ UNCHANGED <<topology, work, queueVars, consuming, counters>>

NackRequeue(s, q, m) ==
  /\ Take(s, q, m)
  /\ SetWork(s, [op |-> "requeue", queue |-> q, msg |-> m])
  /\ UNCHANGED <<topology, queueVars, consuming, settled, counters>>

Requeue(s) ==
  /\ work[s].op = "requeue"
  /\ waiting' = [waiting EXCEPT ![work[s].queue] = <<work[s].msg>> \o @]
  /\ SetWork(s, Idle)
  /\ UNCHANGED <<topology, nextTag, channelVars, counters>>

\* The message is dropped, or counted as dead-lettered and then published to
\* the dead-letter exchange, with its own routing key unless the queue has one.
NackDrop(s, q, m) ==
  /\ Take(s, q, m)
  /\ dlx[q].exchange # None => refused < MaxDead
  /\ settled' = [settled EXCEPT ![q] = @ \cup {m.tag}]
  /\ IF dlx[q].exchange = None
     THEN UNCHANGED <<work, refused>>
     ELSE /\ SetWork(s, Lookup(dlx[q].exchange,
                               IF dlx[q].key = None THEN m.key ELSE dlx[q].key))
          /\ refused' = refused + 1
  /\ UNCHANGED <<topology, queueVars, consuming, published>>

-----------------------------------------------------------------------------

Declare(s) ==
  \/ \E e \in Exchanges : DeclareExchange(s, e)
  \/ \E q \in Queues, dead \in DeadLetters : DeclareQueue(s, q, dead)
  \/ \E e \in Exchanges, k \in Keys, q \in Queues : BindLookup(s, e, k, q)
  \/ Bind(s)

Publish(s) ==
  \/ \E e \in Exchanges, k \in Keys : HandlePublish(s, e, k)
  \/ PublishLookup(s) \/ Route(s) \/ PublishReturn(s)
  \/ \E q \in Queues : Enqueue(s, q)

Channel(s) ==
  \/ \E q \in Queues : Consume(s, q) \/ Dispatch(s, q)
  \/ CloseChannel(s) \/ Requeue(s)
  \/ \E q \in Queues : \E m \in pending[s][q] :
       HandleAck(s, q, m) \/ NackRequeue(s, q, m) \/ NackDrop(s, q, m)

Next == \E s \in Sessions : Declare(s) \/ Publish(s) \/ Channel(s)

Spec == Init /\ [][Next]_vars

-----------------------------------------------------------------------------
(* Safety. *)

Messages == [tag : Nat, key : Keys]
Work ==
  {Idle}
  \cup [op : {"bind"}, binding : Exchanges \X Keys \X Queues]
  \cup [op : {"lookup", "route"}, exchange : Exchanges, key : Keys,
        due : SUBSET Queues]
  \cup [op : {"fan"}, exchange : Exchanges, key : Keys, due : SUBSET Queues,
        todo : SUBSET Queues, got : SUBSET Queues]
  \cup [op : {"requeue"}, queue : Queues, msg : Messages]

TypeOK ==
  /\ exchanges \subseteq Exchanges /\ queues \subseteq Queues
  /\ dlx \in [Queues -> [exchange : Exchanges \cup {None}, key : Keys \cup {None}]]
  /\ bindings \subseteq exchanges \X Keys \X queues
  /\ work \in [Sessions -> Work]
  /\ waiting \in [Queues -> Seq(Messages)]
  /\ nextTag \in [Queues -> Nat \ {0}]
  /\ consuming \in [Sessions -> SUBSET queues]
  /\ pending \in [Sessions -> [Queues -> SUBSET Messages]]
  /\ settled \in [Queues -> SUBSET Nat]
  /\ published \in 0 .. MaxPublish /\ refused \in 0 .. MaxDead

\* Where the messages of q are: in the queue, pending, in a nack's hands, gone.
Places(q) ==
  {<<"queue", i, waiting[q][i].tag>> : i \in DOMAIN waiting[q]}
  \cup {<<"settled", t, t>> : t \in settled[q]}
  \cup (UNION {{<<"pending", s, m.tag>> : m \in pending[s][q]} : s \in Sessions})
  \cup {<<"nack", s, work[s].msg.tag>> :
          s \in {r \in Sessions : work[r].op = "requeue" /\ work[r].queue = q}}

\* Every message a queue was given is in exactly one place, even when acks and
\* nacks reach the consumer of another queue that uses the same tag: none is
\* lost without an answer, none is redelivered after one.
Accounted ==
  \A q \in Queues :
    /\ {p[3] : p \in Places(q)} = 1 .. nextTag[q] - 1
    /\ Cardinality(Places(q)) = nextTag[q] - 1

\* A publish, of a client or of a dead letter, reaches every queue that was
\* bound when it began and only queues that are bound, each once, whatever is
\* declared, bound and published meanwhile.
FanOutComplete ==
  \A s \in Sessions : work[s].op = "fan" =>
    /\ work[s].due \subseteq work[s].got \cup work[s].todo
    /\ work[s].got \cup work[s].todo \subseteq Bound(work[s].exchange, work[s].key)
    /\ work[s].got \cap work[s].todo = {}

=============================================================================
