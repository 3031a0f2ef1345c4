------------------------------- MODULE Queue -------------------------------
(***************************************************************************)
(* One queue of the broker (broker/queue.go), the publishers that feed it  *)
(* (Broker.Publish), the goroutine that drains it (dispatchLoop) and the   *)
(* connection goroutines whose ack, nack and teardown handlers change it.  *)
(*                                                                         *)
(* Every consumer of the model is the only consumer of one session: one    *)
(* channel on one connection, whose requests are handled one at a time by  *)
(* the goroutine that reads the connection.  A message is an identity; its *)
(* body, exchange and routing key are carried along unread.                *)
(*                                                                         *)
(* q.mu is held over a single step everywhere except in dispatchLoop       *)
(* between selectConsumer returning nil and cond.Wait releasing the lock:  *)
(* that section is dpc = "full", and steps that need q.mu wait for it.     *)
(***************************************************************************)
EXTENDS Integers, Sequences, FiniteSets, Functions

CONSTANTS
  Msgs,       \* the messages that will be published to this queue
  Consumers,  \* the consumers that may be registered on it
  Fragile,    \* the consumers whose connection may break
  Prefetch,   \* Consumer.prefetch (10 in NewConsumer)
  TagMod,     \* the number of delivery tags: 2^16, the tags are uint16
  Replies,    \* what the clients answer: some of "ack", "requeue", "drop"
  Repeats,    \* whether a client may answer the same delivery again
  None        \* no message, no consumer

ASSUME NoneAssumption == None \notin Msgs /\ None \notin Consumers
ASSUME FiniteAssumption == IsFiniteSet(Msgs)
ASSUME FragileAssumption == Fragile \subseteq Consumers
ASSUME PrefetchAssumption == Prefetch \in Nat \ {0}
ASSUME TagModAssumption == TagMod \in Nat /\ TagMod > 1
ASSUME RepliesAssumption == Replies \subseteq {"ack", "requeue", "drop"}
ASSUME RepeatsAssumption == Repeats \in BOOLEAN

VARIABLES
  messages,         \* q.messages
  consumers,        \* q.consumers
  nextTag,          \* q.nextTag
  stage,            \* how far each message has come, see Stages
  tagOf,            \* Message.DeliveryTag
  arrivals,         \* history: the messages in the order of their enqueue
  inflight,         \* Consumer.inflight
  inflightTags,     \* Consumer.inflightTags
  pendingMessages,  \* Consumer.pendingMessages, None for an absent tag
  dpc,              \* where dispatchLoop is, see Points
  dcons, dmsg,      \* dispatchLoop's consumer and msg while it writes
  session,          \* the state of a consumer's session, see Sessions
  handler,          \* what the session's goroutine is in the middle of
  received,         \* the deliveries a client has and may still answer
  settled           \* history: messages a client acked or refused for good

publishVars == <<nextTag, stage, tagOf, arrivals>>
consumerVars == <<inflight, inflightTags, pendingMessages>>
dispatchVars == <<dpc, dcons, dmsg>>
sessionVars == <<consumers, session>>
clientVars == <<received, settled>>
vars == <<messages, publishVars, consumerVars, dispatchVars, sessionVars,
          handler, clientVars>>

-----------------------------------------------------------------------------

Tags == 0 .. TagMod - 1

\* A message is given its tag, then appended, and later dispatched: "sent"
\* says that it was dispatched at least once.
Stages == {"unpublished", "tagged", "queued", "sent"}

\* "run": about to lock q.mu; "full": selectConsumer found nobody, q.mu held;
\* "parked": in cond.Wait; "writing": in WriteEnvelope, q.mu released.
Points == {"run", "full", "parked", "writing"}

\* "broken": the connection failed and its goroutine has not cleaned up yet.
\* "closed": unregistered, by channel.close or by the connection's cleanup.
Sessions == {"new", "open", "broken", "closed"}

Idle == [op |-> "idle", msg |-> None]
Handlers ==
  [op : {"ack", "requeue"}, msg : Msgs] \cup [op : {"idle", "signal"}, msg : {None}]

Init ==
  /\ messages = <<>>
  /\ consumers = {}
  /\ nextTag = 1
  /\ stage = [m \in Msgs |-> "unpublished"]
  /\ tagOf = [m \in Msgs |-> 0]
  /\ arrivals = <<>>
  /\ inflight = [c \in Consumers |-> 0]
  /\ inflightTags = [c \in Consumers |-> {}]
  /\ pendingMessages = [c \in Consumers |-> [t \in Tags |-> None]]
  /\ dpc = "run" /\ dcons = None /\ dmsg = None
  /\ session = [c \in Consumers |-> "new"]
  /\ handler = [c \in Consumers |-> Idle]
  /\ received = [c \in Consumers |-> {}]
  /\ settled = {}

-----------------------------------------------------------------------------
(* Helpers. *)

QueueUnlocked == dpc # "full"

\* cond.Signal: only dispatchLoop ever waits on the condition.
SignalTo(pc) == IF pc = "parked" THEN "run" ELSE pc
Signal == dpc' = SignalTo(dpc) /\ UNCHANGED <<dcons, dmsg>>

\* Faulty: append(q.messages, msg).
PrependAtTail(m) == messages' = Append(messages, m)

\* append([]Message{msg}, q.messages...)
Prepend(m) == messages' = <<m>> \o messages

\* Faulty: the tag is wider than the field it is stored in.
TagAfterUnbounded(t) == t + 1

\* q.nextTag++ on a uint16: after the largest tag comes 0, not 1.
TagAfter(t) == IF t = TagMod - 1 THEN 0 ELSE t + 1

\* Faulty: consumer.inflight <= consumer.prefetch.
FreeOffByOne(c) == inflight[c] <= Prefetch

\* consumer.inflight < consumer.prefetch
Free(c) == inflight[c] < Prefetch

Running(c) == session[c] \in {"open", "broken"}

\* The messages in Consumer.pendingMessages.
Held(c) == {m \in Msgs : \E t \in Tags : pendingMessages[c][t] = m}

\* Faulty: c.inflight-- is forgotten.
ReleaseKeepsSlot(c, t) ==
  /\ inflightTags' = [inflightTags EXCEPT ![c] = @ \ {t}]
  /\ pendingMessages' = [pendingMessages EXCEPT ![c][t] = None]
  /\ UNCHANGED inflight

\* delete(c.inflightTags, t); delete(c.pendingMessages, t); c.inflight--
Release(c, t) ==
  /\ inflightTags' = [inflightTags EXCEPT ![c] = @ \ {t}]
  /\ pendingMessages' = [pendingMessages EXCEPT ![c][t] = None]
  /\ inflight' = [inflight EXCEPT ![c] = @ - 1]

\* The orders in which a loop over a Go map may visit S.
Orders(S) == Bijection(1 .. Cardinality(S), S)

-----------------------------------------------------------------------------
(* Publishing.  Broker.Publish locks q.mu twice: once to draw a tag, once, *)
(* in enqueue, to append.  Publishers on other connections may come between.*)

PublishTag(m) ==
  /\ QueueUnlocked
  /\ stage[m] = "unpublished"
  /\ tagOf' = [tagOf EXCEPT ![m] = nextTag]
  /\ nextTag' = TagAfter(nextTag)
  /\ stage' = [stage EXCEPT ![m] = "tagged"]
  /\ UNCHANGED <<messages, arrivals, consumerVars, dispatchVars, sessionVars,
                 handler, clientVars>>

Enqueue(m) ==
  /\ QueueUnlocked
  /\ stage[m] = "tagged"
  /\ messages' = Append(messages, m)
  /\ arrivals' = Append(arrivals, m)
  /\ stage' = [stage EXCEPT ![m] = "queued"]
  /\ Signal
  /\ UNCHANGED <<nextTag, tagOf, consumerVars, sessionVars, handler, clientVars>>

-----------------------------------------------------------------------------
(* Sessions. *)

RegisterConsumer(c) ==
  /\ QueueUnlocked
  /\ session[c] = "new"
  /\ session' = [session EXCEPT ![c] = "open"]
  /\ consumers' = consumers \cup {c}
  /\ Signal
  /\ UNCHANGED <<messages, publishVars, consumerVars, handler, clientVars>>

\* The network or the peer ends the connection: from here on its writes may
\* fail.  Requests it already sent may still be read and handled.
Break(c) ==
  /\ c \in Fragile
  /\ session[c] = "open"
  /\ session' = [session EXCEPT ![c] = "broken"]
  /\ UNCHANGED <<messages, publishVars, consumerVars, dispatchVars, consumers,
                 handler, clientVars>>

\* Faulty: the requeued tags stay in inflightTags.
UnregisterKeepsTags(c) ==
  /\ QueueUnlocked
  /\ Running(c) /\ handler[c] = Idle
  /\ session' = [session EXCEPT ![c] = "closed"]
  /\ consumers' = consumers \ {c}
  /\ \E requeued \in Orders(Held(c)) : messages' = requeued \o messages
  /\ inflight' = [inflight EXCEPT ![c] = @ - Cardinality(Held(c))]
  /\ pendingMessages' = [pendingMessages EXCEPT ![c] = [t \in Tags |-> None]]
  /\ received' = [received EXCEPT ![c] = {}]
  /\ Signal
  /\ UNCHANGED <<inflightTags, publishVars, handler, settled>>

\* Faulty: the dispatcher is not told of the requeued messages.
UnregisterSilent(c) ==
  /\ QueueUnlocked
  /\ Running(c) /\ handler[c] = Idle
  /\ session' = [session EXCEPT ![c] = "closed"]
  /\ consumers' = consumers \ {c}
  /\ \E requeued \in Orders(Held(c)) : messages' = requeued \o messages
  /\ inflight' = [inflight EXCEPT ![c] = @ - Cardinality(Held(c))]
  /\ inflightTags' = [inflightTags EXCEPT
                        ![c] = @ \ {tagOf[m] : m \in Held(c)}]
  /\ pendingMessages' = [pendingMessages EXCEPT ![c] = [t \in Tags |-> None]]
  /\ received' = [received EXCEPT ![c] = {}]
  /\ UNCHANGED <<publishVars, dispatchVars, handler, settled>>

\* unregisterConsumer, from channel.close on an open session or from the
\* cleanup of a broken one.  The pending messages are prepended one by one
\* while a map is ranged over: they end up at the head in any order.
UnregisterConsumer(c) ==
  /\ QueueUnlocked
  /\ Running(c) /\ handler[c] = Idle
  /\ session' = [session EXCEPT ![c] = "closed"]
  /\ consumers' = consumers \ {c}
  /\ \E requeued \in Orders(Held(c)) : messages' = requeued \o messages
  /\ inflight' = [inflight EXCEPT ![c] = @ - Cardinality(Held(c))]
  /\ inflightTags' = [inflightTags EXCEPT
                        ![c] = @ \ {tagOf[m] : m \in Held(c)}]
  /\ pendingMessages' = [pendingMessages EXCEPT ![c] = [t \in Tags |-> None]]
  /\ received' = [received EXCEPT ![c] = {}]
  /\ Signal
  /\ UNCHANGED <<publishVars, handler, settled>>

-----------------------------------------------------------------------------
(* dispatchLoop. *)

DispatchWait ==
  /\ dpc = "run"
  /\ messages = <<>>
  /\ dpc' = "parked"
  /\ UNCHANGED <<messages, publishVars, consumerVars, dcons, dmsg, sessionVars,
                 handler, clientVars>>

\* selectConsumer ranges over a map: any free consumer may be returned.
DispatchTake(c) ==
  /\ dpc = "run"
  /\ messages # <<>>
  /\ c \in consumers /\ Free(c)
  /\ LET m == Head(messages) IN
     /\ inflight' = [inflight EXCEPT ![c] = @ + 1]
     /\ inflightTags' = [inflightTags EXCEPT ![c] = @ \cup {tagOf[m]}]
     /\ pendingMessages' = [pendingMessages EXCEPT ![c][tagOf[m]] = m]
     /\ stage' = [stage EXCEPT ![m] = "sent"]
     /\ dmsg' = m
  /\ messages' = Tail(messages)
  /\ dcons' = c
  /\ dpc' = "writing"
  /\ UNCHANGED <<nextTag, tagOf, arrivals, sessionVars, handler, clientVars>>

\* selectConsumer returned nil; q.mu stays locked until cond.Wait.
DispatchFull ==
  /\ dpc = "run"
  /\ messages # <<>>
  /\ \A c \in consumers : ~Free(c)
  /\ dpc' = "full"
  /\ UNCHANGED <<messages, publishVars, consumerVars, dcons, dmsg, sessionVars,
                 handler, clientVars>>

DispatchPark ==
  /\ dpc = "full"
  /\ dpc' = "parked"
  /\ UNCHANGED <<messages, publishVars, consumerVars, dcons, dmsg, sessionVars,
                 handler, clientVars>>

\* WriteEnvelope returned nil.  A client whose connection broke never sees
\* the bytes; one that closed the channel sees them and cannot answer.
DeliverOk ==
  /\ dpc = "writing"
  /\ received' = IF session[dcons] = "open"
                 THEN [received EXCEPT ![dcons] = @ \cup {dmsg}]
                 ELSE received
  /\ dpc' = "run" /\ dcons' = None /\ dmsg' = None
  /\ UNCHANGED <<messages, publishVars, consumerVars, sessionVars, handler, settled>>

\* Faulty: the books are reverted but the message is not put back.
DeliverErrDrops ==
  /\ dpc = "writing"
  /\ dcons \in Fragile /\ session[dcons] # "open"
  /\ Release(dcons, tagOf[dmsg])
  /\ dpc' = "run" /\ dcons' = None /\ dmsg' = None
  /\ UNCHANGED <<messages, publishVars, sessionVars, handler, clientVars>>

\* WriteEnvelope failed: the message goes back to the head and the consumer's
\* books are reverted, registered or not.
DeliverErr ==
  /\ dpc = "writing"
  /\ dcons \in Fragile /\ session[dcons] # "open"
  /\ Prepend(dmsg)
  /\ Release(dcons, tagOf[dmsg])
  /\ dpc' = "run" /\ dcons' = None /\ dmsg' = None
  /\ UNCHANGED <<publishVars, sessionVars, handler, clientVars>>

-----------------------------------------------------------------------------
(* Acks and nacks.  A client answers a delivery by its tag; of a broken     *)
(* connection the answers already sent may still be read.                   *)

\* The client of c answers the delivery of m, for the last time or not.
Answers(c, m) ==
  /\ m \in received[c]
  /\ \/ received' = [received EXCEPT ![c] = @ \ {m}]
     \/ Repeats /\ session[c] = "open" /\ UNCHANGED received

\* HandleAck: the session's own consumer holds the tag (otherwise the ack is
\* ignored).  Broker.Ack is called after c.mu is released.
AckLookup(c, m) ==
  /\ "ack" \in Replies
  /\ Running(c) /\ handler[c] = Idle
  /\ Answers(c, m)
  /\ tagOf[m] \in inflightTags[c]
  /\ handler' = [handler EXCEPT ![c] = [op |-> "ack", msg |-> m]]
  /\ UNCHANGED <<messages, publishVars, consumerVars, dispatchVars, sessionVars,
                 settled>>

\* Broker.Ack: the first registered consumer found with the tag releases it,
\* whichever session it belongs to; when there is none it is an error.
Ack(c) ==
  /\ QueueUnlocked
  /\ handler[c].op = "ack"
  /\ LET m == handler[c].msg
         holders == {d \in consumers : tagOf[m] \in inflightTags[d]} IN
     \/ \E d \in holders :
          /\ Release(d, tagOf[m])
          /\ settled' = settled \cup {m}
          /\ Signal
     \/ /\ holders = {}
        /\ UNCHANGED <<consumerVars, dispatchVars, settled>>
  /\ handler' = [handler EXCEPT ![c] = Idle]
  /\ UNCHANGED <<messages, publishVars, sessionVars, received>>

\* Faulty: the message stays pending, so a repeated nack finds it again.
NackCopies(c, m, reply) ==
  /\ reply \in Replies
  /\ Running(c) /\ handler[c] = Idle
  /\ Answers(c, m)
  /\ pendingMessages[c][tagOf[m]] # None
  /\ handler' = [handler EXCEPT ![c] =
                   [op |-> "requeue", msg |-> pendingMessages[c][tagOf[m]]]]
  /\ UNCHANGED <<messages, publishVars, consumerVars, dispatchVars, sessionVars, settled>>

\* HandleNack takes the message from the consumer under c.mu alone, so this
\* step does not wait for q.mu.
NackTake(c, m, reply) ==
  /\ reply \in Replies
  /\ Running(c) /\ handler[c] = Idle
  /\ Answers(c, m)
  /\ LET held == pendingMessages[c][tagOf[m]] IN
     /\ held # None
     /\ Release(c, tagOf[m])
     /\ \/ /\ reply = "requeue"
           /\ handler' = [handler EXCEPT ![c] = [op |-> "requeue", msg |-> held]]
           /\ UNCHANGED settled
        \/ /\ reply = "drop"
           /\ handler' = [handler EXCEPT ![c] = [op |-> "signal", msg |-> None]]
           /\ settled' = settled \cup {m}
  /\ UNCHANGED <<messages, publishVars, dispatchVars, sessionVars>>

NackRequeue(c) ==
  /\ QueueUnlocked
  /\ handler[c].op = "requeue"
  /\ Prepend(handler[c].msg)
  /\ handler' = [handler EXCEPT ![c] = Idle]
  /\ Signal
  /\ UNCHANGED <<publishVars, consumerVars, sessionVars, clientVars>>

\* A message refused for good is dropped or published to the queue's dead
\* letter exchange (for this queue, if it is bound there, a message like any
\* other); then the condition is signalled without q.mu, whether or not
\* dispatchLoop is waiting yet.
NackSignal(c) ==
  /\ handler[c].op = "signal"
  /\ handler' = [handler EXCEPT ![c] = Idle]
  /\ Signal
  /\ UNCHANGED <<messages, publishVars, consumerVars, sessionVars, clientVars>>

-----------------------------------------------------------------------------

Publish == \E m \in Msgs : PublishTag(m) \/ Enqueue(m)

Dispatch ==
  \/ DispatchWait \/ DispatchFull \/ DispatchPark \/ DeliverOk \/ DeliverErr
  \/ \E c \in Consumers : DispatchTake(c)

Handle(c) ==
  \/ RegisterConsumer(c) \/ Break(c) \/ UnregisterConsumer(c)
  \/ Ack(c) \/ NackRequeue(c) \/ NackSignal(c)
  \/ \E m \in Msgs : \/ AckLookup(c, m)
                     \/ \E reply \in {"requeue", "drop"} : NackTake(c, m, reply)

Next == Publish \/ Dispatch \/ \E c \in Consumers : Handle(c)

Spec == Init /\ [][Next]_vars

-----------------------------------------------------------------------------
(* Safety. *)

TypeOK ==
  /\ messages \in Seq(Msgs)
  /\ consumers \subseteq Consumers
  /\ nextTag \in Tags
  /\ stage \in [Msgs -> Stages]
  /\ tagOf \in [Msgs -> Tags]
  /\ arrivals \in Seq(Msgs)
  /\ inflight \in [Consumers -> Int]
  /\ inflightTags \in [Consumers -> SUBSET Tags]
  /\ pendingMessages \in [Consumers -> [Tags -> Msgs \cup {None}]]
  /\ dpc \in Points
  /\ dcons \in Consumers \cup {None}
  /\ dmsg \in Msgs \cup {None}
  /\ dpc = "writing" => dcons \in Consumers /\ dmsg \in Msgs
  /\ session \in [Consumers -> Sessions]
  /\ handler \in [Consumers -> Handlers]
  /\ received \in [Consumers -> SUBSET Msgs]
  /\ settled \subseteq Msgs

\* The broker still has m: queued, pending at a registered consumer, or in
\* the hands of a nack that is about to requeue it.
Stored(m) ==
  \/ m \in Range(messages)
  \/ \E c \in consumers : m \in Held(c)
  \/ \E c \in Consumers : handler[c].op = "requeue" /\ handler[c].msg = m

\* At-least-once: an enqueued message that no client acked or refused for good
\* is still in the broker, whatever connections break, channels close, writes
\* fail and acks or nacks race with the dispatcher.
NoLoss ==
  \A m \in Msgs : stage[m] \in {"queued", "sent"} /\ m \notin settled => Stored(m)

\* Someone may still refer to m by its tag.
InPlay(m) ==
  \/ stage[m] = "tagged"
  \/ Stored(m)
  \/ dmsg = m
  \/ \E c \in Consumers : handler[c].msg = m \/ m \in received[c]

LiveTagsDistinct ==
  \A m, n \in Msgs : InPlay(m) /\ InPlay(n) /\ tagOf[m] = tagOf[n] => m = n

\* Tags are uint16 and wrap.  As long as the wrap never gives a message the
\* tag of another one that is still in play, no message is lost.
NoLossUnlessTagClash == []LiveTagsDistinct => []NoLoss

\* Of a session whose connection works, the client never holds more
\* unanswered deliveries than its prefetch: inflight may count too many after
\* a duplicate delivery, never too few.
PrefetchRespected ==
  \A c \in Consumers : session[c] = "open" =>
    /\ Cardinality(inflightTags[c]) <= inflight[c]
    /\ inflight[c] <= Prefetch

\* selectConsumer and Broker.Ack only see registered consumers, so nothing is
\* ever pending at a consumer that has been unregistered, not even when the
\* dispatcher was writing to it at that moment; and the two maps of a consumer,
\* one read by HandleAck and one by HandleNack, agree.
PendingIsRegistered ==
  \A c \in Consumers :
    /\ inflightTags[c] = {t \in Tags : pendingMessages[c][t] # None}
    /\ c \notin consumers => inflightTags[c] = {}

\* What makes the properties above inductive: only sessions that have not been
\* cleaned up are registered or have a handler running, a pending message sits
\* under its own tag, and whatever anyone holds was published, so that drawing
\* a tag for a new message never changes the tag of one that is in use.
Lifecycle ==
  /\ consumers = {c \in Consumers : Running(c)}
  /\ \A c \in Consumers : handler[c] # Idle => Running(c)
  /\ \A m \in Range(messages) : stage[m] \in {"queued", "sent"}
  /\ \A c \in Consumers, t \in Tags : pendingMessages[c][t] # None =>
       /\ tagOf[pendingMessages[c][t]] = t
       /\ stage[pendingMessages[c][t]] = "sent"
  /\ \A c \in Consumers : handler[c].op \in {"ack", "requeue"} =>
       stage[handler[c].msg] = "sent"
  /\ \A c \in Consumers : \A m \in received[c] : stage[m] = "sent"
  /\ dpc = "writing" => stage[dmsg] = "sent"

Fresh(m) == stage[m] = "queued"

\* Messages are dispatched for the first time in the order in which they
\* arrived, and whatever was requeued (by a nack, a failed write or a
\* disconnect) goes ahead of all messages never dispatched: the queue ends in
\* the arrivals after the j-th, and these are the ones never dispatched.
FirstDispatchInOrder ==
  \E k \in 0 .. Len(messages), j \in 0 .. Len(arrivals) :
    /\ \A i \in 1 .. k : ~Fresh(messages[i])
    /\ \A i \in 1 .. Len(arrivals) : Fresh(arrivals[i]) <=> i > j
    /\ SubSeq(messages, k + 1, Len(messages)) = SubSeq(arrivals, j + 1, Len(arrivals))

\* The copies of m in the broker: in the queue, pending, and with nacks.
Copies(m) ==
  Cardinality({i \in DOMAIN messages : messages[i] = m})
  + Cardinality({c \in Consumers : m \in Held(c)})
  + Cardinality({c \in Consumers : handler[c].op = "requeue" /\ handler[c].msg = m})

\* Redelivery is exact (tests/disconnect_test.go): there is one copy of an
\* unsettled message and none of a settled one.
ExactlyOneCopy ==
  \A m \in Msgs : Copies(m) <= IF m \in settled THEN 0 ELSE 1

\* A consumer's inflight count is the number of its unanswered deliveries, so
\* that each answer frees the slot its delivery took.
InflightExact ==
  \A c \in consumers : inflight[c] = Cardinality(inflightTags[c])

-----------------------------------------------------------------------------
(* Liveness. *)

\* The client of c answers its delivery of m.
Answer(c, m) ==
  AckLookup(c, m) \/ \E reply \in {"requeue", "drop"} : NackTake(c, m, reply)

\* The dispatcher and the handlers run; clients answer what they receive; the
\* goroutine of a broken connection gets to its cleanup.  Strong fairness where
\* a step needs q.mu: Go's mutex hands over to a waiter that starves.
Fairness ==
  /\ WF_vars(Dispatch)
  /\ \A m \in Msgs : SF_vars(Enqueue(m))
  /\ \A c \in Consumers :
       /\ SF_vars(Ack(c)) /\ SF_vars(NackRequeue(c)) /\ WF_vars(NackSignal(c))
       /\ SF_vars(session[c] = "broken" /\ UnregisterConsumer(c))
       /\ \A m \in Msgs : SF_vars(Answer(c, m))

FairSpec == Spec /\ Fairness

\* A consumer that stays, on a connection that works.
Attended == \E c \in Consumers : <>[](session[c] = "open")

\* With a consumer that stays and answers, every enqueued message is settled.
QueueDrains ==
  Attended => \A m \in Msgs : stage[m] = "queued" ~> m \in settled

=============================================================================
