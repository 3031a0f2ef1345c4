-------------------------- MODULE CollectorProofs ---------------------------
(***************************************************************************)
(* The mutexes of the broker are never waited for in a circle, and the     *)
(* counters of connections and consumers agree with the gauges, for any    *)
(* number of connections, queues and scrapes.                              *)
(***************************************************************************)
EXTENDS Collector, FiniteSetTheorems, FunctionTheorems, TLAPS

\* A leaf is Zenon's unless it names another prover.
USE Zenon

ConnPoints == {"track", "accepted", "serve", "declare", "publish", "enqueue", "requeue",
               "consume", "register", "registered", "ackFind", "ackLookup", "ack", "ackScan",
               "nack", "closing", "cleanup", "unregister", "return", "unregistered",
               "untrack", "gone"}
QueuePoints == {"off", "dispatch", "select", "book", "writing", "failed", "revert"}
ScrapePoints == {"idle", "refused", "connections", "queues", "queue", "consumer",
                 "queueRead", "collected"}

\* Where a connection's handler works on a queue, and on its own consumer.
OnQueue == {"declare", "publish", "enqueue", "requeue", "consume", "register", "ackFind",
            "ackLookup", "ack", "ackScan", "nack", "unregister", "return"}
OnOwnQueue == {"ackFind", "ackLookup", "ack", "ackScan", "nack", "unregister", "return"}

\* The points of a delivery that is booked and not yet seen written.
Out == {"writing", "failed", "revert"}

\* Where a goroutine holds a lock from one step to the next.
HoldsConn == {"unregister", "return", "unregistered"}
HoldsBroker == {"queue", "consumer", "queueRead", "collected"}
HoldsQueue == {"ackScan", "return", "select", "book", "revert", "consumer", "queueRead"}

\* After Return a consumer is no longer registered.
Left == {"unregistered", "untrack", "gone"}

\* What each kind of goroutine works on, by where it is.
Works ==
  /\ \A c \in Conns :
       /\ th[c].pc \in ConnPoints
       /\ th[c].pc \in OnQueue => th[c].q \in Queues
       /\ th[c].pc \in {"ackFind", "ackScan", "nack", "unregister", "return"} => th[c].k \in Conns
  /\ \A q \in Queues :
       /\ th[q].pc \in QueuePoints
       /\ th[q].q = q
       /\ th[q].pc \in {"select", "book"} \union Out => th[q].k \in Conns
       /\ q \notin declared => th[q].pc = "off"
  /\ \A s \in Scrapers :
       /\ th[s].pc \in ScrapePoints
       /\ th[s].pc \in {"queue", "consumer", "queueRead"} => th[s].q \in Queues
       /\ th[s].pc = "consumer" => th[s].k \in Conns

\* A consumer is in its queue's list, and only there, from Register to Return;
\* the handler's acks, nacks and teardown are about that queue.
Registration ==
  /\ \A c \in Conns, q \in Queues :
       c \in consumers[q] <=> on[c] = q /\ th[c].pc \notin Left
  /\ \A c \in Conns :
       /\ th[c].pc \in {"track", "accepted", "consume", "register"} => on[c] = None
       /\ th[c].pc \in OnOwnQueue => th[c].q = on[c]
       /\ th[c].pc \in {"registered", "unregistered"} => on[c] # None

\* Who holds which lock can be read off the program counters, and the other way
\* round.  Server.mu and Consumer.mu are never held from one step to the next.
Holding ==
  /\ owner[ServerMu] = None
  /\ \A k \in Conns : owner[ConsumerMu(k)] = None
  /\ \A c \in Conns : owner[ConnMu(c)] = IF th[c].pc \in HoldsConn THEN c ELSE None
  /\ \A t \in Goroutines : owner[BrokerMu] = t <=> th[t].pc \in HoldsBroker
  /\ \A q \in Queues, t \in Goroutines :
       owner[QueueMu(q)] = t <=> th[t].pc \in HoldsQueue /\ th[t].q = q

\* A loop over Queue.consumers runs over consumers that stay registered, and
\* a delivery in the making is for a consumer of the dispatcher's queue.
Scans ==
  /\ \A t \in Goroutines : th[t].pc \in {"ackScan", "select", "book", "consumer"} =>
       th[t].k \in consumers[th[t].q] /\ th[t].scan \subseteq consumers[th[t].q]
  /\ \A q \in Queues : th[q].pc \in Out => on[th[q].k] = q

Writing(k) == \E q \in Queues : th[q].k = k /\ th[q].pc \in Out

\* A delivery in the making has its message and its slot; a consumer's count
\* covers the delivery being written, but for one that Return has taken back.
Slots ==
  /\ \A q \in Queues :
       /\ th[q].pc \in {"select", "book"} => depth[q] > 0
       /\ th[q].pc = "book" => inflight[th[q].k] < Prefetch
  /\ \A k \in Conns :
       inflight[k] >= (IF Writing(k) THEN 1 ELSE 0) - (IF th[k].pc \in Left THEN 1 ELSE 0)

\* The connections counted as opened and not as closed, and the consumers
\* counted as registered and not as unregistered: a counter moves one step after
\* what it counts.
NotOpen == {"track", "accepted", "cleanup", "unregister", "return", "unregistered", "untrack",
            "gone"}
NotCounted == {"registered", "untrack", "gone"}
Untracked == {"track", "gone"}
Open == {c \in Conns : th[c].pc \notin NotOpen}
Consuming == {c \in Conns : on[c] # None /\ th[c].pc \notin NotCounted}

Gauges ==
  /\ tracked = {c \in Conns : th[c].pc \notin Untracked}
  /\ total.opened - total.closed = Cardinality(Open)
  /\ total.registered - total.unregistered = Cardinality(Consuming)

\* A reading is a record, with queues still to do; what it has added up is not
\* needed here.
Reading(R) == [todo : SUBSET Queues, base : R, got : R, nacks : R, labels : R, clash : R]
Readings == \E R : scrape \in [Scrapers -> Reading(R)]

CollectorInv ==
  /\ TypeOK /\ Readings
  /\ Works /\ Registration /\ Holding /\ Scans /\ Slots /\ Gauges

-----------------------------------------------------------------------------
(* What the steps of a goroutine do to its own state and to the locks.      *)

Threads == [pc : Points, q : Queues \union {None}, k : Conns \union {None}, scan : SUBSET Conns]

\* t goes on to p, and no other goroutine moves.
Moves(t, p) ==
  /\ th' \in [Goroutines -> Threads]
  /\ th'[t].pc = p
  /\ \A u \in Goroutines : u # t => th'[u] = th[u]

LEMMA UpdateMoves ==
  ASSUME TypeOK, NEW t \in Goroutines, NEW r \in Threads, th' = [th EXCEPT ![t] = r]
  PROVE  Moves(t, r.pc) /\ th'[t] = r
  <1>1. th \in [Goroutines -> Threads]
    BY DEF TypeOK, Threads
  <1> QED BY <1>1 DEF Moves

LEMMA ThreadShape ==
  ASSUME TypeOK, NEW t \in Goroutines
  PROVE  /\ th \in [Goroutines -> Threads] /\ th[t] \in Threads
         /\ th[t].pc \in Points /\ th[t].q \in Queues \union {None}
         /\ th[t].k \in Conns \union {None} /\ th[t].scan \in SUBSET Conns
  <1>1. th \in [Goroutines -> Threads]
    BY DEF TypeOK, Threads
  <1> QED BY <1>1 DEF Threads

LEMMA GotoMoves ==
  ASSUME TypeOK, NEW t \in Goroutines, NEW p \in Points, Goto(t, p)
  PROVE  /\ Moves(t, p)
         /\ th'[t].scan = {}
         /\ th'[t].k = IF p \in {"serve", "dispatch", "idle", "refused"} THEN None ELSE th[t].k
         /\ th'[t].q = IF p \in {"serve", "idle", "refused"} THEN None ELSE th[t].q
  <1> DEFINE k == IF p \in {"serve", "dispatch", "idle", "refused"} THEN None ELSE th[t].k
             q == IF p \in {"serve", "idle", "refused"} THEN None ELSE th[t].q
             r == [th[t] EXCEPT !.pc = p, !.scan = {}, !.k = k, !.q = q]
  <1>1. k \in Conns \union {None} /\ q \in Queues \union {None}
    BY ThreadShape
  <1>2. th' = [th EXCEPT ![t] = r]
    BY ThreadShape DEF Goto
  <1>3. r \in Threads /\ r.pc = p /\ r.scan = {} /\ r.k = k /\ r.q = q
    <2> HIDE DEF k, q
    <2> QED BY <1>1, ThreadShape DEF Threads
  <1> HIDE DEF k, q, r
  <1>4. Moves(t, r.pc) /\ th'[t] = r
    BY <1>2, <1>3, UpdateMoves
  <1> QED BY <1>3, <1>4 DEF k, q

LEMMA GotoForMoves ==
  ASSUME TypeOK, NEW t \in Goroutines, NEW p \in Points, NEW q \in Queues,
         GotoFor(t, p, q)
  PROVE  Moves(t, p) /\ th'[t].q = q /\ th'[t].k = th[t].k /\ th'[t].scan = th[t].scan
  <1> DEFINE r == [th[t] EXCEPT !.pc = p, !.q = q]
  <1>1. th' = [th EXCEPT ![t] = r]
    BY ThreadShape DEF GotoFor
  <1>2. r \in Threads /\ r.pc = p /\ r.scan = th[t].scan /\ r.k = th[t].k /\ r.q = q
    BY ThreadShape DEF Threads
  <1> HIDE DEF r
  <1> QED BY <1>1, <1>2, UpdateMoves

LEMMA GotoForOwnMoves ==
  ASSUME TypeOK, NEW c \in Conns, NEW p \in Points, on[c] \in Queues, GotoForOwn(c, p)
  PROVE  Moves(c, p) /\ th'[c].q = on[c] /\ th'[c].k = c /\ th'[c].scan = th[c].scan
  <1> DEFINE r == [th[c] EXCEPT !.pc = p, !.q = on[c], !.k = c]
  <1>1. c \in Goroutines
    BY DEF Goroutines
  <1>2. th' = [th EXCEPT ![c] = r]
    BY <1>1, ThreadShape DEF GotoForOwn
  <1>3. r \in Threads /\ r.pc = p /\ r.scan = th[c].scan /\ r.k = c /\ r.q = on[c]
    BY <1>1, ThreadShape DEF Threads
  <1> HIDE DEF r
  <1> QED BY <1>1, <1>2, <1>3, UpdateMoves

LEMMA VisitMoves ==
  ASSUME TypeOK, NEW t \in Goroutines, NEW S \in SUBSET Conns, NEW body \in Points,
         NEW p \in Points, Visit(t, S, body, p)
  PROVE  \/ /\ Moves(t, body) /\ th'[t].q = th[t].q
            /\ th'[t].k \in S /\ th'[t].scan \subseteq S
         \/ S = {} /\ Goto(t, p)
  <1>1. ASSUME NEW k \in S,
               th' = [th EXCEPT ![t].pc = body, ![t].k = k, ![t].scan = S \ {k}]
        PROVE  /\ Moves(t, body) /\ th'[t].q = th[t].q
               /\ th'[t].k \in S /\ th'[t].scan \subseteq S
    <2> DEFINE r == [th[t] EXCEPT !.pc = body, !.k = k, !.scan = S \ {k}]
    <2>1. th' = [th EXCEPT ![t] = r]
      BY <1>1, ThreadShape
    <2>2. r \in Threads /\ r.pc = body /\ r.scan = S \ {k} /\ r.k = k /\ r.q = th[t].q
      BY ThreadShape DEF Threads
    <2> HIDE DEF r
    <2>3. Moves(t, body) /\ th'[t] = r
      BY <2>1, <2>2, UpdateMoves
    <2> QED BY <2>2, <2>3
  <1> QED BY <1>1 DEF Visit

\* The locks are different locks.
LEMMA LocksDiffer ==
  /\ ServerMu \in Locks /\ BrokerMu \in Locks /\ ServerMu # BrokerMu
  /\ \A x \in Conns : /\ ConnMu(x) \in Locks /\ ConnMu(x) # ServerMu /\ ConnMu(x) # BrokerMu
                      /\ ConsumerMu(x) \in Locks /\ ConsumerMu(x) # ServerMu
                      /\ ConsumerMu(x) # BrokerMu
  /\ \A q \in Queues : QueueMu(q) \in Locks /\ QueueMu(q) # ServerMu /\ QueueMu(q) # BrokerMu
  /\ \A x, y : /\ ConnMu(x) # ConsumerMu(y) /\ ConnMu(x) # QueueMu(y)
               /\ ConsumerMu(x) # QueueMu(y)
               /\ (ConnMu(x) = ConnMu(y) => x = y)
               /\ (QueueMu(x) = QueueMu(y) => x = y)
               /\ (ConsumerMu(x) = ConsumerMu(y) => x = y)
  BY DEF Locks, ServerMu, BrokerMu, ConnMu, QueueMu, ConsumerMu

\* A goroutine that takes a step at a lock finds it free.
LEMMA AtFree ==
  ASSUME TypeOK, NEW t \in Goroutines, NEW p, At(t, p)
  PROVE  /\ th[t].pc = p
         /\ p \in AtBroker => owner[BrokerMu] = None
         /\ p \in AtQueue /\ th[t].q \in Queues => owner[QueueMu(th[t].q)] = None
  <1>1. th[t].pc = p /\ (Wants(t) # None => owner[Wants(t)] = None)
    BY DEF At, Blocked
  <1>2. p \in AtBroker => Wants(t) = BrokerMu /\ BrokerMu # None
    <2>1. BrokerMu # None
      BY LocksAssumption, LocksDiffer
    <2>2. p \in AtBroker =>
            p \notin AtServer /\ p # "cleanup" /\ p \notin AtQueue /\ p \notin AtConsumer
      BY DEF AtServer, AtBroker, AtQueue, AtConsumer
    <2> QED BY <1>1, <2>1, <2>2 DEF Wants
  <1>3. p \in AtQueue /\ th[t].q \in Queues =>
          Wants(t) = QueueMu(th[t].q) /\ QueueMu(th[t].q) # None
    <2>1. \A q \in Queues : QueueMu(q) # None
      BY LocksAssumption, LocksDiffer
    <2>2. p \in AtQueue =>
            p \notin AtServer /\ p \notin AtBroker /\ p # "cleanup" /\ p \notin AtConsumer
      BY DEF AtServer, AtBroker, AtQueue, AtConsumer
    <2> QED BY <1>1, <2>1, <2>2 DEF Wants
  <1> QED BY <1>1, <1>2, <1>3

LEMMA KindsDiffer ==
  /\ Conns \subseteq Goroutines /\ Queues \subseteq Goroutines /\ Scrapers \subseteq Goroutines
  /\ \A t : /\ ~(t \in Conns /\ t \in Queues) /\ ~(t \in Conns /\ t \in Scrapers)
            /\ ~(t \in Queues /\ t \in Scrapers)
  /\ None \notin Goroutines
  BY CollectorAssumption DEF Goroutines

LEMMA PointsKnown ==
  ConnPoints \subseteq Points /\ QueuePoints \subseteq Points /\ ScrapePoints \subseteq Points
  BY DEF ConnPoints, QueuePoints, ScrapePoints, Points, AtServer, AtBroker, AtQueue, AtConsumer,
         Lockless

-----------------------------------------------------------------------------
(* What the goroutines work on.                                             *)

LEMMA ConnWorks ==
  ASSUME Works, NEW c \in Conns, NEW p \in ConnPoints, Moves(c, p), declared' = declared,
         p \in OnQueue => th'[c].q \in Queues,
         p \in {"ackFind", "ackScan", "nack", "unregister", "return"} => th'[c].k \in Conns
  PROVE  Works'
  BY KindsDiffer, SMT DEF Works, Moves

LEMMA QueueWorks ==
  ASSUME Works, NEW q \in Queues, NEW p \in QueuePoints, Moves(q, p), declared' = declared,
         th'[q].q = q, q \in declared,
         p \in {"select", "book"} \union Out => th'[q].k \in Conns
  PROVE  Works'
  BY KindsDiffer, SMT DEF Works, Moves

LEMMA ScrapeWorks ==
  ASSUME Works, NEW s \in Scrapers, NEW p \in ScrapePoints, Moves(s, p), declared' = declared,
         p \in {"queue", "consumer", "queueRead"} => th'[s].q \in Queues,
         p = "consumer" => th'[s].k \in Conns
  PROVE  Works'
  BY KindsDiffer, SMT DEF Works, Moves

\* DeclareQueue is the one step that moves two goroutines: it starts the
\* dispatcher of a queue that is new.
LEMMA DeclareMoves ==
  ASSUME TypeOK, Works, NEW c \in Conns, DeclareQueue(c)
  PROVE  /\ th[c].pc = "declare" /\ th[c].q \in Queues
         /\ th' \in [Goroutines -> Threads]
         /\ th'[c].pc = "serve" /\ th'[c].k = th[c].k
         /\ \A t \in Goroutines \ {c} : /\ th'[t].q = th[t].q /\ th'[t].k = th[t].k
                                        /\ th'[t].scan = th[t].scan
         /\ th'[th[c].q].pc = IF th[c].q \in declared THEN th[th[c].q].pc ELSE "dispatch"
         /\ \A t \in Goroutines \ {c, th[c].q} : th'[t] = th[t]
  <1> DEFINE q == th[c].q
  <1>1. th[c].pc = "declare" /\ q \in Queues
    BY DEF DeclareQueue, At, Works, OnQueue
  <1>2. c \in Goroutines /\ q \in Goroutines /\ c # q
    BY <1>1, KindsDiffer
  <1>3. th \in [Goroutines -> Threads] /\ th[c] \in Threads /\ th[q] \in Threads
    BY <1>2, ThreadShape
  <1>4. th' = [th EXCEPT ![c].pc = "serve", ![c].q = None,
                         ![q].pc = IF q \in declared THEN @ ELSE "dispatch"]
    BY DEF DeclareQueue
  <1> DEFINE r == [th[c] EXCEPT !.pc = "serve", !.q = None]
             d == [th[q] EXCEPT !.pc = IF q \in declared THEN th[q].pc ELSE "dispatch"]
  <1>5. th' = [th EXCEPT ![c] = r, ![q] = d]
    BY <1>2, <1>3, <1>4
  <1>6. r \in Threads /\ r.pc = "serve" /\ r.k = th[c].k
    BY <1>3 DEF Threads, Points, Lockless
  <1>7. /\ d \in Threads /\ d.pc = IF q \in declared THEN th[q].pc ELSE "dispatch"
        /\ d.q = th[q].q /\ d.k = th[q].k /\ d.scan = th[q].scan
    BY <1>3, SMT DEF Threads, Points, AtQueue
  <1> HIDE DEF r, d, q
  <1>8. th' \in [Goroutines -> Threads] /\ th'[c] = r /\ th'[q] = d
    BY <1>2, <1>3, <1>5, <1>6, <1>7
  <1>9. \A t \in Goroutines \ {c, q} : th'[t] = th[t]
    BY <1>2, <1>3, <1>5
  <1>10. q = th[c].q
    BY DEF q
  <1> QED BY <1>1, <1>6, <1>7, <1>8, <1>9, <1>10

-----------------------------------------------------------------------------
(* Where each operation leads.                                              *)

\* t goes from p to r as Goto says.
GoesTo(t, p, r) ==
  /\ th[t].pc = p /\ Moves(t, r) /\ th'[t].scan = {}
  /\ th'[t].k = IF r \in {"serve", "dispatch", "idle", "refused"} THEN None ELSE th[t].k
  /\ th'[t].q = IF r \in {"serve", "idle", "refused"} THEN None ELSE th[t].q

\* t goes from p to r, to look at one of the consumers S of its queue.
LooksAt(t, p, r, S) ==
  /\ th[t].pc = p /\ Moves(t, r) /\ th'[t].q = th[t].q
  /\ th'[t].k \in S /\ th'[t].scan \subseteq S

LEMMA ConnGoes ==
  ASSUME TypeOK, NEW c \in Conns
  PROVE  /\ Track(c) => GoesTo(c, "track", "accepted")
         /\ Accepted(c) => GoesTo(c, "accepted", "serve")
         /\ Closing(c) => GoesTo(c, "closing", "cleanup")
         /\ Untrack(c) => GoesTo(c, "untrack", "gone")
         /\ PublishLookup(c) => \E p \in {"enqueue", "serve"} : GoesTo(c, "publish", p)
         /\ Enqueue(c) => \E p \in {"enqueue", "requeue"} : GoesTo(c, p, "serve")
         /\ ConsumeLookup(c) => \E p \in {"register", "serve"} : GoesTo(c, "consume", p)
         /\ Register(c) => GoesTo(c, "register", "registered")
         /\ Registered(c) => GoesTo(c, "registered", "serve")
         /\ AckFind(c) => \E p \in {"ackLookup", "serve"} : GoesTo(c, "ackFind", p)
         /\ AckLookup(c) => GoesTo(c, "ackLookup", "ack")
         /\ Unregister(c) => GoesTo(c, "unregister", "return")
         /\ Return(c) => GoesTo(c, "return", "unregistered")
         /\ Unregistered(c) => GoesTo(c, "unregistered", "untrack")
  <1>1. c \in Goroutines /\ ConnPoints \subseteq Points
    BY KindsDiffer, PointsKnown
  <1>2. \A p, r \in ConnPoints : At(c, p) /\ Goto(c, r) => GoesTo(c, p, r)
    BY <1>1, GotoMoves DEF At, GoesTo
  <1>3. /\ Track(c) => GoesTo(c, "track", "accepted")
        /\ Accepted(c) => GoesTo(c, "accepted", "serve")
        /\ Closing(c) => GoesTo(c, "closing", "cleanup")
        /\ Untrack(c) => GoesTo(c, "untrack", "gone")
    BY <1>2 DEF Track, Accepted, Closing, Untrack, ConnPoints
  <1>4. /\ PublishLookup(c) => \E p \in {"enqueue", "serve"} : GoesTo(c, "publish", p)
        /\ Enqueue(c) => \E p \in {"enqueue", "requeue"} : GoesTo(c, p, "serve")
        /\ ConsumeLookup(c) => \E p \in {"register", "serve"} : GoesTo(c, "consume", p)
    BY <1>2 DEF PublishLookup, Enqueue, ConsumeLookup, ConnPoints
  <1>5. /\ Register(c) => GoesTo(c, "register", "registered")
        /\ Registered(c) => GoesTo(c, "registered", "serve")
        /\ AckFind(c) => \E p \in {"ackLookup", "serve"} : GoesTo(c, "ackFind", p)
        /\ AckLookup(c) => GoesTo(c, "ackLookup", "ack")
    BY <1>2 DEF Register, Registered, AckFind, AckLookup, ConnPoints
  <1>6. /\ Unregister(c) => GoesTo(c, "unregister", "return")
        /\ Return(c) => GoesTo(c, "return", "unregistered")
        /\ Unregistered(c) => GoesTo(c, "unregistered", "untrack")
    BY <1>2 DEF Unregister, Return, Unregistered, ConnPoints
  <1> QED BY <1>3, <1>4, <1>5, <1>6

LEMMA RequestGoes ==
  ASSUME TypeOK, NEW c \in Conns, Request(c)
  PROVE  \/ \E q \in Queues, p \in {"declare", "publish", "consume"} :
              /\ th[c].pc = "serve" /\ Moves(c, p) /\ th'[c].q = q
              /\ p = "consume" => on[c] = None
         \/ \E p \in {"ackFind", "nack"} :
              /\ th[c].pc = "serve" /\ Moves(c, p) /\ th'[c].q = on[c] /\ th'[c].k = c
              /\ on[c] \in Queues
         \/ GoesTo(c, "serve", "closing")
  <1>1. /\ c \in Goroutines /\ th[c].pc = "serve" /\ on[c] \in Queues \union {None}
        /\ {"declare", "publish", "consume", "ackFind", "nack", "closing"} \subseteq Points
    <2>1. c \in Goroutines /\ th[c].pc = "serve"
      BY KindsDiffer DEF Request, At
    <2>2. on[c] \in Queues \union {None}
      BY DEF TypeOK
    <2>3. {"declare", "publish", "consume", "ackFind", "nack", "closing"} \subseteq Points
      BY PointsKnown DEF ConnPoints
    <2> QED BY <2>1, <2>2, <2>3
  <1>2. ASSUME NEW q \in Queues, NEW p \in {"declare", "publish", "consume"},
               p = "consume" => on[c] = None, GotoFor(c, p, q)
        PROVE  Moves(c, p) /\ th'[c].q = q
    BY <1>1, <1>2, GotoForMoves
  <1>3. ASSUME on[c] # None, NEW p \in {"ackFind", "nack"}, GotoForOwn(c, p)
        PROVE  Moves(c, p) /\ th'[c].q = on[c] /\ th'[c].k = c /\ on[c] \in Queues
    BY <1>1, <1>3, GotoForOwnMoves
  <1>4. Goto(c, "closing") => GoesTo(c, "serve", "closing")
    BY <1>1, GotoMoves DEF GoesTo
  <1> QED BY <1>1, <1>2, <1>3, <1>4 DEF Request

LEMMA CleanupGoes ==
  ASSUME TypeOK, NEW c \in Conns, Cleanup(c)
  PROVE  \/ /\ on[c] \in Queues /\ Take(c, ConnMu(c))
            /\ th[c].pc = "cleanup" /\ Moves(c, "unregister")
            /\ th'[c].q = on[c] /\ th'[c].k = c
         \/ on[c] = None /\ owner' = owner /\ GoesTo(c, "cleanup", "untrack")
  <1>1. /\ c \in Goroutines /\ th[c].pc = "cleanup" /\ on[c] \in Queues \union {None}
        /\ {"unregister", "untrack"} \subseteq Points
    <2>1. c \in Goroutines /\ th[c].pc = "cleanup"
      BY KindsDiffer DEF Cleanup, At
    <2>2. on[c] \in Queues \union {None}
      BY DEF TypeOK
    <2>3. {"unregister", "untrack"} \subseteq Points
      BY PointsKnown DEF ConnPoints
    <2> QED BY <2>1, <2>2, <2>3
  <1>2. ASSUME on[c] # None, GotoForOwn(c, "unregister")
        PROVE  /\ Moves(c, "unregister") /\ on[c] \in Queues
               /\ th'[c].q = on[c] /\ th'[c].k = c
    BY <1>1, <1>2, GotoForOwnMoves
  <1>3. Goto(c, "untrack") => GoesTo(c, "cleanup", "untrack")
    BY <1>1, GotoMoves DEF GoesTo
  <1> QED BY <1>1, <1>2, <1>3 DEF Cleanup

\* The queue's own consumer is listed when an ack reaches it, so the loop
\* over the list is entered.
LEMMA AckLockGoes ==
  ASSUME TypeOK, Works, Registration, NEW c \in Conns, AckLock(c)
  PROVE  th[c].q \in Queues /\ LooksAt(c, "ack", "ackScan", consumers[th[c].q])
  <1>1. c \in Goroutines /\ th[c].pc = "ack" /\ {"ackScan", "serve"} \subseteq Points
    BY KindsDiffer, PointsKnown DEF AckLock, At, ConnPoints
  <1>2. th[c].q \in Queues /\ on[c] = th[c].q
    BY <1>1 DEF Works, OnQueue, Registration, OnOwnQueue
  <1>3. c \in consumers[th[c].q]
    BY <1>1, <1>2 DEF Registration, Left
  <1>4. consumers[th[c].q] \in SUBSET Conns
    BY <1>2 DEF TypeOK
  <1>5. Visit(c, consumers[th[c].q], "ackScan", "serve")
    BY DEF AckLock
  <1> QED BY <1>1, <1>2, <1>3, <1>4, <1>5, VisitMoves DEF LooksAt

LEMMA AckScanGoes ==
  ASSUME TypeOK, Works, NEW c \in Conns, AckScan(c)
  PROVE  /\ th[c].q \in Queues
         /\ \/ GoesTo(c, "ackScan", "serve") /\ Give(QueueMu(th[c].q))
            \/ LooksAt(c, "ackScan", "ackScan", th[c].scan) /\ owner' = owner
  <1> DEFINE done == (th[c].k = c /\ Held(c) > 0) \/ th[c].scan = {}
  <1>1. c \in Goroutines /\ th[c].pc = "ackScan" /\ {"ackScan", "serve"} \subseteq Points
    BY KindsDiffer, PointsKnown DEF AckScan, At, ConnPoints
  <1>2. th[c].scan \in SUBSET Conns
    BY <1>1, ThreadShape
  <1>3. /\ Visit(c, IF done THEN {} ELSE th[c].scan, "ackScan", "serve")
        /\ owner' = IF done THEN [owner EXCEPT ![QueueMu(th[c].q)] = None] ELSE owner
    BY DEF AckScan
  <1>4. th[c].q \in Queues
    BY <1>1 DEF Works, OnQueue
  <1>5. ~done => th[c].scan # {}
    OBVIOUS
  <1> HIDE DEF done
  <1>6. CASE done
    <2>1. Visit(c, {}, "ackScan", "serve") /\ Give(QueueMu(th[c].q))
      BY <1>3, <1>6 DEF Give
    <2>2. Goto(c, "serve")
      BY <2>1 DEF Visit
    <2>3. GoesTo(c, "ackScan", "serve")
      BY <1>1, <2>2, GotoMoves DEF GoesTo
    <2> QED BY <1>4, <2>1, <2>3
  <1>7. CASE ~done
    <2>1. Visit(c, th[c].scan, "ackScan", "serve") /\ owner' = owner /\ th[c].scan # {}
      BY <1>3, <1>5, <1>7
    <2> QED BY <1>1, <1>2, <1>4, <2>1, VisitMoves DEF LooksAt
  <1> QED BY <1>6, <1>7

LEMMA NackGoes ==
  ASSUME TypeOK, NEW c \in Conns, Nack(c)
  PROVE  \/ \E p \in {"requeue", "serve"} : GoesTo(c, "nack", p)
         \/ th[c].pc = "nack" /\ Moves(c, "publish") /\ th'[c].q \in Queues
  <1>1. c \in Goroutines /\ th[c].pc = "nack" /\ {"requeue", "serve", "publish"} \subseteq Points
    BY KindsDiffer, PointsKnown DEF Nack, At, ConnPoints
  <1>2. declared \subseteq Queues
    BY DEF TypeOK
  <1>3. \A p \in {"requeue", "serve"} : Goto(c, p) => GoesTo(c, "nack", p)
    BY <1>1, GotoMoves DEF GoesTo
  <1>4. ASSUME NEW q \in declared, GotoFor(c, "publish", q)
        PROVE  Moves(c, "publish") /\ th'[c].q \in Queues
    BY <1>1, <1>2, <1>4, GotoForMoves
  <1> QED BY <1>1, <1>3, <1>4 DEF Nack

LEMMA QueueGoes ==
  ASSUME TypeOK, Works, NEW q \in Queues
  PROVE  /\ SelectConsumer(q) =>
              \/ GoesTo(q, "select", "book") /\ owner' = owner /\ inflight[th[q].k] < Prefetch
              \/ GoesTo(q, "select", "dispatch") /\ Give(QueueMu(q))
              \/ LooksAt(q, "select", "select", th[q].scan) /\ owner' = owner
         /\ Dispatch(q) => LooksAt(q, "dispatch", "select", consumers[q]) /\ depth[q] > 0
         /\ Book(q) => GoesTo(q, "book", "writing")
         /\ Written(q) => \E p \in {"dispatch", "failed"} : GoesTo(q, "writing", p)
         /\ Failed(q) => GoesTo(q, "failed", "revert")
         /\ Revert(q) => GoesTo(q, "revert", "dispatch")
  <1>1. q \in Goroutines /\ QueuePoints \subseteq Points
    BY KindsDiffer, PointsKnown
  <1>2. \A p, r \in QueuePoints : At(q, p) /\ Goto(q, r) => GoesTo(q, p, r)
    BY <1>1, GotoMoves DEF At, GoesTo
  <1>3. /\ Book(q) => GoesTo(q, "book", "writing")
        /\ Written(q) => \E p \in {"dispatch", "failed"} : GoesTo(q, "writing", p)
        /\ Failed(q) => GoesTo(q, "failed", "revert")
        /\ Revert(q) => GoesTo(q, "revert", "dispatch")
    BY <1>2 DEF Book, Written, Failed, Revert, QueuePoints
  <1>4. \A S \in SUBSET Conns, p \in QueuePoints :
          At(q, p) /\ Visit(q, S, "select", "dispatch") =>
            \/ LooksAt(q, p, "select", S)
            \/ S = {} /\ Goto(q, "dispatch")
    BY <1>1, VisitMoves DEF At, LooksAt, QueuePoints
  <1>5. Dispatch(q) => LooksAt(q, "dispatch", "select", consumers[q]) /\ depth[q] > 0
    <2>1. consumers[q] \in SUBSET Conns
      BY DEF TypeOK
    <2> QED BY <1>4, <2>1 DEF Dispatch, QueuePoints
  <1>6. ASSUME SelectConsumer(q)
        PROVE  \/ GoesTo(q, "select", "book") /\ owner' = owner /\ inflight[th[q].k] < Prefetch
               \/ GoesTo(q, "select", "dispatch") /\ Give(QueueMu(q))
               \/ LooksAt(q, "select", "select", th[q].scan) /\ owner' = owner
    <2>1. th[q].scan \in SUBSET Conns
      BY <1>1, ThreadShape
    <2>2. At(q, "select")
      BY <1>6 DEF SelectConsumer
    <2>3. CASE inflight[th[q].k] < Prefetch /\ Goto(q, "book") /\ owner' = owner
      BY <1>2, <2>2, <2>3 DEF QueuePoints
    <2>4. CASE /\ Visit(q, th[q].scan, "select", "dispatch")
               /\ owner' = IF th[q].scan = {} THEN [owner EXCEPT ![QueueMu(q)] = None] ELSE owner
      <3>1. CASE LooksAt(q, "select", "select", th[q].scan)
        <4>1. th[q].scan # {}
          BY <3>1 DEF LooksAt
        <4> QED BY <2>4, <3>1, <4>1
      <3>2. CASE th[q].scan = {} /\ Goto(q, "dispatch")
        BY <1>2, <2>2, <2>4, <3>2 DEF QueuePoints, Give
      <3> QED BY <1>4, <2>1, <2>2, <2>4, <3>1, <3>2 DEF QueuePoints
    <2> QED BY <1>6, <2>3, <2>4 DEF SelectConsumer
  <1> QED BY <1>3, <1>5, <1>6

\* A scrape goes on to one of the queues it has yet to read, or ends.
ToQueue(s, p) ==
  \/ th[s].pc = p /\ Moves(s, "queue") /\ th'[s].q \in Queues
  \/ GoesTo(s, p, "collected")

LEMMA NextQueueGoes ==
  ASSUME TypeOK, NEW s \in Scrapers, NEW S \in SUBSET Queues, NEW p, th[s].pc = p,
         NextQueue(s, S)
  PROVE  ToQueue(s, p)
  <1>1. s \in Goroutines /\ {"queue", "collected"} \subseteq Points
    BY KindsDiffer, PointsKnown DEF ScrapePoints
  <1>2. \A q \in S : GotoFor(s, "queue", q) => Moves(s, "queue") /\ th'[s].q \in Queues
    BY <1>1, GotoForMoves
  <1>3. Goto(s, "collected") => GoesTo(s, p, "collected")
    BY <1>1, GotoMoves DEF GoesTo
  <1> QED BY <1>2, <1>3 DEF NextQueue, ToQueue

LEMMA ScrapeGoes ==
  ASSUME TypeOK, Works, NEW s \in Scrapers
  PROVE  /\ Scrape(s) => \E p \in {"idle", "refused"} : GoesTo(s, p, "connections")
         /\ CollectConnections(s) => GoesTo(s, "connections", "queues")
         /\ CollectBroker(s) => ToQueue(s, "queues")
         /\ CollectQueue(s) =>
              /\ th[s].q \in Queues
              /\ \/ LooksAt(s, "queue", "consumer", consumers[th[s].q])
                 \/ GoesTo(s, "queue", "queueRead")
         /\ CollectConsumer(s) =>
              \/ LooksAt(s, "consumer", "consumer", th[s].scan)
              \/ GoesTo(s, "consumer", "queueRead")
         /\ CollectedQueue(s) => ToQueue(s, "queueRead")
         /\ Collected(s) => \E p \in {"idle", "refused"} : GoesTo(s, "collected", p)
  <1>1. s \in Goroutines /\ ScrapePoints \subseteq Points
    BY KindsDiffer, PointsKnown
  <1>2. \A p, r \in ScrapePoints : At(s, p) /\ Goto(s, r) => GoesTo(s, p, r)
    BY <1>1, GotoMoves DEF At, GoesTo
  <1>3. /\ Scrape(s) => \E p \in {"idle", "refused"} : GoesTo(s, p, "connections")
        /\ CollectConnections(s) => GoesTo(s, "connections", "queues")
        /\ Collected(s) => \E p \in {"idle", "refused"} : GoesTo(s, "collected", p)
    BY <1>2 DEF Scrape, CollectConnections, Collected, ScrapePoints
  <1>4. \A S \in SUBSET Conns, p \in ScrapePoints :
          At(s, p) /\ Visit(s, S, "consumer", "queueRead") =>
            LooksAt(s, p, "consumer", S) \/ GoesTo(s, p, "queueRead")
    BY <1>1, <1>2, VisitMoves DEF At, LooksAt, ScrapePoints
  <1>5. ASSUME CollectQueue(s)
        PROVE  /\ th[s].q \in Queues
               /\ \/ LooksAt(s, "queue", "consumer", consumers[th[s].q])
                  \/ GoesTo(s, "queue", "queueRead")
    <2>1. At(s, "queue") /\ Visit(s, consumers[th[s].q], "consumer", "queueRead")
      BY <1>5 DEF CollectQueue
    <2>2. th[s].q \in Queues
      BY <2>1 DEF At, Works
    <2>3. consumers[th[s].q] \in SUBSET Conns
      BY <2>2 DEF TypeOK
    <2> QED BY <1>4, <2>1, <2>2, <2>3 DEF ScrapePoints
  <1>6. CollectConsumer(s) => \/ LooksAt(s, "consumer", "consumer", th[s].scan)
                              \/ GoesTo(s, "consumer", "queueRead")
    <2>1. th[s].scan \in SUBSET Conns
      BY <1>1, ThreadShape
    <2> QED BY <1>4, <2>1 DEF CollectConsumer, ScrapePoints
  <1>7. /\ CollectBroker(s) => ToQueue(s, "queues")
        /\ CollectedQueue(s) => ToQueue(s, "queueRead")
    <2>1. declared \in SUBSET Queues /\ scrape[s].todo \in SUBSET Queues
      BY DEF TypeOK
    <2> QED BY <2>1, NextQueueGoes DEF CollectBroker, CollectedQueue, At
  <1> QED BY <1>3, <1>5, <1>6, <1>7

-----------------------------------------------------------------------------
(* What the goroutines work on stays what their place says.                 *)

LEMMA WorksStep ==
  ASSUME TypeOK, Works, Registration, Next
  PROVE  Works'
  <1>1. ASSUME NEW c \in Conns, HandleConnection(c) \/ Request(c)
        PROVE  Works'
    <2>0. /\ th[c].pc \in OnQueue => th[c].q \in Queues
          /\ th[c].pc \in {"ackFind", "ackScan", "nack", "unregister", "return"} =>
               th[c].k \in Conns
      BY DEF Works
    <2>1. ASSUME declared' = declared, NEW p \in ConnPoints, NEW r \in ConnPoints,
                 GoesTo(c, p, r), r \notin OnQueue \/ p \in OnQueue,
                 r \in {"serve", "enqueue", "register", "ackLookup", "ack", "requeue",
                        "accepted", "cleanup", "gone", "registered", "unregistered", "untrack",
                        "closing"} \/ p = "unregister"
          PROVE  Works'
      <3>1. /\ th'[c].q = IF r = "serve" THEN None ELSE th[c].q
            /\ th'[c].k = IF r = "serve" THEN None ELSE th[c].k
            /\ th[c].pc = p /\ Moves(c, r)
        BY <2>1 DEF GoesTo, ConnPoints
      <3>2. r \in OnQueue => th'[c].q \in Queues
        BY <2>0, <2>1, <3>1 DEF OnQueue
      <3>3. r \in {"ackFind", "ackScan", "nack", "unregister", "return"} => th'[c].k \in Conns
        BY <2>0, <2>1, <3>1
      <3> QED BY <2>1, <3>1, <3>2, <3>3, ConnWorks
    <2>2. CASE Track(c) \/ Accepted(c) \/ Closing(c) \/ Untrack(c)
      BY <2>1, <2>2, ConnGoes
         DEF Track, Accepted, Closing, Untrack, stateVars, ConnPoints, OnQueue
    <2>3. CASE PublishLookup(c) \/ Enqueue(c) \/ ConsumeLookup(c)
      BY <2>1, <2>3, ConnGoes
         DEF PublishLookup, Enqueue, ConsumeLookup, stateVars, ConnPoints, OnQueue
    <2>4. CASE Register(c) \/ Registered(c) \/ AckFind(c) \/ AckLookup(c)
      BY <2>1, <2>4, ConnGoes
         DEF Register, Registered, AckFind, AckLookup, stateVars, ConnPoints, OnQueue
    <2>5. CASE Unregister(c) \/ Return(c) \/ Unregistered(c)
      BY <2>1, <2>5, ConnGoes
         DEF Unregister, Return, Unregistered, stateVars, ConnPoints, OnQueue
    <2>6. CASE Request(c)
      <3>1. declared' = declared
        BY <2>6 DEF Request, stateVars
      <3>2. ASSUME NEW q \in Queues, NEW p \in {"declare", "publish", "consume"},
                   Moves(c, p), th'[c].q = q
            PROVE  Works'
        <4>1. p \in ConnPoints /\ th'[c].q \in Queues /\ p \notin {"ackFind", "ackScan", "nack", "unregister", "return"}
          BY <3>2 DEF ConnPoints
        <4> QED BY <3>1, <3>2, <4>1, ConnWorks
      <3>3. ASSUME NEW p \in {"ackFind", "nack"}, Moves(c, p), th'[c].q = on[c],
                   th'[c].k = c, on[c] \in Queues
            PROVE  Works'
        <4>1. p \in ConnPoints /\ th'[c].q \in Queues /\ th'[c].k \in Conns
          BY <3>3 DEF ConnPoints
        <4> QED BY <3>1, <3>3, <4>1, ConnWorks
      <3>4. CASE GoesTo(c, "serve", "closing")
        BY <2>1, <3>1, <3>4 DEF ConnPoints, OnQueue
      <3> QED BY <2>6, <3>2, <3>3, <3>4, RequestGoes
    <2>7. CASE Cleanup(c)
      <3>1. declared' = declared
        BY <2>7 DEF Cleanup, stateVars
      <3>2. ASSUME Moves(c, "unregister"), th'[c].q = on[c], th'[c].k = c, on[c] \in Queues
            PROVE  Works'
        <4>1. "unregister" \in ConnPoints /\ th'[c].q \in Queues /\ th'[c].k \in Conns
          BY <3>2 DEF ConnPoints
        <4> QED BY <3>1, <3>2, <4>1, ConnWorks
      <3>3. CASE GoesTo(c, "cleanup", "untrack")
        BY <2>1, <3>1, <3>3 DEF ConnPoints, OnQueue
      <3> QED BY <2>7, <3>2, <3>3, CleanupGoes
    <2>8. ASSUME NEW S \in SUBSET Conns, NEW p \in {"ack", "ackScan"},
                 LooksAt(c, p, "ackScan", S), declared' = declared
          PROVE  Works'
      <3>1. th[c].pc = p /\ th'[c].q = th[c].q /\ th'[c].k \in Conns /\ Moves(c, "ackScan")
        BY <2>8 DEF LooksAt
      <3>2. "ackScan" \in ConnPoints /\ th'[c].q \in Queues
        BY <2>0, <3>1 DEF ConnPoints, OnQueue
      <3> QED BY <2>8, <3>1, <3>2, ConnWorks
    <2>9. CASE AckLock(c)
      <3>1. declared' = declared
        BY <2>9 DEF AckLock, stateVars
      <3>2. th[c].q \in Queues /\ LooksAt(c, "ack", "ackScan", consumers[th[c].q])
        BY <2>9, AckLockGoes
      <3>3. consumers[th[c].q] \in SUBSET Conns
        BY <3>2 DEF TypeOK
      <3> QED BY <2>8, <3>1, <3>2, <3>3
    <2>10. CASE AckScan(c)
      <3>1. declared' = declared
        BY <2>10 DEF AckScan
      <3>2. th[c].scan \in SUBSET Conns
        BY KindsDiffer, ThreadShape
      <3>3. CASE GoesTo(c, "ackScan", "serve")
        BY <2>1, <3>1, <3>3 DEF ConnPoints, OnQueue
      <3>4. CASE LooksAt(c, "ackScan", "ackScan", th[c].scan)
        BY <2>8, <3>1, <3>2, <3>4
      <3> QED BY <2>10, <3>3, <3>4, AckScanGoes
    <2>11. CASE Nack(c)
      <3>1. declared' = declared
        BY <2>11 DEF Nack
      <3>2. ASSUME NEW p \in {"requeue", "serve"}, GoesTo(c, "nack", p)
            PROVE  Works'
        BY <2>1, <3>1, <3>2 DEF ConnPoints, OnQueue
      <3>3. CASE Moves(c, "publish") /\ th'[c].q \in Queues
        <4>1. "publish" \in ConnPoints
          BY DEF ConnPoints
        <4> QED BY <3>1, <3>3, <4>1, ConnWorks
      <3> QED BY <2>11, <3>2, <3>3, NackGoes
    <2>12. CASE DeclareQueue(c)
      <3> DEFINE q == th[c].q
      <3>1. /\ q \in Queues /\ th'[c].pc = "serve"
            /\ \A t \in Goroutines \ {c} : th'[t].q = th[t].q /\ th'[t].k = th[t].k
            /\ th'[q].pc = IF q \in declared THEN th[q].pc ELSE "dispatch"
            /\ \A t \in Goroutines \ {c, q} : th'[t] = th[t]
        BY <2>12, DeclareMoves
      <3>2. declared' = declared \union {q}
        BY <2>12 DEF DeclareQueue
      <3> HIDE DEF q
      <3>3. \A d \in Conns \ {c} : th'[d] = th[d]
        BY <3>1, KindsDiffer
      <3>4. \A s \in Scrapers : th'[s] = th[s]
        BY <3>1, KindsDiffer
      <3>5. \A x \in Queues : /\ th'[x].q = th[x].q /\ th'[x].k = th[x].k
                              /\ x # q => th'[x] = th[x]
        BY <3>1, KindsDiffer
      <3>6. \A x \in Queues : /\ th'[x].pc \in QueuePoints
                              /\ th'[x].pc \in {"select", "book"} \union Out => th'[x].k \in Conns
                              /\ x \notin declared' => th'[x].pc = "off"
        BY <3>1, <3>2, <3>5, SMT DEF Works, QueuePoints, Out
      <3>7. "serve" \in ConnPoints \ OnQueue
        BY DEF ConnPoints, OnQueue
      <3> QED BY <3>1, <3>3, <3>4, <3>5, <3>6, <3>7, SMT DEF Works
    <2> QED BY <1>1, <2>2, <2>3, <2>4, <2>5, <2>6, <2>7, <2>9, <2>10, <2>11, <2>12
            DEF HandleConnection, Handler
  <1>2. ASSUME NEW q \in Queues, DispatchLoop(q) \/ Written(q)
        PROVE  Works'
    <2>0. /\ th[q].q = q
          /\ th[q].pc \in {"select", "book"} \union Out => th[q].k \in Conns
          /\ q \notin declared => th[q].pc = "off"
      BY DEF Works
    <2>1. declared' = declared
      BY <1>2 DEF DispatchLoop, Dispatch, SelectConsumer, Book, Failed, Revert, Written, stateVars
    <2>2. ASSUME NEW p \in {"select", "book"} \union Out, NEW r \in QueuePoints, GoesTo(q, p, r)
          PROVE  Works'
      <3>1. /\ th[q].pc = p /\ Moves(q, r) /\ th'[q].q = q
            /\ r # "dispatch" => th'[q].k = th[q].k
        BY <2>0, <2>2 DEF GoesTo, QueuePoints
      <3>2. q \in declared /\ (r \in {"select", "book"} \union Out => th'[q].k \in Conns)
        BY <2>0, <3>1 DEF Out
      <3> QED BY <2>1, <3>1, <3>2, QueueWorks
    <2>3. ASSUME NEW p \in {"dispatch", "select"}, NEW S \in SUBSET Conns,
                 LooksAt(q, p, "select", S)
          PROVE  Works'
      <3>1. th[q].pc = p /\ Moves(q, "select") /\ th'[q].q = q /\ th'[q].k \in Conns
        BY <2>0, <2>3 DEF LooksAt
      <3>2. q \in declared /\ "select" \in QueuePoints
        BY <2>0, <3>1 DEF QueuePoints
      <3> QED BY <2>1, <3>1, <3>2, QueueWorks
    <2>4. CASE Dispatch(q)
      <3>1. consumers[q] \in SUBSET Conns
        BY DEF TypeOK
      <3> QED BY <2>3, <2>4, <3>1, QueueGoes
    <2>5. CASE SelectConsumer(q)
      <3>1. th[q].scan \in SUBSET Conns
        BY KindsDiffer, ThreadShape
      <3> QED BY <2>2, <2>3, <2>5, <3>1, QueueGoes DEF QueuePoints
    <2>6. CASE Book(q) \/ Failed(q) \/ Revert(q)
      BY <2>2, <2>6, QueueGoes DEF QueuePoints, Out
    <2>7. CASE Written(q)
      BY <2>2, <2>7, QueueGoes DEF QueuePoints, Out
    <2> QED BY <1>2, <2>4, <2>5, <2>6, <2>7 DEF DispatchLoop
  <1>3. ASSUME NEW s \in Scrapers, Collect(s) \/ Scrape(s)
        PROVE  Works'
    <2>0. th[s].pc \in {"queue", "consumer", "queueRead"} => th[s].q \in Queues
      BY DEF Works
    <2>1. declared' = declared
      BY <1>3 DEF Collect, CollectConnections, CollectBroker, CollectQueue, CollectConsumer,
                  CollectedQueue, Collected, Scrape, stateVars
    <2>2. ASSUME NEW p \in {"idle", "refused", "connections", "collected"}, NEW r \in ScrapePoints,
                 GoesTo(s, p, r), r \in {"idle", "refused", "connections", "queues"}
          PROVE  Works'
      BY <2>1, <2>2, ScrapeWorks DEF GoesTo
    <2>3. ASSUME NEW p, ToQueue(s, p)
          PROVE  Works'
      <3>1. {"queue", "collected"} \subseteq ScrapePoints
        BY DEF ScrapePoints
      <3> QED BY <2>1, <2>3, <3>1, ScrapeWorks DEF ToQueue, GoesTo
    <2>4. ASSUME NEW p \in {"queue", "consumer"}, NEW S \in SUBSET Conns,
                 LooksAt(s, p, "consumer", S)
          PROVE  Works'
      <3>1. "consumer" \in ScrapePoints
        BY DEF ScrapePoints
      <3> QED BY <2>0, <2>1, <2>4, <3>1, ScrapeWorks DEF LooksAt
    <2>5. ASSUME NEW p \in {"queue", "consumer"}, GoesTo(s, p, "queueRead")
          PROVE  Works'
      <3>1. "queueRead" \in ScrapePoints
        BY DEF ScrapePoints
      <3> QED BY <2>0, <2>1, <2>5, <3>1, ScrapeWorks DEF GoesTo
    <2>6. CASE Scrape(s) \/ CollectConnections(s) \/ Collected(s)
      BY <2>2, <2>6, ScrapeGoes DEF ScrapePoints
    <2>7. CASE CollectBroker(s) \/ CollectedQueue(s)
      BY <2>3, <2>7, ScrapeGoes
    <2>8. CASE CollectQueue(s)
      <3>1. \A q \in Queues : consumers[q] \in SUBSET Conns
        BY DEF TypeOK
      <3> QED BY <2>4, <2>5, <2>8, <3>1, ScrapeGoes
    <2>9. CASE CollectConsumer(s)
      <3>1. th[s].scan \in SUBSET Conns
        BY KindsDiffer, ThreadShape
      <3> QED BY <2>4, <2>5, <2>9, <3>1, ScrapeGoes
    <2> QED BY <1>3, <2>6, <2>7, <2>8, <2>9 DEF Collect
  <1> QED BY <1>1, <1>2, <1>3 DEF Next

-----------------------------------------------------------------------------
(* The lists of consumers.                                                  *)

LEMMA ConnKeepsRegistration ==
  ASSUME TypeOK, Registration, NEW c \in Conns, NEW p, Moves(c, p), UNCHANGED <<consumers, on>>,
         on[c] # None => (p \in Left <=> th[c].pc \in Left),
         p \in {"track", "accepted", "consume", "register"} => on[c] = None,
         p \in OnOwnQueue => th'[c].q = on[c],
         p \in {"registered", "unregistered"} => on[c] # None
  PROVE  Registration'
  <1>1. \A d \in Conns : d # c => th'[d] = th[d]
    BY KindsDiffer DEF Moves
  <1>2. th'[c].pc = p
    BY DEF Moves
  <1>3. \A q \in Queues : q # None
    BY CollectorAssumption
  <1>4. \A d \in Conns, q \in Queues :
          d \in consumers'[q] <=> on'[d] = q /\ th'[d].pc \notin Left
    BY <1>1, <1>2, <1>3, SMT DEF Registration
  <1> QED BY <1>1, <1>2, <1>4, SMT DEF Registration

LEMMA OthersKeepRegistration ==
  ASSUME Registration, NEW t \in Queues \union Scrapers, NEW p, Moves(t, p),
         UNCHANGED <<consumers, on>>
  PROVE  Registration'
  <1>1. \A d \in Conns : th'[d] = th[d]
    BY KindsDiffer DEF Moves
  <1> QED BY <1>1 DEF Registration

LEMMA RegistrationStep ==
  ASSUME TypeOK, Works, Registration, Next
  PROVE  Registration'
  <1>1. ASSUME NEW c \in Conns, HandleConnection(c) \/ Request(c)
        PROVE  Registration'
    <2>0. /\ th[c].pc \in {"track", "accepted", "consume", "register"} => on[c] = None
          /\ th[c].pc \in OnOwnQueue => th[c].q = on[c]
          /\ th[c].pc \in {"registered", "unregistered"} => on[c] # None
      BY DEF Registration
    <2>1. ASSUME UNCHANGED <<consumers, on>>, NEW p, NEW r, GoesTo(c, p, r),
                 r \notin OnOwnQueue \/ (p \in OnOwnQueue /\ r # "serve"),
                 on[c] # None => (r \in Left <=> p \in Left),
                 r \in {"track", "accepted", "consume", "register"} => p \in {"track", "consume"},
                 r \notin {"registered", "unregistered"}
          PROVE  Registration'
      <3>1. /\ th[c].pc = p /\ Moves(c, r)
            /\ r \in OnOwnQueue => th'[c].q = th[c].q
        BY <2>1 DEF GoesTo, OnOwnQueue
      <3> QED BY <2>0, <2>1, <3>1, ConnKeepsRegistration
    <2>2. CASE Track(c) \/ Accepted(c) \/ Closing(c) \/ Untrack(c)
      <3>1. UNCHANGED <<consumers, on>>
        BY <2>2 DEF Track, Accepted, Closing, Untrack, stateVars
      <3> QED BY <2>1, <2>2, <3>1, ConnGoes DEF OnOwnQueue, Left
    <2>3. CASE PublishLookup(c) \/ Enqueue(c) \/ ConsumeLookup(c)
      <3>1. UNCHANGED <<consumers, on>>
        BY <2>3 DEF PublishLookup, Enqueue, ConsumeLookup, stateVars
      <3> QED BY <2>1, <2>3, <3>1, ConnGoes DEF OnOwnQueue, Left
    <2>4. CASE Registered(c) \/ AckFind(c) \/ AckLookup(c)
      <3>1. UNCHANGED <<consumers, on>>
        BY <2>4 DEF Registered, AckFind, AckLookup, stateVars
      <3> QED BY <2>1, <2>4, <3>1, ConnGoes DEF OnOwnQueue, Left
    <2>5. CASE Unregister(c) \/ Unregistered(c)
      <3>1. UNCHANGED <<consumers, on>>
        BY <2>5 DEF Unregister, Unregistered, stateVars
      <3> QED BY <2>1, <2>5, <3>1, ConnGoes DEF OnOwnQueue, Left
    <2>6. CASE Request(c)
      <3>1. UNCHANGED <<consumers, on>>
        BY <2>6 DEF Request, stateVars
      <3>2. ASSUME NEW p \in {"declare", "publish", "consume"}, Moves(c, p),
                   th[c].pc = "serve", p = "consume" => on[c] = None
            PROVE  Registration'
        <4>1. p \notin Left /\ "serve" \notin Left /\ p \notin OnOwnQueue
          BY <3>2 DEF Left, OnOwnQueue
        <4> QED BY <3>1, <3>2, <4>1, ConnKeepsRegistration
      <3>3. ASSUME NEW p \in {"ackFind", "nack"}, Moves(c, p), th[c].pc = "serve",
                   th'[c].q = on[c]
            PROVE  Registration'
        <4>1. p \notin Left /\ "serve" \notin Left
          BY <3>3 DEF Left
        <4> QED BY <3>1, <3>3, <4>1, ConnKeepsRegistration
      <3>4. CASE GoesTo(c, "serve", "closing")
        BY <2>1, <3>1, <3>4 DEF OnOwnQueue, Left
      <3> QED BY <2>6, <3>2, <3>3, <3>4, RequestGoes
    <2>7. CASE Cleanup(c)
      <3>1. UNCHANGED <<consumers, on>>
        BY <2>7 DEF Cleanup, stateVars
      <3>2. ASSUME Moves(c, "unregister"), th[c].pc = "cleanup", th'[c].q = on[c]
            PROVE  Registration'
        <4>1. "unregister" \notin Left /\ "cleanup" \notin Left
          BY DEF Left
        <4> QED BY <3>1, <3>2, <4>1, ConnKeepsRegistration
      <3>3. CASE on[c] = None /\ GoesTo(c, "cleanup", "untrack")
        BY <2>1, <3>1, <3>3 DEF OnOwnQueue
      <3> QED BY <2>7, <3>2, <3>3, CleanupGoes
    <2>8. ASSUME NEW S, NEW p \in {"ack", "ackScan"}, LooksAt(c, p, "ackScan", S),
                 UNCHANGED <<consumers, on>>
          PROVE  Registration'
      <3>1. th[c].pc = p /\ th'[c].q = th[c].q /\ Moves(c, "ackScan")
        BY <2>8 DEF LooksAt
      <3>2. p \in OnOwnQueue /\ p \notin Left /\ "ackScan" \notin Left
        BY <2>8 DEF OnOwnQueue, Left
      <3> QED BY <2>0, <2>8, <3>1, <3>2, ConnKeepsRegistration
    <2>9. CASE AckLock(c)
      <3>1. UNCHANGED <<consumers, on>>
        BY <2>9 DEF AckLock, stateVars
      <3> QED BY <2>8, <2>9, <3>1, AckLockGoes
    <2>10. CASE AckScan(c)
      <3>1. UNCHANGED <<consumers, on>>
        BY <2>10 DEF AckScan
      <3>2. CASE GoesTo(c, "ackScan", "serve")
        BY <2>1, <3>1, <3>2 DEF OnOwnQueue, Left
      <3> QED BY <2>8, <2>10, <3>1, <3>2, AckScanGoes
    <2>11. CASE Nack(c)
      <3>1. UNCHANGED <<consumers, on>>
        BY <2>11 DEF Nack
      <3>2. ASSUME NEW p \in {"requeue", "serve"}, GoesTo(c, "nack", p)
            PROVE  Registration'
        BY <2>1, <3>1, <3>2 DEF OnOwnQueue, Left
      <3>3. CASE th[c].pc = "nack" /\ Moves(c, "publish")
        <4>1. "publish" \notin Left /\ "nack" \notin Left /\ "publish" \notin OnOwnQueue
          BY DEF Left, OnOwnQueue
        <4> QED BY <3>1, <3>3, <4>1, ConnKeepsRegistration
      <3> QED BY <2>11, <3>2, <3>3, NackGoes
    <2>12. CASE DeclareQueue(c)
      <3>1. th[c].pc = "declare" /\ th'[c].pc = "serve"
        BY <2>12, DeclareMoves
      <3>2. \A d \in Conns \ {c} : th'[d] = th[d]
        BY <2>12, DeclareMoves, KindsDiffer, SMT
      <3>3. UNCHANGED <<consumers, on>>
        BY <2>12 DEF DeclareQueue
      <3>4. \A d \in Conns, q \in Queues :
              d \in consumers'[q] <=> on'[d] = q /\ th'[d].pc \notin Left
        BY <3>1, <3>2, <3>3, SMT DEF Registration, Left
      <3> QED BY <3>1, <3>2, <3>3, <3>4, SMT DEF Registration, OnOwnQueue
    <2>13. CASE Register(c)
      <3>1. GoesTo(c, "register", "registered")
        BY <2>13, ConnGoes
      <3>2. th[c].pc = "register" /\ th'[c].pc = "registered"
        BY <3>1 DEF GoesTo, Moves
      <3>3. \A d \in Conns : d # c => th'[d] = th[d]
        BY <3>1, KindsDiffer DEF GoesTo, Moves
      <3>4. th[c].q \in Queues /\ on[c] = None
        BY <2>0, <3>2 DEF Works, OnQueue
      <3>5. /\ consumers' = [consumers EXCEPT ![th[c].q] = @ \union {c}]
            /\ on' = [on EXCEPT ![c] = th[c].q]
        BY <2>13 DEF Register
      <3>6. /\ \A q \in Queues : consumers'[q] = IF q = th[c].q THEN consumers[q] \union {c}
                                                 ELSE consumers[q]
            /\ \A d \in Conns : on'[d] = IF d = c THEN th[c].q ELSE on[d]
        <4>1. consumers \in [Queues -> SUBSET Conns] /\ on \in [Conns -> Queues \union {None}]
          BY DEF TypeOK
        <4> QED BY <3>4, <3>5, <4>1
      <3>7. \A q \in Queues : c \notin consumers[q] /\ q # None
        BY <3>4, CollectorAssumption DEF Registration
      <3>8. \A d \in Conns, q \in Queues :
              d \in consumers'[q] <=> on'[d] = q /\ th'[d].pc \notin Left
        <4>1. th'[c].pc \notin Left
          BY <3>2 DEF Left
        <4>2. \A q \in Queues : c \in consumers'[q] <=> on'[c] = q
          BY <3>6, <3>7
        <4>3. \A d \in Conns \ {c}, q \in Queues :
                (d \in consumers'[q] <=> d \in consumers[q]) /\ on'[d] = on[d] /\ th'[d] = th[d]
          BY <3>3, <3>6
        <4>4. \A d \in Conns \ {c}, q \in Queues :
                d \in consumers'[q] <=> on'[d] = q /\ th'[d].pc \notin Left
          BY <4>3, SMT DEF Registration
        <4> QED BY <4>1, <4>2, <4>4, SMT
      <3>9. on'[c] # None
        BY <3>4, <3>6, <3>7
      <3> QED BY <3>2, <3>3, <3>6, <3>8, <3>9, SMT DEF Registration, OnOwnQueue
    <2>14. CASE Return(c)
      <3>1. GoesTo(c, "return", "unregistered")
        BY <2>14, ConnGoes
      <3>2. th[c].pc = "return" /\ th'[c].pc = "unregistered"
        BY <3>1 DEF GoesTo, Moves
      <3>3. \A d \in Conns : d # c => th'[d] = th[d]
        BY <3>1, KindsDiffer DEF GoesTo, Moves
      <3>4. th[c].q \in Queues /\ on[c] = th[c].q
        BY <2>0, <3>2 DEF Works, OnQueue, OnOwnQueue
      <3>5. consumers' = [consumers EXCEPT ![th[c].q] = @ \ {c}] /\ on' = on
        BY <2>14 DEF Return
      <3>6. \A q \in Queues : consumers'[q] = IF q = th[c].q THEN consumers[q] \ {c}
                                              ELSE consumers[q]
        <4>1. consumers \in [Queues -> SUBSET Conns]
          BY DEF TypeOK
        <4> QED BY <3>4, <3>5, <4>1
      <3>7. \A d \in Conns, q \in Queues :
              d \in consumers'[q] <=> on'[d] = q /\ th'[d].pc \notin Left
        <4>1. th'[c].pc \in Left
          BY <3>2 DEF Left
        <4>2. \A q \in Queues : c \notin consumers'[q]
          <5>1. \A q \in Queues : c \in consumers[q] => q = th[c].q
            BY <3>4 DEF Registration
          <5> QED BY <3>4, <3>6, <5>1
        <4>3. \A d \in Conns \ {c}, q \in Queues :
                (d \in consumers'[q] <=> d \in consumers[q]) /\ on'[d] = on[d] /\ th'[d] = th[d]
          BY <3>3, <3>5, <3>6, SMT
        <4>4. \A d \in Conns \ {c}, q \in Queues :
                d \in consumers'[q] <=> on'[d] = q /\ th'[d].pc \notin Left
          BY <4>3, SMT DEF Registration
        <4> QED BY <4>1, <4>2, <4>4, SMT
      <3>8. on'[c] # None
        BY <3>4, <3>5, CollectorAssumption
      <3> QED BY <3>2, <3>3, <3>5, <3>7, <3>8, SMT DEF Registration, OnOwnQueue
    <2> QED BY <1>1, <2>2, <2>3, <2>4, <2>5, <2>6, <2>7, <2>9, <2>10, <2>11, <2>12, <2>13, <2>14
            DEF HandleConnection, Handler
  <1>2. ASSUME NEW q \in Queues, DispatchLoop(q) \/ Written(q)
        PROVE  Registration'
    <2>1. UNCHANGED <<consumers, on>>
      BY <1>2 DEF DispatchLoop, Dispatch, SelectConsumer, Book, Failed, Revert, Written, stateVars
    <2>2. \E p : Moves(q, p)
      BY <1>2, QueueGoes DEF DispatchLoop, GoesTo, LooksAt
    <2> QED BY <2>1, <2>2, OthersKeepRegistration
  <1>3. ASSUME NEW s \in Scrapers, Collect(s) \/ Scrape(s)
        PROVE  Registration'
    <2>1. UNCHANGED <<consumers, on>>
      BY <1>3 DEF Collect, CollectConnections, CollectBroker, CollectQueue, CollectConsumer,
                  CollectedQueue, Collected, Scrape, stateVars
    <2>2. \E p : Moves(s, p)
      BY <1>3, ScrapeGoes DEF Collect, GoesTo, LooksAt, ToQueue
    <2> QED BY <2>1, <2>2, OthersKeepRegistration
  <1> QED BY <1>1, <1>2, <1>3 DEF Next

-----------------------------------------------------------------------------
(* Who holds which lock.                                                    *)

\* t moves and no lock changes hands.
LEMMA HoldingKept ==
  ASSUME Holding, NEW t \in Goroutines, NEW p, Moves(t, p), owner' = owner,
         p \in HoldsConn <=> th[t].pc \in HoldsConn,
         p \in HoldsBroker <=> th[t].pc \in HoldsBroker,
         p \in HoldsQueue <=> th[t].pc \in HoldsQueue,
         p \in HoldsQueue => th'[t].q = th[t].q
  PROVE  Holding'
  <1>1. th'[t].pc = p /\ \A u \in Goroutines : u # t => th'[u] = th[u]
    BY DEF Moves
  <1>2. \A c \in Conns : owner'[ConnMu(c)] = IF th'[c].pc \in HoldsConn THEN c ELSE None
    BY <1>1, KindsDiffer DEF Holding
  <1>3. \A u \in Goroutines : owner'[BrokerMu] = u <=> th'[u].pc \in HoldsBroker
    BY <1>1 DEF Holding
  <1>4. \A q \in Queues, u \in Goroutines :
          owner'[QueueMu(q)] = u <=> th'[u].pc \in HoldsQueue /\ th'[u].q = q
    BY <1>1, SMT DEF Holding
  <1> QED BY <1>2, <1>3, <1>4 DEF Holding

\* t locks the mutex of q, which is free.
LEMMA HoldingTakesQueue ==
  ASSUME TypeOK, Holding, NEW t \in Goroutines, NEW p, Moves(t, p), NEW q \in Queues,
         Take(t, QueueMu(q)), owner[QueueMu(q)] = None,
         p \in HoldsConn <=> th[t].pc \in HoldsConn,
         p \in HoldsBroker <=> th[t].pc \in HoldsBroker,
         th[t].pc \notin HoldsQueue, p \in HoldsQueue, th'[t].q = q
  PROVE  Holding'
  <1>1. th'[t].pc = p /\ \A u \in Goroutines : u # t => th'[u] = th[u]
    BY DEF Moves
  <1>2. \A l \in Locks : owner'[l] = IF l = QueueMu(q) THEN t ELSE owner[l]
    <2>1. owner \in [Locks -> Goroutines \union {None}] /\ QueueMu(q) \in Locks
      BY LocksDiffer DEF TypeOK
    <2> QED BY <2>1 DEF Take
  <1>3. /\ owner'[ServerMu] = None
        /\ \A k \in Conns : owner'[ConsumerMu(k)] = None
    <2>1. owner'[ServerMu] = owner[ServerMu]
      BY <1>2, LocksDiffer
    <2>2. \A k \in Conns : owner'[ConsumerMu(k)] = owner[ConsumerMu(k)]
      BY <1>2, LocksDiffer
    <2> QED BY <2>1, <2>2 DEF Holding
  <1>4. \A c \in Conns : owner'[ConnMu(c)] = IF th'[c].pc \in HoldsConn THEN c ELSE None
    <2>1. \A c \in Conns : owner'[ConnMu(c)] = owner[ConnMu(c)]
      BY <1>2, LocksDiffer
    <2> QED BY <1>1, <2>1, KindsDiffer, SMT DEF Holding
  <1>5. \A u \in Goroutines : owner'[BrokerMu] = u <=> th'[u].pc \in HoldsBroker
    <2>1. owner'[BrokerMu] = owner[BrokerMu]
      BY <1>2, LocksDiffer
    <2> QED BY <1>1, <2>1, SMT DEF Holding
  <1>6. ASSUME NEW x \in Queues, NEW u \in Goroutines
        PROVE  owner'[QueueMu(x)] = u <=> th'[u].pc \in HoldsQueue /\ th'[u].q = x
    <2>1. owner'[QueueMu(x)] = IF x = q THEN t ELSE owner[QueueMu(x)]
      BY <1>2, LocksDiffer
    <2>2. owner[QueueMu(x)] = u <=> th[u].pc \in HoldsQueue /\ th[u].q = x
      BY DEF Holding
    <2>3. x = q => owner[QueueMu(x)] # u
      BY KindsDiffer
    <2> QED BY <1>1, <2>1, <2>2, <2>3
  <1> QED BY <1>3, <1>4, <1>5, <1>6 DEF Holding

\* t unlocks the mutex of q.
LEMMA HoldingGivesQueue ==
  ASSUME TypeOK, Holding, NEW t \in Goroutines, NEW p, Moves(t, p), NEW q \in Queues,
         Give(QueueMu(q)), th[t].pc \in HoldsQueue, th[t].q = q,
         p \in HoldsConn <=> th[t].pc \in HoldsConn,
         p \in HoldsBroker <=> th[t].pc \in HoldsBroker,
         p \notin HoldsQueue
  PROVE  Holding'
  <1>1. th'[t].pc = p /\ \A u \in Goroutines : u # t => th'[u] = th[u]
    BY DEF Moves
  <1>2. \A l \in Locks : owner'[l] = IF l = QueueMu(q) THEN None ELSE owner[l]
    <2>1. owner \in [Locks -> Goroutines \union {None}] /\ QueueMu(q) \in Locks
      BY LocksDiffer DEF TypeOK
    <2> QED BY <2>1 DEF Give
  <1>3. /\ owner'[ServerMu] = None
        /\ \A k \in Conns : owner'[ConsumerMu(k)] = None
    <2>1. owner'[ServerMu] = owner[ServerMu]
      BY <1>2, LocksDiffer
    <2>2. \A k \in Conns : owner'[ConsumerMu(k)] = owner[ConsumerMu(k)]
      BY <1>2, LocksDiffer
    <2> QED BY <2>1, <2>2 DEF Holding
  <1>4. \A c \in Conns : owner'[ConnMu(c)] = IF th'[c].pc \in HoldsConn THEN c ELSE None
    <2>1. \A c \in Conns : owner'[ConnMu(c)] = owner[ConnMu(c)]
      BY <1>2, LocksDiffer
    <2> QED BY <1>1, <2>1, KindsDiffer, SMT DEF Holding
  <1>5. \A u \in Goroutines : owner'[BrokerMu] = u <=> th'[u].pc \in HoldsBroker
    <2>1. owner'[BrokerMu] = owner[BrokerMu]
      BY <1>2, LocksDiffer
    <2> QED BY <1>1, <2>1, SMT DEF Holding
  <1>6. ASSUME NEW x \in Queues, NEW u \in Goroutines
        PROVE  owner'[QueueMu(x)] = u <=> th'[u].pc \in HoldsQueue /\ th'[u].q = x
    <2>1. owner'[QueueMu(x)] = IF x = q THEN None ELSE owner[QueueMu(x)]
      BY <1>2, LocksDiffer
    <2>2. /\ owner[QueueMu(x)] = u <=> th[u].pc \in HoldsQueue /\ th[u].q = x
          /\ owner[QueueMu(q)] = t
      BY DEF Holding
    <2>3. u # None
      BY KindsDiffer
    <2> QED BY <1>1, <2>1, <2>2, <2>3
  <1> QED BY <1>3, <1>4, <1>5, <1>6 DEF Holding

\* A step in which t neither takes nor gives a lock, between points where it
\* holds the same.
LEMMA GoesKeepsHolding ==
  ASSUME Holding, NEW t \in Goroutines, NEW p, NEW r, GoesTo(t, p, r), owner' = owner,
         r \in HoldsConn <=> p \in HoldsConn, r \in HoldsBroker <=> p \in HoldsBroker,
         p \notin HoldsQueue /\ r \notin HoldsQueue
  PROVE  Holding'
  BY HoldingKept DEF GoesTo

LEMMA HoldingStep ==
  ASSUME TypeOK, Works, Registration, Holding, Next
  PROVE  Holding'
  <1>1. ASSUME NEW c \in Conns, HandleConnection(c) \/ Request(c)
        PROVE  Holding'
    <2>0. c \in Goroutines
      BY KindsDiffer
    <2>1. CASE Track(c) \/ Accepted(c) \/ Closing(c) \/ Untrack(c)
      <3>1. owner' = owner
        BY <2>1 DEF Track, Accepted, Closing, Untrack
      <3> QED BY <2>0, <2>1, <3>1, ConnGoes, GoesKeepsHolding, SMT
              DEF HoldsConn, HoldsBroker, HoldsQueue
    <2>2. CASE PublishLookup(c) \/ Enqueue(c) \/ ConsumeLookup(c)
      <3>1. owner' = owner
        BY <2>2 DEF PublishLookup, Enqueue, ConsumeLookup
      <3> QED BY <2>0, <2>2, <3>1, ConnGoes, GoesKeepsHolding, SMT
              DEF HoldsConn, HoldsBroker, HoldsQueue
    <2>3. CASE Register(c) \/ Registered(c) \/ AckFind(c) \/ AckLookup(c)
      <3>1. owner' = owner
        BY <2>3 DEF Register, Registered, AckFind, AckLookup
      <3> QED BY <2>0, <2>3, <3>1, ConnGoes, GoesKeepsHolding, SMT
              DEF HoldsConn, HoldsBroker, HoldsQueue
    <2>4. CASE Request(c)
      <3>1. owner' = owner
        BY <2>4 DEF Request
      <3>2. ASSUME NEW p \in {"declare", "publish", "consume", "ackFind", "nack"},
                   th[c].pc = "serve", Moves(c, p)
            PROVE  Holding'
        <4>1. /\ {p, "serve"} \intersect HoldsConn = {} /\ {p, "serve"} \intersect HoldsBroker = {}
              /\ {p, "serve"} \intersect HoldsQueue = {}
          BY <3>2 DEF HoldsConn, HoldsBroker, HoldsQueue
        <4> QED BY <2>0, <3>1, <3>2, <4>1, HoldingKept
      <3>3. CASE GoesTo(c, "serve", "closing")
        BY <2>0, <3>1, <3>3, GoesKeepsHolding DEF HoldsConn, HoldsBroker, HoldsQueue
      <3> QED BY <2>4, <3>2, <3>3, RequestGoes
    <2>5. CASE Nack(c)
      <3>1. owner' = owner
        BY <2>5 DEF Nack
      <3>2. ASSUME NEW p \in {"requeue", "serve"}, GoesTo(c, "nack", p)
            PROVE  Holding'
        BY <2>0, <3>1, <3>2, GoesKeepsHolding DEF HoldsConn, HoldsBroker, HoldsQueue
      <3>3. CASE th[c].pc = "nack" /\ Moves(c, "publish")
        <4>1. /\ {"nack", "publish"} \intersect HoldsConn = {}
              /\ {"nack", "publish"} \intersect HoldsBroker = {}
              /\ {"nack", "publish"} \intersect HoldsQueue = {}
          BY DEF HoldsConn, HoldsBroker, HoldsQueue
        <4> QED BY <2>0, <3>1, <3>3, <4>1, HoldingKept
      <3> QED BY <2>5, <3>2, <3>3, NackGoes
    <2>6. CASE DeclareQueue(c)
      <3> DEFINE q == th[c].q
      <3>1. /\ th[c].pc = "declare" /\ q \in Queues /\ th'[c].pc = "serve"
            /\ \A t \in Goroutines \ {c} : th'[t].q = th[t].q
            /\ th'[q].pc = IF q \in declared THEN th[q].pc ELSE "dispatch"
            /\ \A t \in Goroutines \ {c, q} : th'[t] = th[t]
        BY <2>6, DeclareMoves
      <3>2. owner' = owner
        BY <2>6 DEF DeclareQueue
      <3>3. q \notin declared => th[q].pc = "off"
        BY <3>1 DEF Works
      <3> HIDE DEF q
      <3>4. /\ {"declare", "serve", "off", "dispatch"} \intersect HoldsConn = {}
            /\ {"declare", "serve", "off", "dispatch"} \intersect HoldsBroker = {}
            /\ {"declare", "serve", "off", "dispatch"} \intersect HoldsQueue = {}
        BY DEF HoldsConn, HoldsBroker, HoldsQueue
      <3>5. \A t \in Goroutines : /\ th'[t].pc \in HoldsConn <=> th[t].pc \in HoldsConn
                                  /\ th'[t].pc \in HoldsBroker <=> th[t].pc \in HoldsBroker
                                  /\ th'[t].pc \in HoldsQueue <=> th[t].pc \in HoldsQueue
                                  /\ th[t].pc \in HoldsQueue => th'[t].q = th[t].q
        BY <3>1, <3>3, <3>4
      <3> QED BY <3>2, <3>5, KindsDiffer, SMT DEF Holding
    <2>7. CASE AckLock(c)
      <3>1. th[c].q \in Queues /\ LooksAt(c, "ack", "ackScan", consumers[th[c].q])
        BY <2>7, AckLockGoes
      <3>2. th[c].pc = "ack" /\ Moves(c, "ackScan") /\ th'[c].q = th[c].q
        BY <3>1 DEF LooksAt
      <3>3. Take(c, QueueMu(th[c].q)) /\ owner[QueueMu(th[c].q)] = None
        BY <2>0, <2>7, <3>1, AtFree DEF AckLock, AtQueue
      <3>4. /\ {"ack", "ackScan"} \intersect HoldsConn = {}
            /\ {"ack", "ackScan"} \intersect HoldsBroker = {}
            /\ "ack" \notin HoldsQueue /\ "ackScan" \in HoldsQueue
        BY DEF HoldsConn, HoldsBroker, HoldsQueue
      <3> QED BY <2>0, <3>1, <3>2, <3>3, <3>4, HoldingTakesQueue
    <2>8. CASE AckScan(c)
      <3>1. th[c].q \in Queues
        BY <2>8, AckScanGoes
      <3>2. CASE GoesTo(c, "ackScan", "serve") /\ Give(QueueMu(th[c].q))
        <4>1. th[c].pc = "ackScan" /\ Moves(c, "serve")
          BY <3>2 DEF GoesTo
        <4>2. /\ {"ackScan", "serve"} \intersect HoldsConn = {}
              /\ {"ackScan", "serve"} \intersect HoldsBroker = {}
              /\ "ackScan" \in HoldsQueue /\ "serve" \notin HoldsQueue
          BY DEF HoldsConn, HoldsBroker, HoldsQueue
        <4> QED BY <2>0, <3>1, <3>2, <4>1, <4>2, HoldingGivesQueue
      <3>3. CASE LooksAt(c, "ackScan", "ackScan", th[c].scan) /\ owner' = owner
        BY <2>0, <3>3, HoldingKept DEF LooksAt
      <3> QED BY <2>8, <3>2, <3>3, AckScanGoes
    <2>9. CASE Unregister(c)
      <3>1. GoesTo(c, "unregister", "return")
        BY <2>9, ConnGoes
      <3>2. th[c].pc = "unregister" /\ Moves(c, "return") /\ th'[c].q = th[c].q
        BY <3>1 DEF GoesTo
      <3>3. th[c].q \in Queues
        BY <3>2 DEF Works, OnQueue
      <3>4. Take(c, QueueMu(th[c].q)) /\ owner[QueueMu(th[c].q)] = None
        BY <2>0, <2>9, <3>3, AtFree DEF Unregister, AtQueue
      <3>5. /\ "unregister" \in HoldsConn /\ "return" \in HoldsConn
            /\ "unregister" \notin HoldsBroker /\ "return" \notin HoldsBroker
            /\ "unregister" \notin HoldsQueue /\ "return" \in HoldsQueue
        BY DEF HoldsConn, HoldsBroker, HoldsQueue
      <3> QED BY <2>0, <3>2, <3>3, <3>4, <3>5, HoldingTakesQueue
    <2>10. CASE Return(c)
      <3>1. GoesTo(c, "return", "unregistered")
        BY <2>10, ConnGoes
      <3>2. th[c].pc = "return" /\ Moves(c, "unregistered")
        BY <3>1 DEF GoesTo
      <3>3. th[c].q \in Queues /\ Give(QueueMu(th[c].q))
        BY <2>10, <3>2 DEF Works, OnQueue, Return
      <3>4. /\ "unregistered" \in HoldsConn /\ "return" \in HoldsConn
            /\ "unregistered" \notin HoldsBroker /\ "return" \notin HoldsBroker
            /\ "unregistered" \notin HoldsQueue /\ "return" \in HoldsQueue
        BY DEF HoldsConn, HoldsBroker, HoldsQueue
      <3> QED BY <2>0, <3>2, <3>3, <3>4, HoldingGivesQueue
    <2>11. CASE Cleanup(c)
      <3>1. CASE on[c] = None /\ owner' = owner /\ GoesTo(c, "cleanup", "untrack")
        BY <2>0, <3>1, GoesKeepsHolding DEF HoldsConn, HoldsBroker, HoldsQueue
      <3>2. ASSUME Take(c, ConnMu(c)), th[c].pc = "cleanup", Moves(c, "unregister")
            PROVE  Holding'
        <4>1. ConnMu(c) \in Locks /\ owner \in [Locks -> Goroutines \union {None}]
          BY LocksDiffer DEF TypeOK
        <4>2. \A l \in Locks : owner'[l] = IF l = ConnMu(c) THEN c ELSE owner[l]
          BY <3>2, <4>1 DEF Take
        <4>3. /\ owner'[ServerMu] = owner[ServerMu] /\ owner'[BrokerMu] = owner[BrokerMu]
              /\ \A k \in Conns : owner'[ConsumerMu(k)] = owner[ConsumerMu(k)]
              /\ \A q \in Queues : owner'[QueueMu(q)] = owner[QueueMu(q)]
              /\ \A d \in Conns : owner'[ConnMu(d)] = IF d = c THEN c ELSE owner[ConnMu(d)]
          BY <4>2, LocksDiffer
        <4>4. th'[c].pc = "unregister" /\ \A u \in Goroutines : u # c => th'[u] = th[u]
          BY <3>2 DEF Moves
        <4>5. /\ "unregister" \in HoldsConn
              /\ {"cleanup", "unregister"} \intersect HoldsBroker = {}
              /\ {"cleanup", "unregister"} \intersect HoldsQueue = {}
          BY DEF HoldsConn, HoldsBroker, HoldsQueue
        <4>6. \A d \in Conns : owner'[ConnMu(d)] = IF th'[d].pc \in HoldsConn THEN d ELSE None
          BY <4>3, <4>4, <4>5, KindsDiffer, SMT DEF Holding
        <4>7. \A u \in Goroutines : owner'[BrokerMu] = u <=> th'[u].pc \in HoldsBroker
          BY <3>2, <4>3, <4>4, <4>5, SMT DEF Holding
        <4>8. \A q \in Queues, u \in Goroutines :
                owner'[QueueMu(q)] = u <=> th'[u].pc \in HoldsQueue /\ th'[u].q = q
          BY <3>2, <4>3, <4>4, <4>5, SMT DEF Holding
        <4> QED BY <4>3, <4>6, <4>7, <4>8 DEF Holding
      <3> QED BY <2>11, <3>1, <3>2, CleanupGoes
    <2>12. CASE Unregistered(c)
      <3>1. GoesTo(c, "unregistered", "untrack")
        BY <2>12, ConnGoes
      <3>2. /\ th[c].pc = "unregistered" /\ th'[c].pc = "untrack"
            /\ \A u \in Goroutines : u # c => th'[u] = th[u]
        BY <3>1 DEF GoesTo, Moves
      <3>3. ConnMu(c) \in Locks /\ owner \in [Locks -> Goroutines \union {None}]
        BY LocksDiffer DEF TypeOK
      <3>4. \A l \in Locks : owner'[l] = IF l = ConnMu(c) THEN None ELSE owner[l]
        BY <2>12, <3>3 DEF Unregistered, Give
      <3>5. /\ owner'[ServerMu] = owner[ServerMu] /\ owner'[BrokerMu] = owner[BrokerMu]
            /\ \A k \in Conns : owner'[ConsumerMu(k)] = owner[ConsumerMu(k)]
            /\ \A q \in Queues : owner'[QueueMu(q)] = owner[QueueMu(q)]
            /\ \A d \in Conns : owner'[ConnMu(d)] = IF d = c THEN None ELSE owner[ConnMu(d)]
        BY <3>4, LocksDiffer
      <3>6. /\ "untrack" \notin HoldsConn
            /\ {"unregistered", "untrack"} \intersect HoldsBroker = {}
            /\ {"unregistered", "untrack"} \intersect HoldsQueue = {}
        BY DEF HoldsConn, HoldsBroker, HoldsQueue
      <3>7. \A d \in Conns : owner'[ConnMu(d)] = IF th'[d].pc \in HoldsConn THEN d ELSE None
        BY <3>2, <3>5, <3>6, KindsDiffer, SMT DEF Holding
      <3>8. \A u \in Goroutines : owner'[BrokerMu] = u <=> th'[u].pc \in HoldsBroker
        BY <3>2, <3>5, <3>6, SMT DEF Holding
      <3>9. \A q \in Queues, u \in Goroutines :
              owner'[QueueMu(q)] = u <=> th'[u].pc \in HoldsQueue /\ th'[u].q = q
        BY <3>2, <3>5, <3>6, SMT DEF Holding
      <3> QED BY <3>5, <3>7, <3>8, <3>9 DEF Holding
    <2> QED BY <1>1, <2>1, <2>2, <2>3, <2>4, <2>5, <2>6, <2>7, <2>8, <2>9, <2>10, <2>11, <2>12
            DEF HandleConnection, Handler
  <1>2. ASSUME NEW q \in Queues, DispatchLoop(q) \/ Written(q)
        PROVE  Holding'
    <2>0. q \in Goroutines /\ th[q].q = q /\ QueuePoints \intersect (HoldsConn \union HoldsBroker) = {}
      BY KindsDiffer DEF Works, QueuePoints, HoldsConn, HoldsBroker
    <2>1. ASSUME NEW p \in QueuePoints, Moves(q, p), th[q].pc \in {"dispatch", "failed"},
                 p \in HoldsQueue, th'[q].q = q, Take(q, QueueMu(q)), owner[QueueMu(q)] = None
          PROVE  Holding'
      <3>1. th[q].pc \in QueuePoints /\ th[q].pc \notin HoldsQueue
        BY <2>1 DEF QueuePoints, HoldsQueue
      <3> QED BY <2>0, <2>1, <3>1, HoldingTakesQueue
    <2>2. ASSUME NEW p \in QueuePoints, Moves(q, p), th[q].pc \in {"select", "book", "revert"},
                 p \notin HoldsQueue, Give(QueueMu(q))
          PROVE  Holding'
      <3>1. th[q].pc \in QueuePoints /\ th[q].pc \in HoldsQueue
        BY <2>2 DEF QueuePoints, HoldsQueue
      <3> QED BY <2>0, <2>2, <3>1, HoldingGivesQueue
    <2>3. ASSUME NEW p \in QueuePoints, Moves(q, p), owner' = owner, th'[q].q = q,
                 th[q].pc \in QueuePoints, p \in HoldsQueue <=> th[q].pc \in HoldsQueue
          PROVE  Holding'
      BY <2>0, <2>3, HoldingKept
    <2>4. CASE Dispatch(q)
      <3>1. LooksAt(q, "dispatch", "select", consumers[q])
        BY <2>4, QueueGoes
      <3>2. Take(q, QueueMu(q)) /\ owner[QueueMu(q)] = None
        BY <2>0, <2>4, AtFree, SMT DEF Dispatch, AtQueue
      <3>3. "select" \in QueuePoints /\ "select" \in HoldsQueue
        BY DEF QueuePoints, HoldsQueue
      <3> QED BY <2>0, <2>1, <3>1, <3>2, <3>3 DEF LooksAt
    <2>5. CASE Failed(q)
      <3>1. GoesTo(q, "failed", "revert")
        BY <2>5, QueueGoes
      <3>2. Take(q, QueueMu(q)) /\ owner[QueueMu(q)] = None
        BY <2>0, <2>5, AtFree DEF Failed, AtQueue
      <3>3. "revert" \in QueuePoints /\ "revert" \in HoldsQueue
        BY DEF QueuePoints, HoldsQueue
      <3> QED BY <2>0, <2>1, <3>1, <3>2, <3>3 DEF GoesTo
    <2>6. CASE Book(q) \/ Revert(q)
      <3>1. GoesTo(q, "book", "writing") \/ GoesTo(q, "revert", "dispatch")
        BY <2>6, QueueGoes
      <3>2. Give(QueueMu(q))
        BY <2>6 DEF Book, Revert
      <3>3. /\ {"writing", "dispatch"} \subseteq QueuePoints
            /\ {"writing", "dispatch"} \intersect HoldsQueue = {}
        BY DEF QueuePoints, HoldsQueue
      <3> QED BY <2>2, <3>1, <3>2, <3>3 DEF GoesTo
    <2>7. CASE SelectConsumer(q)
      <3>1. CASE GoesTo(q, "select", "book") /\ owner' = owner
        BY <2>0, <2>3, <3>1 DEF GoesTo, QueuePoints, HoldsQueue
      <3>2. CASE GoesTo(q, "select", "dispatch") /\ Give(QueueMu(q))
        BY <2>2, <3>2 DEF GoesTo, QueuePoints, HoldsQueue
      <3>3. CASE LooksAt(q, "select", "select", th[q].scan) /\ owner' = owner
        BY <2>0, <2>3, <3>3 DEF LooksAt, QueuePoints
      <3> QED BY <2>7, <3>1, <3>2, <3>3, QueueGoes
    <2>8. CASE Written(q)
      <3>1. owner' = owner
        BY <2>8 DEF Written
      <3>2. PICK p \in {"dispatch", "failed"} : GoesTo(q, "writing", p)
        BY <2>8, QueueGoes
      <3> QED BY <2>0, <2>3, <3>1, <3>2 DEF GoesTo, QueuePoints, HoldsQueue
    <2> QED BY <1>2, <2>4, <2>5, <2>6, <2>7, <2>8 DEF DispatchLoop
  <1>3. ASSUME NEW s \in Scrapers, Collect(s) \/ Scrape(s)
        PROVE  Holding'
    <2>0. s \in Goroutines /\ ScrapePoints \intersect HoldsConn = {}
      BY KindsDiffer DEF ScrapePoints, HoldsConn
    <2>1. CASE Scrape(s) \/ CollectConnections(s)
      <3>1. owner' = owner
        BY <2>1 DEF Scrape, CollectConnections
      <3> QED BY <2>0, <2>1, <3>1, ScrapeGoes, GoesKeepsHolding
              DEF HoldsConn, HoldsBroker, HoldsQueue
    <2>2. ASSUME NEW l \in Locks, l = BrokerMu, NEW u \in Goroutines \union {None},
                 owner' = [owner EXCEPT ![l] = u], NEW p \in ScrapePoints, Moves(s, p),
                 u = IF p \in HoldsBroker THEN s ELSE None,
                 u = None => owner[BrokerMu] = s, u # None => owner[BrokerMu] = None,
                 th[s].pc \in ScrapePoints, th[s].pc \notin HoldsQueue, p \notin HoldsQueue
          PROVE  Holding'
      <3>1. owner \in [Locks -> Goroutines \union {None}]
        BY DEF TypeOK
      <3>2. \A m \in Locks : owner'[m] = IF m = BrokerMu THEN u ELSE owner[m]
        BY <2>2, <3>1
      <3>3. /\ owner'[ServerMu] = owner[ServerMu] /\ owner'[BrokerMu] = u
            /\ \A k \in Conns : owner'[ConsumerMu(k)] = owner[ConsumerMu(k)]
            /\ \A q \in Queues : owner'[QueueMu(q)] = owner[QueueMu(q)]
            /\ \A d \in Conns : owner'[ConnMu(d)] = owner[ConnMu(d)]
        BY <3>2, LocksDiffer
      <3>4. th'[s].pc = p /\ \A v \in Goroutines : v # s => th'[v] = th[v]
        BY <2>2 DEF Moves
      <3>5. \A d \in Conns : owner'[ConnMu(d)] = IF th'[d].pc \in HoldsConn THEN d ELSE None
        BY <3>3, <3>4, KindsDiffer, SMT DEF Holding
      <3>6. \A v \in Goroutines : owner'[BrokerMu] = v <=> th'[v].pc \in HoldsBroker
        <4>1. \A v \in Goroutines : owner[BrokerMu] = v <=> th[v].pc \in HoldsBroker
          BY DEF Holding
        <4> QED BY <2>0, <2>2, <3>3, <3>4, <4>1, KindsDiffer, SMT
      <3>7. \A q \in Queues, v \in Goroutines :
              owner'[QueueMu(q)] = v <=> th'[v].pc \in HoldsQueue /\ th'[v].q = q
        BY <2>2, <3>3, <3>4, SMT DEF Holding
      <3> QED BY <3>3, <3>5, <3>6, <3>7, SMT DEF Holding
    <2>3. CASE CollectBroker(s)
      <3>1. owner' = [owner EXCEPT ![BrokerMu] = s] /\ owner[BrokerMu] = None
        BY <2>0, <2>3, AtFree DEF CollectBroker, Take, AtBroker
      <3>2. PICK p \in {"queue", "collected"} : th[s].pc = "queues" /\ Moves(s, p)
        BY <2>3, ScrapeGoes DEF ToQueue, GoesTo
      <3>3. /\ p \in ScrapePoints /\ p \in HoldsBroker /\ p \notin HoldsQueue
            /\ "queues" \in ScrapePoints /\ "queues" \notin HoldsQueue
        BY <3>2 DEF ScrapePoints, HoldsBroker, HoldsQueue
      <3>4. BrokerMu \in Locks /\ s # None
        BY <2>0, LocksDiffer, KindsDiffer
      <3> QED BY <2>0, <2>2, <3>1, <3>2, <3>3, <3>4
    <2>4. CASE Collected(s)
      <3>1. PICK p \in {"idle", "refused"} : th[s].pc = "collected" /\ Moves(s, p)
        BY <2>4, ScrapeGoes DEF GoesTo
      <3>2. owner' = [owner EXCEPT ![BrokerMu] = None]
        BY <2>4 DEF Collected, Give
      <3>3. /\ p \in ScrapePoints /\ p \notin HoldsBroker /\ p \notin HoldsQueue
            /\ "collected" \in ScrapePoints /\ "collected" \notin HoldsQueue
            /\ "collected" \in HoldsBroker
        BY <3>1 DEF ScrapePoints, HoldsBroker, HoldsQueue
      <3>4. BrokerMu \in Locks /\ owner[BrokerMu] = s
        BY <2>0, <3>1, <3>3, LocksDiffer, SMT DEF Holding
      <3> QED BY <2>2, <3>1, <3>2, <3>3, <3>4
    <2>5. CASE CollectQueue(s)
      <3>1. PICK p \in {"consumer", "queueRead"} :
              th[s].pc = "queue" /\ Moves(s, p) /\ th'[s].q = th[s].q
        BY <2>5, ScrapeGoes DEF LooksAt, GoesTo
      <3>2. th[s].q \in Queues
        BY <2>5, ScrapeGoes
      <3>3. Take(s, QueueMu(th[s].q)) /\ owner[QueueMu(th[s].q)] = None
        BY <2>0, <2>5, <3>2, AtFree DEF CollectQueue, AtQueue
      <3>4. /\ {p, "queue"} \subseteq ScrapePoints /\ {p, "queue"} \subseteq HoldsBroker
            /\ "queue" \notin HoldsQueue /\ p \in HoldsQueue
        BY <3>1 DEF ScrapePoints, HoldsBroker, HoldsQueue
      <3> QED BY <2>0, <3>1, <3>2, <3>3, <3>4, HoldingTakesQueue
    <2>6. CASE CollectConsumer(s)
      <3>1. PICK p \in {"consumer", "queueRead"} :
              th[s].pc = "consumer" /\ Moves(s, p) /\ th'[s].q = th[s].q
        BY <2>6, ScrapeGoes DEF LooksAt, GoesTo
      <3>2. owner' = owner
        BY <2>6 DEF CollectConsumer
      <3>3. /\ {p, "consumer"} \subseteq ScrapePoints /\ {p, "consumer"} \subseteq HoldsBroker
            /\ {p, "consumer"} \subseteq HoldsQueue
        BY <3>1 DEF ScrapePoints, HoldsBroker, HoldsQueue
      <3> QED BY <2>0, <3>1, <3>2, <3>3, HoldingKept
    <2>7. CASE CollectedQueue(s)
      <3>1. PICK p \in {"queue", "collected"} : th[s].pc = "queueRead" /\ Moves(s, p)
        BY <2>7, ScrapeGoes DEF ToQueue, GoesTo
      <3>2. th[s].q \in Queues /\ Give(QueueMu(th[s].q))
        BY <2>7, <3>1 DEF CollectedQueue, Works
      <3>3. /\ {p, "queueRead"} \subseteq ScrapePoints /\ {p, "queueRead"} \subseteq HoldsBroker
            /\ "queueRead" \in HoldsQueue /\ p \notin HoldsQueue
        BY <3>1 DEF ScrapePoints, HoldsBroker, HoldsQueue
      <3> QED BY <2>0, <3>1, <3>2, <3>3, HoldingGivesQueue
    <2> QED BY <1>3, <2>1, <2>3, <2>4, <2>5, <2>6, <2>7 DEF Collect
  <1> QED BY <1>1, <1>2, <1>3 DEF Next

\* Goroutines that wait for each other's locks would have to hold them in a
\* circle, and whoever holds a Queue.mu waits for nobody.
LEMMA NoCircle ==
  ASSUME TypeOK, Works, Holding
  PROVE  NoCircularWait
  <1> SUFFICES ASSUME NEW S \in SUBSET Goroutines, S # {},
                      \A t \in S : Blocked(t) /\ owner[Wants(t)] \in S
               PROVE  FALSE
    BY DEF NoCircularWait
  <1>1. \A t \in S : t \in Goroutines /\ Wants(t) # None /\ owner[Wants(t)] \in S
    BY DEF Blocked
  <1>2. None \notin S
    BY KindsDiffer
  <1>3. ASSUME NEW t \in S, th[t].pc \in HoldsQueue
        PROVE  FALSE
    <2>1. CASE th[t].pc = "queueRead"
      <3>1. Wants(t) = None
        BY <2>1 DEF Wants, AtServer, AtBroker, AtQueue, AtConsumer
      <3> QED BY <1>1, <3>1
    <2>2. CASE th[t].pc # "queueRead"
      <3>1. th[t].pc \in {"ackScan", "return", "select", "book", "revert", "consumer"}
        BY <1>3, <2>2 DEF HoldsQueue
      <3>2. th[t].pc \in AtConsumer /\ th[t].pc \notin AtServer \union AtBroker \union AtQueue
                /\ th[t].pc # "cleanup"
        BY <3>1 DEF AtServer, AtBroker, AtQueue, AtConsumer
      <3>3. Wants(t) = ConsumerMu(th[t].k)
        BY <3>2 DEF Wants
      <3>4. th[t].k \in Conns
        BY <1>1, <3>1, KindsDiffer
           DEF Works, Goroutines, Out, ConnPoints, QueuePoints, ScrapePoints
      <3>5. owner[Wants(t)] = None
        BY <3>3, <3>4, SMT DEF Holding
      <3> QED BY <1>1, <1>2, <3>5
    <2> QED BY <2>1, <2>2
  <1>4. ASSUME NEW t \in S, NEW q \in Queues, Wants(t) = QueueMu(q)
        PROVE  FALSE
    BY <1>1, <1>3, <1>4 DEF Holding
  <1>5. ASSUME NEW t \in S
        PROVE  Wants(t) = BrokerMu /\ th[t].pc \in AtBroker
    <2>1. Wants(t) # None
      BY <1>1
    <2>2. th[t].pc \in AtServer => Wants(t) = ServerMu
      BY DEF Wants, AtServer, AtBroker, AtQueue, AtConsumer
    <2>3. th[t].pc \in AtQueue => Wants(t) = QueueMu(th[t].q)
      BY DEF Wants, AtServer, AtBroker, AtQueue, AtConsumer
    <2>4. th[t].pc = "cleanup" => Wants(t) = ConnMu(t)
      BY DEF Wants, AtServer, AtBroker, AtQueue, AtConsumer
    <2>5. th[t].pc \in AtConsumer => Wants(t) = ConsumerMu(th[t].k)
      BY DEF Wants, AtServer, AtBroker, AtQueue, AtConsumer
    <2>6. th[t].pc \in AtBroker => Wants(t) = BrokerMu
      BY DEF Wants, AtServer, AtBroker, AtQueue, AtConsumer
    <2>7. th[t].pc \in AtServer \union AtBroker \union AtQueue \union AtConsumer \union {"cleanup"}
      BY <2>1 DEF Wants
    <2>8. th[t].pc \notin AtServer
      BY <1>1, <1>2, <2>2 DEF Holding
    <2>9. th[t].pc # "cleanup"
      <3>1. th[t].pc = "cleanup" => t \in Conns
        BY <1>1 DEF Works, Goroutines, QueuePoints, ScrapePoints
      <3>2. th[t].pc = "cleanup" => th[t].pc \notin HoldsConn
        BY DEF HoldsConn
      <3> QED BY <1>1, <1>2, <2>4, <3>1, <3>2, SMT DEF Holding
    <2>10. th[t].pc \notin AtQueue
      <3>1. th[t].pc \in AtQueue => th[t].q \in Queues
        BY <1>1, SMT DEF Works, Goroutines, AtQueue, OnQueue, QueuePoints, ConnPoints, ScrapePoints
      <3> QED BY <1>4, <2>3, <3>1
    <2>11. th[t].pc \notin AtConsumer
      <3>1. th[t].pc \in AtConsumer => th[t].k \in Conns
        BY <1>1, SMT DEF Works, Goroutines, AtConsumer, Out, QueuePoints, ConnPoints, ScrapePoints
      <3> QED BY <1>1, <1>2, <2>5, <3>1, SMT DEF Holding
    <2> QED BY <2>6, <2>7, <2>8, <2>9, <2>10, <2>11
  <1>6. PICK t \in S : TRUE
    OBVIOUS
  <1>7. PICK u \in S : u = owner[BrokerMu]
    BY <1>1, <1>5, <1>6
  <1>8. th[u].pc \in HoldsBroker
    BY <1>1, <1>7 DEF Holding
  <1> QED BY <1>5, <1>8 DEF HoldsBroker, AtBroker

-----------------------------------------------------------------------------
(* The loops over Queue.consumers.                                          *)

ScanPoints == {"ackScan", "select", "book", "consumer"}

LEMMA ScansKept ==
  ASSUME Scans, NEW t \in Goroutines, NEW p, Moves(t, p), UNCHANGED <<consumers, on>>,
         p \in ScanPoints => /\ th'[t].k \in consumers[th'[t].q]
                             /\ th'[t].scan \subseteq consumers[th'[t].q],
         p \in Out /\ t \in Queues => on[th'[t].k] = t
  PROVE  Scans'
  <1>1. th'[t].pc = p /\ \A u \in Goroutines : u # t => th'[u] = th[u]
    BY DEF Moves
  <1>2. \A u \in Goroutines : th'[u].pc \in ScanPoints =>
          th'[u].k \in consumers'[th'[u].q] /\ th'[u].scan \subseteq consumers'[th'[u].q]
    BY <1>1 DEF Scans, ScanPoints
  <1>3. \A q \in Queues : th'[q].pc \in Out => on'[th'[q].k] = q
    BY <1>1, KindsDiffer DEF Scans
  <1> QED BY <1>2, <1>3 DEF Scans, ScanPoints

LEMMA LooksKeepsScans ==
  ASSUME Scans, NEW t \in Goroutines, NEW p, NEW r \in {"ackScan", "select", "consumer"}, NEW S,
         LooksAt(t, p, r, S), UNCHANGED <<consumers, on>>,
         S = consumers[th[t].q] \/ (S = th[t].scan /\ p \in ScanPoints)
  PROVE  Scans'
  <1>1. Moves(t, r) /\ th[t].pc = p /\ th'[t].q = th[t].q /\ th'[t].k \in S /\ th'[t].scan \subseteq S
    BY DEF LooksAt
  <1>2. S \subseteq consumers[th[t].q]
    BY <1>1 DEF Scans, ScanPoints
  <1>3. r \notin Out
    BY DEF Out
  <1> QED BY <1>1, <1>2, <1>3, ScansKept

LEMMA ScansStep ==
  ASSUME TypeOK, Works, Registration, Holding, Scans, Next
  PROVE  Scans'
  <1>1. ASSUME NEW c \in Conns, HandleConnection(c) \/ Request(c)
        PROVE  Scans'
    <2>0. c \in Goroutines /\ c \notin Queues
      BY KindsDiffer
    <2>1. ASSUME NEW p, NEW r, GoesTo(c, p, r), UNCHANGED <<consumers, on>>, r \notin ScanPoints
          PROVE  Scans'
      BY <2>0, <2>1, ScansKept DEF GoesTo
    <2>2. CASE Track(c) \/ Accepted(c) \/ Closing(c) \/ Untrack(c)
      <3>1. UNCHANGED <<consumers, on>>
        BY <2>2 DEF Track, Accepted, Closing, Untrack, stateVars
      <3> QED BY <2>1, <2>2, <3>1, ConnGoes DEF ScanPoints
    <2>3. CASE PublishLookup(c) \/ Enqueue(c) \/ ConsumeLookup(c)
      <3>1. UNCHANGED <<consumers, on>>
        BY <2>3 DEF PublishLookup, Enqueue, ConsumeLookup, stateVars
      <3> QED BY <2>1, <2>3, <3>1, ConnGoes DEF ScanPoints
    <2>4. CASE Registered(c) \/ AckFind(c) \/ AckLookup(c)
      <3>1. UNCHANGED <<consumers, on>>
        BY <2>4 DEF Registered, AckFind, AckLookup, stateVars
      <3> QED BY <2>1, <2>4, <3>1, ConnGoes DEF ScanPoints
    <2>5. CASE Unregister(c) \/ Unregistered(c)
      <3>1. UNCHANGED <<consumers, on>>
        BY <2>5 DEF Unregister, Unregistered, stateVars
      <3> QED BY <2>1, <2>5, <3>1, ConnGoes DEF ScanPoints
    <2>6. CASE Request(c) \/ Cleanup(c) \/ Nack(c)
      <3>1. UNCHANGED <<consumers, on>>
        BY <2>6 DEF Request, Cleanup, Nack, stateVars
      <3>2. PICK p : Moves(c, p) /\ p \notin ScanPoints
        BY <2>6, RequestGoes, CleanupGoes, NackGoes, SMT DEF GoesTo, ScanPoints
      <3> QED BY <2>0, <3>1, <3>2, ScansKept
    <2>7. CASE AckLock(c)
      <3>1. UNCHANGED <<consumers, on>>
        BY <2>7 DEF AckLock, stateVars
      <3> QED BY <2>0, <2>7, <3>1, AckLockGoes, LooksKeepsScans
    <2>8. CASE AckScan(c)
      <3>1. UNCHANGED <<consumers, on>>
        BY <2>8 DEF AckScan
      <3>2. CASE GoesTo(c, "ackScan", "serve")
        BY <2>1, <3>1, <3>2 DEF ScanPoints
      <3>3. CASE LooksAt(c, "ackScan", "ackScan", th[c].scan)
        <4>1. "ackScan" \in ScanPoints
          BY DEF ScanPoints
        <4> QED BY <2>0, <3>1, <3>3, <4>1, LooksKeepsScans
      <3> QED BY <2>8, <3>2, <3>3, AckScanGoes
    <2>9. CASE DeclareQueue(c)
      <3> DEFINE q == th[c].q
      <3>1. /\ q \in Queues /\ th'[c].pc = "serve"
            /\ \A t \in Goroutines \ {c} : /\ th'[t].q = th[t].q /\ th'[t].k = th[t].k
                                           /\ th'[t].scan = th[t].scan
            /\ th'[q].pc = IF q \in declared THEN th[q].pc ELSE "dispatch"
            /\ \A t \in Goroutines \ {c, q} : th'[t] = th[t]
        BY <2>9, DeclareMoves
      <3>2. UNCHANGED <<consumers, on>>
        BY <2>9 DEF DeclareQueue
      <3> HIDE DEF q
      <3>3. "dispatch" \notin ScanPoints /\ "dispatch" \notin Out /\ "serve" \notin ScanPoints
        BY DEF ScanPoints, Out
      <3>4. \A t \in Goroutines \ {c} :
              /\ th'[t].pc \in ScanPoints => th[t].pc \in ScanPoints
              /\ th'[t].pc \in Out => th[t].pc \in Out
        BY <3>1, <3>3
      <3>5. \A t \in Goroutines : th'[t].pc \in ScanPoints =>
              th'[t].k \in consumers'[th'[t].q] /\ th'[t].scan \subseteq consumers'[th'[t].q]
        BY <3>1, <3>2, <3>3, <3>4 DEF Scans, ScanPoints
      <3>6. \A x \in Queues : th'[x].pc \in Out => on'[th'[x].k] = x
        BY <2>0, <3>1, <3>2, <3>4, KindsDiffer DEF Scans
      <3> QED BY <3>5, <3>6 DEF Scans, ScanPoints
    <2>10. CASE Register(c)
      <3>1. GoesTo(c, "register", "registered")
        BY <2>10, ConnGoes
      <3>2. /\ th[c].pc = "register" /\ th'[c].pc = "registered"
            /\ \A u \in Goroutines : u # c => th'[u] = th[u]
        BY <3>1 DEF GoesTo, Moves
      <3>3. th[c].q \in Queues /\ on[c] = None
        BY <3>2 DEF Works, OnQueue, Registration
      <3>4. consumers \in [Queues -> SUBSET Conns] /\ on \in [Conns -> Queues \union {None}]
        BY DEF TypeOK
      <3>5. /\ \A q \in Queues : consumers[q] \subseteq consumers'[q]
            /\ \A d \in Conns : d # c => on'[d] = on[d]
        BY <2>10, <3>3, <3>4 DEF Register
      <3>6. \A t \in Goroutines : th[t].pc \in ScanPoints => th[t].q \in Queues
        BY SMT DEF Works, Goroutines, ScanPoints, OnQueue, ConnPoints, QueuePoints, ScrapePoints
      <3>7. \A t \in Goroutines : th'[t].pc \in ScanPoints =>
              th'[t].k \in consumers'[th'[t].q] /\ th'[t].scan \subseteq consumers'[th'[t].q]
        <4>1. "registered" \notin ScanPoints
          BY DEF ScanPoints
        <4> QED BY <3>2, <3>5, <3>6, <4>1 DEF Scans, ScanPoints
      <3>8. \A q \in Queues : th[q].pc \in Out => th[q].k \in Conns /\ th[q].k # c
        BY <3>3, CollectorAssumption DEF Works, Scans
      <3>9. \A q \in Queues : th'[q].pc \in Out => on'[th'[q].k] = q
        BY <2>0, <3>2, <3>5, <3>8, KindsDiffer DEF Scans
      <3> QED BY <3>7, <3>9 DEF Scans, ScanPoints
    <2>11. CASE Return(c)
      <3>1. GoesTo(c, "return", "unregistered")
        BY <2>11, ConnGoes
      <3>2. /\ th[c].pc = "return" /\ th'[c].pc = "unregistered"
            /\ \A u \in Goroutines : u # c => th'[u] = th[u]
        BY <3>1 DEF GoesTo, Moves
      <3>3. th[c].q \in Queues
        BY <3>2 DEF Works, OnQueue
      <3>4. consumers \in [Queues -> SUBSET Conns]
        BY DEF TypeOK
      <3>5. on' = on /\ \A q \in Queues : q # th[c].q => consumers'[q] = consumers[q]
        BY <2>11, <3>3, <3>4 DEF Return
      <3>6. \A t \in Goroutines : th[t].pc \in ScanPoints => th[t].q \in Queues
        BY SMT DEF Works, Goroutines, ScanPoints, OnQueue, ConnPoints, QueuePoints, ScrapePoints
      <3>7. \A t \in Goroutines : t # c /\ th[t].pc \in ScanPoints => th[t].q # th[c].q
        <4>1. "return" \in HoldsQueue /\ ScanPoints \subseteq HoldsQueue
          BY DEF HoldsQueue, ScanPoints
        <4>2. owner[QueueMu(th[c].q)] = c
          BY <2>0, <3>2, <3>3, <4>1, SMT DEF Holding
        <4> QED BY <3>3, <4>1, <4>2, SMT DEF Holding
      <3>8. \A t \in Goroutines : th'[t].pc \in ScanPoints =>
              th'[t].k \in consumers'[th'[t].q] /\ th'[t].scan \subseteq consumers'[th'[t].q]
        <4>1. "unregistered" \notin ScanPoints
          BY DEF ScanPoints
        <4> QED BY <3>2, <3>5, <3>6, <3>7, <4>1 DEF Scans, ScanPoints
      <3>9. \A q \in Queues : th'[q].pc \in Out => on'[th'[q].k] = q
        BY <2>0, <3>2, <3>5, KindsDiffer DEF Scans
      <3> QED BY <3>8, <3>9 DEF Scans, ScanPoints
    <2> QED BY <1>1, <2>2, <2>3, <2>4, <2>5, <2>6, <2>7, <2>8, <2>9, <2>10, <2>11
            DEF HandleConnection, Handler
  <1>2. ASSUME NEW q \in Queues, DispatchLoop(q) \/ Written(q)
        PROVE  Scans'
    <2>0. q \in Goroutines /\ th[q].q = q
      BY KindsDiffer DEF Works
    <2>1. UNCHANGED <<consumers, on>>
      BY <1>2 DEF DispatchLoop, Dispatch, SelectConsumer, Book, Failed, Revert, Written, stateVars
    <2>2. ASSUME NEW p \in Out \union {"book"}, NEW r \in Out \union {"dispatch"}, GoesTo(q, p, r)
          PROVE  Scans'
      <3>1. /\ th[q].pc = p /\ Moves(q, r)
            /\ r \in Out => th'[q].k = th[q].k
        BY <2>2 DEF GoesTo, Out
      <3>2. on[th[q].k] = q
        <4>1. p = "book" => th[q].k \in consumers[q] /\ th[q].k \in Conns
          BY <2>0, <3>1 DEF Scans, Works
        <4> QED BY <2>2, <3>1, <4>1, SMT DEF Scans, Registration
      <3>3. r \notin ScanPoints
        BY DEF ScanPoints, Out
      <3> QED BY <2>0, <2>1, <3>1, <3>2, <3>3, ScansKept
    <2>3. CASE Dispatch(q)
      BY <2>0, <2>1, <2>3, QueueGoes, LooksKeepsScans
    <2>4. CASE SelectConsumer(q)
      <3>1. CASE GoesTo(q, "select", "book")
        <4>1. /\ th[q].pc = "select" /\ Moves(q, "book") /\ th'[q].scan = {}
              /\ th'[q].q = th[q].q /\ th'[q].k = th[q].k
          BY <3>1 DEF GoesTo
        <4>2. th[q].k \in consumers[th[q].q]
          BY <2>0, <4>1 DEF Scans
        <4>3. "book" \notin Out
          BY DEF Out
        <4> QED BY <2>0, <2>1, <4>1, <4>2, <4>3, ScansKept
      <3>2. CASE GoesTo(q, "select", "dispatch")
        BY <2>0, <2>1, <3>2, ScansKept DEF GoesTo, ScanPoints, Out
      <3>3. CASE LooksAt(q, "select", "select", th[q].scan)
        <4>1. "select" \in ScanPoints
          BY DEF ScanPoints
        <4> QED BY <2>0, <2>1, <3>3, <4>1, LooksKeepsScans
      <3> QED BY <2>4, <3>1, <3>2, <3>3, QueueGoes
    <2>5. CASE Book(q) \/ Failed(q) \/ Revert(q) \/ Written(q)
      BY <2>2, <2>5, QueueGoes DEF Out
    <2> QED BY <1>2, <2>3, <2>4, <2>5 DEF DispatchLoop
  <1>3. ASSUME NEW s \in Scrapers, Collect(s) \/ Scrape(s)
        PROVE  Scans'
    <2>0. s \in Goroutines /\ s \notin Queues
      BY KindsDiffer
    <2>1. UNCHANGED <<consumers, on>>
      BY <1>3 DEF Collect, CollectConnections, CollectBroker, CollectQueue, CollectConsumer,
                  CollectedQueue, Collected, Scrape, stateVars
    <2>2. ASSUME NEW p, Moves(s, p), p \notin ScanPoints
          PROVE  Scans'
      BY <2>0, <2>1, <2>2, ScansKept
    <2>3. CASE Scrape(s) \/ CollectConnections(s) \/ CollectBroker(s) \/ CollectedQueue(s)
               \/ Collected(s)
      BY <2>2, <2>3, ScrapeGoes DEF ToQueue, GoesTo, ScanPoints
    <2>4. CASE CollectQueue(s)
      <3>1. CASE LooksAt(s, "queue", "consumer", consumers[th[s].q])
        BY <2>0, <2>1, <3>1, LooksKeepsScans
      <3>2. CASE GoesTo(s, "queue", "queueRead")
        BY <2>2, <3>2 DEF GoesTo, ScanPoints
      <3> QED BY <2>4, <3>1, <3>2, ScrapeGoes
    <2>5. CASE CollectConsumer(s)
      <3>1. CASE LooksAt(s, "consumer", "consumer", th[s].scan)
        <4>1. "consumer" \in ScanPoints
          BY DEF ScanPoints
        <4> QED BY <2>0, <2>1, <3>1, <4>1, LooksKeepsScans
      <3>2. CASE GoesTo(s, "consumer", "queueRead")
        BY <2>2, <3>2 DEF GoesTo, ScanPoints
      <3> QED BY <2>5, <3>1, <3>2, ScrapeGoes
    <2> QED BY <1>3, <2>3, <2>4, <2>5 DEF Collect
  <1> QED BY <1>1, <1>2, <1>3 DEF Next

-----------------------------------------------------------------------------
(* The counts of messages and of deliveries.                                *)

\* A consumer's queue is the only one that may be writing to it, so Held is one
\* less than the count while it does.
LEMMA HeldIs ==
  ASSUME Works, Scans, NEW c \in Conns
  PROVE  Held(c) = inflight[c] - (IF Writing(c) THEN 1 ELSE 0)
  <1> DEFINE W == {q \in Queues : th[q].k = c /\ th[q].pc \in {"writing", "failed", "revert"}}
  <1>1. Held(c) = inflight[c] - Cardinality(W)
    BY DEF Held
  <1>2. \A q \in W : q \in Queues /\ q = on[c] /\ th[q].k = c /\ th[q].pc \in Out
    BY DEF Scans, Out
  <1>3. CASE Writing(c)
    <2>1. W = {on[c]}
      BY <1>2, <1>3 DEF Writing, Out
    <2>2. Cardinality(W) = 1
      BY <2>1, FS_Singleton
    <2> QED BY <1>1, <1>3, <2>2
  <1>4. CASE ~Writing(c)
    <2>1. W = {}
      BY <1>2, <1>4 DEF Writing
    <2>2. Cardinality(W) = 0
      BY <2>1, FS_EmptySet
    <2> QED BY <1>1, <1>4, <2>2
  <1> QED BY <1>3, <1>4

\* The fewest deliveries k's count may stand at.
Least(w, left) == (IF w THEN 1 ELSE 0) - (IF left THEN 1 ELSE 0)

\* What the counts are while c's handler takes a step.
LEMMA ConnSlots ==
  ASSUME TypeOK, Works, Slots, NEW c \in Conns,
         \A d \in Conns \ {c} : th'[d] = th[d] /\ inflight'[d] = inflight[d],
         \A q \in Queues : /\ th'[q].k = th[q].k
                           /\ th'[q].pc \in {"select", "book"} \union Out => th'[q].pc = th[q].pc
                           /\ th[q].pc \in Out => th'[q].pc \in Out
                           /\ depth'[q] \in Nat /\ depth'[q] >= depth[q],
         inflight'[c] \in Int, inflight'[c] <= inflight[c],
         inflight'[c] >= Least(Writing(c), th'[c].pc \in Left)
  PROVE  Slots'
  <1>1. \A k : Writing(k)' <=> Writing(k)
    BY DEF Writing
  <1>2. \A q \in Queues : th'[q].pc \in {"select", "book"} => depth'[q] > 0
    <2>1. \A q \in Queues : depth[q] \in Nat
      BY DEF TypeOK
    <2> QED BY <2>1, SMT DEF Slots
  <1>3. \A k \in Conns : inflight'[k] <= inflight[k] /\ inflight'[k] \in Int /\ inflight[k] \in Int
    <2>1. inflight \in [Conns -> -1..Prefetch] /\ Prefetch \in Int
      BY CollectorAssumption, SMT DEF TypeOK
    <2>2. \A k \in Conns : inflight[k] \in Int
      BY <2>1, SMT
    <2> QED BY <2>2, SMT
  <1>4. \A q \in Queues : th'[q].pc = "book" => inflight'[th'[q].k] < Prefetch
    <2> SUFFICES ASSUME NEW q \in Queues, th'[q].pc = "book"
                 PROVE  inflight'[th'[q].k] < Prefetch
      OBVIOUS
    <2>1. th[q].pc = "book" /\ th'[q].k = th[q].k
      OBVIOUS
    <2>2. th[q].k \in Conns /\ inflight[th[q].k] < Prefetch
      BY <2>1 DEF Works, Slots
    <2>3. Prefetch \in Int
      BY CollectorAssumption, SMT
    <2> QED BY <1>3, <2>1, <2>2, <2>3, SMT
  <1>5. \A k \in Conns :
          inflight'[k] >= (IF Writing(k)' THEN 1 ELSE 0) - (IF th'[k].pc \in Left THEN 1 ELSE 0)
    BY <1>1 DEF Slots, Least
  <1> QED BY <1>2, <1>4, <1>5 DEF Slots

\* A step of c's handler that counts nothing.
LEMMA ConnKeepsSlots ==
  ASSUME TypeOK, Works, Slots, NEW c \in Conns, NEW p, Moves(c, p), inflight' = inflight,
         \A q \in Queues : depth'[q] \in Nat /\ depth'[q] >= depth[q],
         th[c].pc \in Left => p \in Left
  PROVE  Slots'
  <1>1. /\ th'[c].pc = p
        /\ \A d \in Conns \ {c} : th'[d] = th[d] /\ inflight'[d] = inflight[d]
        /\ \A q \in Queues : th'[q] = th[q]
    BY KindsDiffer DEF Moves
  <1>2. inflight[c] \in Int
    BY CollectorAssumption, SMT DEF TypeOK
  <1>3. inflight[c] >= Least(Writing(c), th[c].pc \in Left)
    BY DEF Slots, Least
  <1>4. inflight'[c] >= Least(Writing(c), th'[c].pc \in Left)
    BY <1>1, <1>2, <1>3, SMT DEF Least
  <1> QED BY <1>1, <1>2, <1>4, ConnSlots, SMT

Counts ==
  /\ depth \in [Queues -> Nat]
  /\ inflight \in [Conns -> -1..Prefetch]
  /\ Slots

LEMMA CountsFrom ==
  ASSUME TypeOK, Slots', depth' \in [Queues -> Nat], inflight' \in [Conns -> Int],
         \A k \in Conns : inflight'[k] <= Prefetch
  PROVE  Counts'
  <1>1. \A k \in Conns : inflight'[k] \in Int /\ inflight'[k] >= -1
    BY SMT DEF Slots
  <1>2. inflight' \in [Conns -> -1..Prefetch]
    BY <1>1, CollectorAssumption, SMT
  <1> QED BY <1>2 DEF Counts

\* The consumer's count goes down by one, on a message it holds.
LEMMA TakesBack ==
  ASSUME TypeOK, Works, Scans, Slots, NEW c \in Conns, Held(c) > 0,
         inflight' = [inflight EXCEPT ![c] = @ - 1], depth' = depth, NEW p, Moves(c, p),
         th[c].pc \notin Left
  PROVE  Counts'
  <1>1. inflight \in [Conns -> -1..Prefetch] /\ Prefetch \in Int /\ depth \in [Queues -> Nat]
    BY CollectorAssumption, SMT DEF TypeOK
  <1>2. \A k \in Conns : inflight[k] \in Int /\ inflight[k] <= Prefetch
    BY <1>1, SMT
  <1>3. /\ inflight' \in [Conns -> Int]
        /\ \A k \in Conns : inflight'[k] = IF k = c THEN inflight[c] - 1 ELSE inflight[k]
    BY <1>1, <1>2, SMT
  <1>4. /\ th'[c].pc = p
        /\ \A d \in Conns \ {c} : th'[d] = th[d] /\ inflight'[d] = inflight[d]
        /\ \A q \in Queues : th'[q] = th[q]
    BY <1>3, KindsDiffer DEF Moves
  <1>5. inflight[c] - (IF Writing(c) THEN 1 ELSE 0) > 0
    BY HeldIs
  <1>6. inflight'[c] >= Least(Writing(c), th'[c].pc \in Left)
    BY <1>2, <1>3, <1>5, SMT DEF Least
  <1>7. \A q \in Queues : depth'[q] \in Nat /\ depth'[q] >= depth[q]
    BY <1>1, SMT
  <1>8. Slots'
    BY <1>2, <1>3, <1>4, <1>6, <1>7, ConnSlots, SMT
  <1>9. \A k \in Conns : inflight'[k] <= Prefetch
    BY <1>1, <1>2, <1>3, SMT
  <1> QED BY <1>1, <1>3, <1>8, <1>9, CountsFrom

LEMMA ConnCounts ==
  ASSUME TypeOK, Works, Registration, Scans, Slots, NEW c \in Conns,
         HandleConnection(c) \/ Request(c)
  PROVE  Counts'
  <1>0. /\ inflight \in [Conns -> -1..Prefetch] /\ Prefetch \in Int /\ depth \in [Queues -> Nat]
        /\ c \in Goroutines
    BY CollectorAssumption, KindsDiffer, SMT DEF TypeOK
  <1>1. /\ inflight \in [Conns -> Int] /\ \A k \in Conns : inflight[k] <= Prefetch
        /\ \A q \in Queues : depth[q] \in Nat
    BY <1>0, SMT
  <1>2. ASSUME UNCHANGED <<depth, inflight>>, NEW p, Moves(c, p), th[c].pc \in Left => p \in Left
        PROVE  Counts'
    <2>1. \A q \in Queues : depth'[q] \in Nat /\ depth'[q] >= depth[q]
      BY <1>1, <1>2, SMT
    <2>2. Slots'
      BY <1>2, <2>1, ConnKeepsSlots
    <2> QED BY <1>0, <1>2, <2>2 DEF Counts
  <1>3. ASSUME UNCHANGED <<depth, inflight>>, NEW p, NEW r, GoesTo(c, p, r), p \in Left => r \in Left
        PROVE  Counts'
    BY <1>2, <1>3 DEF GoesTo
  <1>4. CASE Track(c) \/ Accepted(c) \/ Closing(c) \/ Untrack(c)
    <2>1. UNCHANGED <<depth, inflight>>
      BY <1>4 DEF Track, Accepted, Closing, Untrack, stateVars
    <2> QED BY <1>3, <1>4, <2>1, ConnGoes DEF Left
  <1>5. CASE PublishLookup(c) \/ ConsumeLookup(c) \/ Register(c) \/ Registered(c)
    <2>1. UNCHANGED <<depth, inflight>>
      BY <1>5 DEF PublishLookup, ConsumeLookup, Register, Registered, stateVars
    <2> QED BY <1>3, <1>5, <2>1, ConnGoes DEF Left
  <1>6. CASE AckFind(c) \/ AckLookup(c) \/ Unregister(c) \/ Unregistered(c)
    <2>1. UNCHANGED <<depth, inflight>>
      BY <1>6 DEF AckFind, AckLookup, Unregister, Unregistered, stateVars
    <2> QED BY <1>3, <1>6, <2>1, ConnGoes DEF Left
  <1>7. CASE Request(c) \/ Cleanup(c) \/ AckLock(c)
    <2>1. UNCHANGED <<depth, inflight>>
      BY <1>7 DEF Request, Cleanup, AckLock, stateVars
    <2>2. \E p : Moves(c, p) /\ th[c].pc \notin Left
      BY <1>7, RequestGoes, CleanupGoes, AckLockGoes DEF GoesTo, LooksAt, Left
    <2> QED BY <1>2, <2>1, <2>2
  <1>8. CASE Enqueue(c)
    <2>1. PICK p \in {"enqueue", "requeue"} : GoesTo(c, p, "serve")
      BY <1>8, ConnGoes
    <2>2. th[c].pc = p /\ Moves(c, "serve") /\ p \notin Left
      BY <2>1 DEF GoesTo, Left
    <2>3. th[c].q \in Queues
      BY <2>2 DEF Works, OnQueue
    <2>4. inflight' = inflight /\ depth' = [depth EXCEPT ![th[c].q] = @ + 1]
      BY <1>8 DEF Enqueue
    <2>5. depth' \in [Queues -> Nat] /\ \A q \in Queues : depth'[q] >= depth[q]
      BY <1>0, <2>3, <2>4, SMT
    <2>6. Slots'
      BY <2>2, <2>4, <2>5, ConnKeepsSlots
    <2> QED BY <1>1, <2>4, <2>5, <2>6, CountsFrom
  <1>9. CASE AckScan(c)
    <2>1. /\ depth' = depth
          /\ \/ inflight' = inflight
             \/ Held(c) > 0 /\ inflight' = [inflight EXCEPT ![c] = @ - 1]
      BY <1>9 DEF AckScan
    <2>2. PICK p : Moves(c, p) /\ th[c].pc \notin Left
      BY <1>9, AckScanGoes DEF GoesTo, LooksAt, Left
    <2> QED BY <1>2, <2>1, <2>2, TakesBack
  <1>10. CASE Nack(c)
    <2>1. /\ depth' = depth
          /\ \/ inflight' = inflight
             \/ Held(c) > 0 /\ inflight' = [inflight EXCEPT ![c] = @ - 1]
      BY <1>10 DEF Nack
    <2>2. PICK p : Moves(c, p) /\ th[c].pc \notin Left
      BY <1>10, NackGoes DEF GoesTo, Left
    <2> QED BY <1>2, <2>1, <2>2, TakesBack
  <1>11. CASE DeclareQueue(c)
    <2> DEFINE q == th[c].q
    <2>1. UNCHANGED <<depth, inflight>>
      BY <1>11 DEF DeclareQueue
    <2>2. /\ th[c].pc = "declare" /\ q \in Queues /\ th'[c].pc = "serve"
          /\ \A t \in Goroutines \ {c} : th'[t].q = th[t].q /\ th'[t].k = th[t].k
          /\ th'[q].pc = IF q \in declared THEN th[q].pc ELSE "dispatch"
          /\ \A t \in Goroutines \ {c, q} : th'[t] = th[t]
      BY <1>11, DeclareMoves
    <2>3. q \notin declared => th[q].pc = "off"
      BY <2>2 DEF Works
    <2> HIDE DEF q
    <2>4. \A d \in Conns \ {c} : th'[d] = th[d] /\ inflight'[d] = inflight[d]
      BY <2>1, <2>2, KindsDiffer
    <2>5. \A x \in Queues :
            /\ th'[x].k = th[x].k
            /\ th'[x].pc \in {"select", "book"} \union Out => th'[x].pc = th[x].pc
            /\ th[x].pc \in Out => th'[x].pc \in Out
            /\ depth'[x] \in Nat /\ depth'[x] >= depth[x]
      <3>1. "off" \notin Out /\ "dispatch" \notin Out
        BY DEF Out
      <3> QED BY <1>1, <2>1, <2>2, <2>3, <3>1, KindsDiffer, SMT
    <2>6. inflight'[c] >= Least(Writing(c), th'[c].pc \in Left)
      BY <2>1, <2>2 DEF Slots, Least, Left
    <2>7. Slots'
      BY <1>1, <2>1, <2>4, <2>5, <2>6, ConnSlots, SMT
    <2> QED BY <1>0, <2>1, <2>7 DEF Counts
  <1>12. CASE Return(c)
    <2>1. GoesTo(c, "return", "unregistered")
      BY <1>12, ConnGoes
    <2>2. th[c].pc = "return" /\ Moves(c, "unregistered")
      BY <2>1 DEF GoesTo
    <2>3. /\ th'[c].pc = "unregistered"
          /\ \A d \in Conns \ {c} : th'[d] = th[d]
          /\ \A q \in Queues : th'[q] = th[q]
      BY <2>2, KindsDiffer DEF Moves
    <2>4. th[c].q \in Queues
      BY <2>2 DEF Works, OnQueue
    <2>5. /\ inflight' = [inflight EXCEPT ![c] = 0]
          /\ depth' = [depth EXCEPT ![th[c].q] = @ + inflight[c]]
      BY <1>12 DEF Return
    <2>6. inflight[c] \in Nat
      BY <1>1, <2>2, SMT DEF Slots, Left
    <2>7. depth' \in [Queues -> Nat] /\ \A q \in Queues : depth'[q] >= depth[q]
      BY <1>0, <2>4, <2>5, <2>6, SMT
    <2>8. /\ inflight' \in [Conns -> Int]
          /\ \A k \in Conns : inflight'[k] = IF k = c THEN 0 ELSE inflight[k]
      BY <1>1, <2>5, SMT
    <2>9. inflight'[c] >= Least(Writing(c), th'[c].pc \in Left)
      BY <2>3, <2>8, SMT DEF Least, Left
    <2>10. Slots'
      BY <2>3, <2>6, <2>7, <2>8, <2>9, ConnSlots, SMT
    <2>11. \A k \in Conns : inflight'[k] <= Prefetch
      BY <1>1, <2>8, CollectorAssumption, SMT
    <2> QED BY <2>7, <2>8, <2>10, <2>11, CountsFrom
  <1> QED BY <1>4, <1>5, <1>6, <1>7, <1>8, <1>9, <1>10, <1>11, <1>12
          DEF HandleConnection, Handler

LEMMA QueueCounts ==
  ASSUME TypeOK, Works, Registration, Scans, Slots, NEW q \in Queues,
         DispatchLoop(q) \/ Written(q)
  PROVE  Counts'
  <1>0. /\ inflight \in [Conns -> -1..Prefetch] /\ Prefetch \in Int /\ depth \in [Queues -> Nat]
        /\ q \in Goroutines /\ th[q].q = q
    BY CollectorAssumption, KindsDiffer, SMT DEF TypeOK, Works
  <1>1. /\ inflight \in [Conns -> Int] /\ \A k \in Conns : inflight[k] <= Prefetch
        /\ \A x \in Queues : depth[x] \in Nat
    BY <1>0, SMT
  <1>2. ASSUME UNCHANGED <<depth, inflight>>, NEW p, Moves(q, p),
               p \in {"select", "book"} => depth[q] > 0,
               p = "book" => inflight[th'[q].k] < Prefetch,
               p \in Out => th[q].pc \in Out /\ th'[q].k = th[q].k
        PROVE  Counts'
    <2>1. /\ th'[q].pc = p
          /\ \A x \in Queues : x # q => th'[x] = th[x]
          /\ \A k \in Conns : th'[k] = th[k]
      BY <1>2, KindsDiffer DEF Moves
    <2>2. \A k : Writing(k)' => Writing(k)
      BY <1>2, <2>1 DEF Writing
    <2>3. \A x \in Queues : /\ th'[x].pc \in {"select", "book"} => depth'[x] > 0
                            /\ th'[x].pc = "book" => inflight'[th'[x].k] < Prefetch
      BY <1>2, <2>1 DEF Slots
    <2>4. \A k \in Conns :
            inflight'[k] >= (IF Writing(k)' THEN 1 ELSE 0) - (IF th'[k].pc \in Left THEN 1 ELSE 0)
      <3> SUFFICES ASSUME NEW k \in Conns
                   PROVE  inflight'[k] >= (IF Writing(k)' THEN 1 ELSE 0)
                                            - (IF th'[k].pc \in Left THEN 1 ELSE 0)
        OBVIOUS
      <3>1. /\ inflight[k] >= (IF Writing(k) THEN 1 ELSE 0) - (IF th[k].pc \in Left THEN 1 ELSE 0)
            /\ inflight'[k] = inflight[k] /\ th'[k] = th[k] /\ inflight[k] \in Int
        BY <1>1, <1>2, <2>1 DEF Slots
      <3> QED BY <2>2, <3>1, SMT
    <2>5. Slots'
      BY <2>3, <2>4 DEF Slots
    <2> QED BY <1>0, <1>2, <2>5 DEF Counts
  <1>3. CASE Dispatch(q)
    <2>1. UNCHANGED <<depth, inflight>>
      BY <1>3 DEF Dispatch, stateVars
    <2>2. Moves(q, "select") /\ depth[q] > 0
      BY <1>3, QueueGoes DEF LooksAt
    <2> QED BY <1>2, <2>1, <2>2 DEF Out
  <1>4. CASE SelectConsumer(q)
    <2>1. UNCHANGED <<depth, inflight>> /\ th[q].pc = "select"
      BY <1>4 DEF SelectConsumer, stateVars, At
    <2>2. depth[q] > 0
      BY <2>1 DEF Slots
    <2>3. CASE GoesTo(q, "select", "book") /\ inflight[th[q].k] < Prefetch
      BY <1>2, <2>1, <2>2, <2>3 DEF GoesTo, Out
    <2>4. CASE Moves(q, "dispatch") \/ Moves(q, "select")
      BY <1>2, <2>1, <2>2, <2>4 DEF Out
    <2> QED BY <1>4, <2>3, <2>4, QueueGoes DEF GoesTo, LooksAt
  <1>5. CASE Written(q) \/ Failed(q)
    <2>1. UNCHANGED <<depth, inflight>>
      BY <1>5 DEF Written, Failed, stateVars
    <2>2. PICK p \in {"dispatch", "failed", "revert"} :
            /\ th[q].pc \in {"writing", "failed"} /\ Moves(q, p)
            /\ p # "dispatch" => th'[q].k = th[q].k
      BY <1>5, QueueGoes DEF GoesTo
    <2> QED BY <1>2, <2>1, <2>2 DEF Out
  <1>6. CASE Book(q) \/ Revert(q)
    <2> DEFINE n == IF Book(q) THEN 1 ELSE -1
    <2>1. /\ Book(q) => th[q].pc = "book"
          /\ ~Book(q) => th[q].pc = "revert"
      BY <1>6 DEF Book, Revert, At
    <2>2. PICK k \in Conns : k = th[q].k /\ on[k] = q
      <3>1. th[q].k \in Conns
        BY <2>1 DEF Works, Out
      <3>2. Book(q) => th[q].k \in consumers[q]
        BY <1>0, <2>1 DEF Scans
      <3>3. ~Book(q) => on[th[q].k] = q
        BY <2>1 DEF Scans, Out
      <3> QED BY <3>1, <3>2, <3>3 DEF Registration
    <2>3. /\ inflight' = [inflight EXCEPT ![k] = @ + n]
          /\ depth' = [depth EXCEPT ![q] = @ - n]
      BY <1>0, <1>1, <1>6, <2>2, SMT DEF Book, Revert
    <2>4. PICK p \in {"writing", "dispatch"} :
            /\ Moves(q, p) /\ (p = "writing" <=> Book(q))
            /\ p = "writing" => th'[q].k = k
      BY <1>6, <2>1, <2>2, QueueGoes DEF GoesTo
    <2>5. n \in {1, -1} /\ (Book(q) <=> n = 1)
      BY SMT
    <2>6. Book(q) => depth[q] > 0 /\ inflight[k] < Prefetch
      BY <2>1, <2>2 DEF Slots
    <2> HIDE DEF n
    <2>7. /\ depth' \in [Queues -> Nat]
          /\ \A x \in Queues : x # q => depth'[x] = depth[x]
      BY <1>0, <2>3, <2>5, <2>6, SMT
    <2>8. /\ inflight' \in [Conns -> Int]
          /\ \A j \in Conns : inflight'[j] = IF j = k THEN inflight[k] + n ELSE inflight[j]
      BY <1>1, <2>2, <2>3, <2>5, SMT
    <2>9. /\ th'[q].pc = p
          /\ \A x \in Queues : x # q => th'[x] = th[x]
          /\ \A j \in Conns : th'[j] = th[j]
      BY <2>4, KindsDiffer DEF Moves
    <2>10. \A x \in Queues \ {q} : th[x].pc \in {"book"} \union Out => th[x].k \in Conns /\ th[x].k # k
      <3> SUFFICES ASSUME NEW x \in Queues \ {q}, th[x].pc \in {"book"} \union Out
                   PROVE  th[x].k \in Conns /\ th[x].k # k
        OBVIOUS
      <3>1. th[x].k \in Conns /\ th[x].q = x /\ x \in Goroutines
        BY KindsDiffer DEF Works
      <3>2. th[x].pc = "book" => th[x].k \in consumers[x]
        BY <3>1 DEF Scans
      <3>3. on[th[x].k] = x
        BY <3>1, <3>2, SMT DEF Scans, Registration
      <3> QED BY <2>2, <3>1, <3>3
    <2>11. \A x \in Queues : /\ th'[x].pc \in {"select", "book"} => depth'[x] > 0
                             /\ th'[x].pc = "book" => inflight'[th'[x].k] < Prefetch
      BY <2>4, <2>7, <2>8, <2>9, <2>10, SMT DEF Slots
    <2>12. \A j \in Conns \ {k} : Writing(j)' => Writing(j)
      BY <2>4, <2>9 DEF Writing, Out
    <2>13. Writing(k)' <=> n = 1
      <3>1. n = 1 => Writing(k)'
        BY <2>4, <2>5, <2>9 DEF Writing, Out
      <3>2. n # 1 => ~Writing(k)'
        BY <2>4, <2>5, <2>9, <2>10 DEF Writing, Out
      <3> QED BY <3>1, <3>2
    <2>14. n # 1 => Writing(k)
      BY <2>1, <2>2, <2>5 DEF Writing, Out
    <2>15. n = 1 => th[k].pc \notin Left
      <3>1. n = 1 => k \in consumers[q]
        BY <1>0, <2>1, <2>2, <2>5 DEF Scans
      <3> QED BY <2>2, <3>1 DEF Registration
    <2>16. \A j \in Conns :
             inflight'[j] >= (IF Writing(j)' THEN 1 ELSE 0) - (IF th'[j].pc \in Left THEN 1 ELSE 0)
      <3> SUFFICES ASSUME NEW j \in Conns
                   PROVE  inflight'[j] >= (IF Writing(j)' THEN 1 ELSE 0)
                                            - (IF th'[j].pc \in Left THEN 1 ELSE 0)
        OBVIOUS
      <3>1. /\ inflight[j] >= (IF Writing(j) THEN 1 ELSE 0) - (IF th[j].pc \in Left THEN 1 ELSE 0)
            /\ inflight[j] \in Int /\ th'[j] = th[j]
        BY <1>1, <2>9 DEF Slots
      <3>2. CASE j # k
        BY <2>8, <2>12, <3>1, <3>2, SMT
      <3>3. CASE j = k /\ n = 1
        BY <2>8, <2>15, <3>1, <3>3, SMT
      <3>4. CASE j = k /\ n # 1
        BY <2>5, <2>8, <2>13, <2>14, <3>1, <3>4, SMT
      <3> QED BY <3>2, <3>3, <3>4
    <2>17. Slots'
      BY <2>11, <2>16 DEF Slots
    <2>18. \A j \in Conns : inflight'[j] <= Prefetch
      BY <1>0, <1>1, <2>2, <2>5, <2>6, <2>8, SMT
    <2> QED BY <2>7, <2>8, <2>17, <2>18, CountsFrom
  <1> QED BY <1>3, <1>4, <1>5, <1>6 DEF DispatchLoop

LEMMA ScrapeCounts ==
  ASSUME TypeOK, Works, Slots, NEW s \in Scrapers, Collect(s) \/ Scrape(s)
  PROVE  Counts'
  <1>1. UNCHANGED <<depth, inflight>>
    BY DEF Collect, CollectConnections, CollectBroker, CollectQueue, CollectConsumer,
           CollectedQueue, Collected, Scrape, stateVars
  <1>2. PICK p : Moves(s, p)
    BY ScrapeGoes DEF Collect, GoesTo, LooksAt, ToQueue
  <1>3. \A t \in Conns \union Queues : th'[t] = th[t]
    BY <1>2, KindsDiffer DEF Moves
  <1>4. \A k : Writing(k)' <=> Writing(k)
    BY <1>3 DEF Writing
  <1>5. Slots'
    BY <1>1, <1>3, <1>4 DEF Slots
  <1>6. depth' \in [Queues -> Nat] /\ inflight' \in [Conns -> -1..Prefetch]
    BY <1>1 DEF TypeOK
  <1> QED BY <1>5, <1>6 DEF Counts

-----------------------------------------------------------------------------
(* The counters and the gauges.                                             *)

\* A step after which the same connections and consumers are counted.
LEMMA GaugesKept ==
  ASSUME Gauges, UNCHANGED <<total, tracked>>,
         \A c \in Conns : /\ th'[c].pc \in NotOpen <=> th[c].pc \in NotOpen
                          /\ on'[c] # None /\ th'[c].pc \notin NotCounted <=>
                               on[c] # None /\ th[c].pc \notin NotCounted
                          /\ th'[c].pc \in Untracked <=> th[c].pc \in Untracked
  PROVE  Gauges'
  <1>1. Open' = Open
    BY DEF Open
  <1>2. Consuming' = Consuming
    BY DEF Consuming
  <1>3. {c \in Conns : th'[c].pc \notin Untracked} = {c \in Conns : th[c].pc \notin Untracked}
    OBVIOUS
  <1> QED BY <1>1, <1>2, <1>3 DEF Gauges

LEMMA ConnKeepsGauges ==
  ASSUME Gauges, NEW c \in Conns, NEW p, Moves(c, p), UNCHANGED <<total, tracked, on>>,
         p \in NotOpen <=> th[c].pc \in NotOpen,
         on[c] # None => (p \in NotCounted <=> th[c].pc \in NotCounted),
         p \in Untracked <=> th[c].pc \in Untracked
  PROVE  Gauges'
  <1>1. th'[c].pc = p /\ \A d \in Conns : d # c => th'[d] = th[d]
    BY KindsDiffer DEF Moves
  <1> QED BY <1>1, GaugesKept

LEMMA CountIs ==
  ASSUME TypeOK, NEW m \in Counters, Count(m)
  PROVE  /\ total' \in [Counters -> Nat]
         /\ \A n \in Counters : total'[n] = IF n = m THEN total[n] + 1 ELSE total[n]
  <1>1. total \in [Counters -> Nat]
    BY DEF TypeOK
  <1> QED BY <1>1, SMT DEF Count

LEMMA GaugesStep ==
  ASSUME TypeOK, Works, Registration, Gauges, Next
  PROVE  Gauges'
  <1>1. ASSUME NEW c \in Conns, HandleConnection(c) \/ Request(c)
        PROVE  Gauges'
    <2>0. /\ c \in Goroutines /\ total \in [Counters -> Nat]
          /\ IsFiniteSet(Open) /\ IsFiniteSet(Consuming)
          /\ Cardinality(Open) \in Nat /\ Cardinality(Consuming) \in Nat
      <3>1. Open \subseteq Conns /\ Consuming \subseteq Conns
        BY DEF Open, Consuming
      <3>2. IsFiniteSet(Open) /\ IsFiniteSet(Consuming)
        BY <3>1, CollectorAssumption, FS_Subset
      <3> QED BY <3>2, FS_CardinalityType, KindsDiffer DEF TypeOK
    <2>1. ASSUME NEW p, NEW r, GoesTo(c, p, r), UNCHANGED <<total, tracked, on>>,
                 p \in NotOpen <=> r \in NotOpen,
                 on[c] # None => (p \in NotCounted <=> r \in NotCounted),
                 p \in Untracked <=> r \in Untracked
          PROVE  Gauges'
      BY <2>1, ConnKeepsGauges DEF GoesTo
    <2>2. CASE PublishLookup(c) \/ Enqueue(c) \/ ConsumeLookup(c) \/ AckFind(c)
      <3>1. UNCHANGED <<total, tracked, on>>
        BY <2>2 DEF PublishLookup, Enqueue, ConsumeLookup, AckFind, stateVars, metricVars
      <3> QED BY <2>1, <2>2, <3>1, ConnGoes, SMT DEF NotOpen, NotCounted, Untracked
    <2>3. CASE AckLookup(c) \/ Unregister(c) \/ Return(c)
      <3>1. UNCHANGED <<total, tracked, on>>
        BY <2>3 DEF AckLookup, Unregister, Return, stateVars, metricVars
      <3> QED BY <2>1, <2>3, <3>1, ConnGoes, SMT DEF NotOpen, NotCounted, Untracked
    <2>4. CASE Request(c)
      <3>1. UNCHANGED <<total, tracked, on>>
        BY <2>4 DEF Request, stateVars, metricVars
      <3>2. PICK p \in {"declare", "publish", "consume", "ackFind", "nack", "closing"} :
              th[c].pc = "serve" /\ Moves(c, p)
        BY <2>4, RequestGoes DEF GoesTo
      <3>3. /\ p \notin NotOpen /\ "serve" \notin NotOpen
            /\ p \notin NotCounted /\ "serve" \notin NotCounted
            /\ p \notin Untracked /\ "serve" \notin Untracked
        BY <3>2 DEF NotOpen, NotCounted, Untracked
      <3> QED BY <3>1, <3>2, <3>3, ConnKeepsGauges
    <2>5. CASE AckLock(c) \/ AckScan(c) \/ Nack(c)
      <3>1. UNCHANGED <<total, tracked, on>>
        BY <2>5 DEF AckLock, AckScan, Nack, stateVars, metricVars
      <3>2. PICK p \in {"ackScan", "serve", "requeue", "publish"} :
              th[c].pc \in {"ack", "ackScan", "nack"} /\ Moves(c, p)
        BY <2>5, AckLockGoes, AckScanGoes, NackGoes DEF GoesTo, LooksAt
      <3>3. /\ p \notin NotOpen /\ th[c].pc \notin NotOpen
            /\ p \notin NotCounted /\ th[c].pc \notin NotCounted
            /\ p \notin Untracked /\ th[c].pc \notin Untracked
        BY <3>2 DEF NotOpen, NotCounted, Untracked
      <3> QED BY <3>1, <3>2, <3>3, ConnKeepsGauges
    <2>6. CASE Cleanup(c)
      <3>1. UNCHANGED <<total, tracked, on>>
        BY <2>6 DEF Cleanup, stateVars, metricVars
      <3>2. CASE th[c].pc = "cleanup" /\ Moves(c, "unregister")
        <4>1. /\ "cleanup" \in NotOpen /\ "unregister" \in NotOpen
              /\ "cleanup" \notin NotCounted /\ "unregister" \notin NotCounted
              /\ "cleanup" \notin Untracked /\ "unregister" \notin Untracked
          BY DEF NotOpen, NotCounted, Untracked
        <4> QED BY <3>1, <3>2, <4>1, ConnKeepsGauges
      <3>3. CASE on[c] = None /\ GoesTo(c, "cleanup", "untrack")
        BY <2>1, <3>1, <3>3 DEF NotOpen, Untracked
      <3> QED BY <2>6, <3>2, <3>3, CleanupGoes
    <2>7. CASE DeclareQueue(c)
      <3>1. UNCHANGED <<total, tracked, on>>
        BY <2>7 DEF DeclareQueue, metricVars
      <3>2. th[c].pc = "declare" /\ th'[c].pc = "serve" /\ \A d \in Conns \ {c} : th'[d] = th[d]
        BY <2>7, DeclareMoves, KindsDiffer, SMT
      <3>3. /\ "declare" \notin NotOpen /\ "serve" \notin NotOpen
            /\ "declare" \notin NotCounted /\ "serve" \notin NotCounted
            /\ "declare" \notin Untracked /\ "serve" \notin Untracked
        BY DEF NotOpen, NotCounted, Untracked
      <3> QED BY <3>1, <3>2, <3>3, GaugesKept
    <2>8. ASSUME NEW p, NEW r, GoesTo(c, p, r)
          PROVE  th[c].pc = p /\ th'[c].pc = r /\ \A d \in Conns : d # c => th'[d] = th[d]
      BY <2>8, KindsDiffer DEF GoesTo, Moves
    <2>9. CASE Register(c)
      <3>1. th[c].pc = "register" /\ th'[c].pc = "registered" /\ \A d \in Conns : d # c => th'[d] = th[d]
        BY <2>8, <2>9, ConnGoes
      <3>2. UNCHANGED <<total, tracked>> /\ on[c] = None /\ \A d \in Conns : d # c => on'[d] = on[d]
        <4>1. on \in [Conns -> Queues \union {None}]
          BY DEF TypeOK
        <4> QED BY <2>9, <3>1, <4>1 DEF Register, Registration, metricVars
      <3>3. /\ "register" \notin NotOpen /\ "registered" \notin NotOpen
            /\ "registered" \in NotCounted
            /\ "register" \notin Untracked /\ "registered" \notin Untracked
        BY DEF NotOpen, NotCounted, Untracked
      <3> QED BY <3>1, <3>2, <3>3, GaugesKept
    <2>10. CASE Track(c) \/ Untrack(c)
      <3> DEFINE p == IF Track(c) THEN "track" ELSE "untrack"
                 r == IF Track(c) THEN "accepted" ELSE "gone"
      <3>1. th[c].pc = p /\ th'[c].pc = r /\ \A d \in Conns : d # c => th'[d] = th[d]
        BY <2>8, <2>10, ConnGoes
      <3>2. /\ UNCHANGED <<total, on>>
            /\ tracked' = IF Track(c) THEN tracked \union {c} ELSE tracked \ {c}
        BY <2>10, <3>1 DEF Track, Untrack, metricVars, At
      <3>3. /\ p \in NotOpen /\ r \in NotOpen
            /\ r \in Untracked <=> ~Track(c)
        BY DEF NotOpen, Untracked
      <3>4. on[c] # None => p \in NotCounted /\ r \in NotCounted
        BY <3>1 DEF NotCounted, Registration
      <3> HIDE DEF p, r
      <3>5. Open' = Open
        BY <3>1, <3>3 DEF Open
      <3>6. Consuming' = Consuming
        BY <3>1, <3>2, <3>4 DEF Consuming
      <3>7. tracked' = {d \in Conns : th'[d].pc \notin Untracked}
        BY <3>1, <3>2, <3>3 DEF Gauges
      <3> QED BY <3>2, <3>5, <3>6, <3>7 DEF Gauges
    <2>11. CASE Accepted(c) \/ Closing(c)
      <3>1. UNCHANGED <<tracked, on>>
        BY <2>11 DEF Accepted, Closing, stateVars
      <3>2. CASE Accepted(c)
        <4>1. th[c].pc = "accepted" /\ th'[c].pc = "serve" /\ \A d \in Conns : d # c => th'[d] = th[d]
          BY <2>8, <3>2, ConnGoes
        <4>2. Open' = Open \union {c} /\ c \notin Open
          BY <4>1 DEF Open, NotOpen
        <4>3. Cardinality(Open') = Cardinality(Open) + 1
          BY <2>0, <4>2, FS_AddElement
        <4>4. /\ total'["opened"] = total["opened"] + 1 /\ total'["closed"] = total["closed"]
              /\ total'["registered"] = total["registered"]
              /\ total'["unregistered"] = total["unregistered"]
          BY <3>2, CountIs DEF Accepted, Counters
        <4>5. Consuming' = Consuming
          BY <3>1, <4>1 DEF Consuming, NotCounted
        <4>6. tracked' = {d \in Conns : th'[d].pc \notin Untracked}
          BY <3>1, <4>1 DEF Gauges, Untracked
        <4> QED BY <2>0, <4>3, <4>4, <4>5, <4>6, SMT DEF Gauges, Counters
      <3>3. CASE Closing(c)
        <4>1. th[c].pc = "closing" /\ th'[c].pc = "cleanup" /\ \A d \in Conns : d # c => th'[d] = th[d]
          BY <2>8, <3>3, ConnGoes
        <4>2. Open' = Open \ {c} /\ c \in Open
          BY <4>1 DEF Open, NotOpen
        <4>3. Cardinality(Open') = Cardinality(Open) - 1
          BY <2>0, <4>2, FS_RemoveElement
        <4>4. /\ total'["opened"] = total["opened"] /\ total'["closed"] = total["closed"] + 1
              /\ total'["registered"] = total["registered"]
              /\ total'["unregistered"] = total["unregistered"]
          BY <3>3, CountIs DEF Closing, Counters
        <4>5. Consuming' = Consuming
          BY <3>1, <4>1 DEF Consuming, NotCounted
        <4>6. tracked' = {d \in Conns : th'[d].pc \notin Untracked}
          BY <3>1, <4>1 DEF Gauges, Untracked
        <4> QED BY <2>0, <4>3, <4>4, <4>5, <4>6, SMT DEF Gauges, Counters
      <3> QED BY <2>11, <3>2, <3>3
    <2>12. CASE Registered(c) \/ Unregistered(c)
      <3>1. UNCHANGED <<tracked, on>>
        BY <2>12 DEF Registered, Unregistered, stateVars
      <3>2. CASE Registered(c)
        <4>1. th[c].pc = "registered" /\ th'[c].pc = "serve" /\ \A d \in Conns : d # c => th'[d] = th[d]
          BY <2>8, <3>2, ConnGoes
        <4>2. Consuming' = Consuming \union {c} /\ c \notin Consuming
          BY <3>1, <4>1, SMT DEF Consuming, NotCounted, Registration
        <4>3. Cardinality(Consuming') = Cardinality(Consuming) + 1
          BY <2>0, <4>2, FS_AddElement
        <4>4. /\ total'["opened"] = total["opened"] /\ total'["closed"] = total["closed"]
              /\ total'["registered"] = total["registered"] + 1
              /\ total'["unregistered"] = total["unregistered"]
          BY <3>2, CountIs DEF Registered, Counters
        <4>5. Open' = Open
          BY <4>1 DEF Open, NotOpen
        <4>6. tracked' = {d \in Conns : th'[d].pc \notin Untracked}
          BY <3>1, <4>1 DEF Gauges, Untracked
        <4> QED BY <2>0, <4>3, <4>4, <4>5, <4>6, SMT DEF Gauges, Counters
      <3>3. CASE Unregistered(c)
        <4>1. th[c].pc = "unregistered" /\ th'[c].pc = "untrack" /\ \A d \in Conns : d # c => th'[d] = th[d]
          BY <2>8, <3>3, ConnGoes
        <4>2. Consuming' = Consuming \ {c} /\ c \in Consuming
          BY <3>1, <4>1, SMT DEF Consuming, NotCounted, Registration
        <4>3. Cardinality(Consuming') = Cardinality(Consuming) - 1
          BY <2>0, <4>2, FS_RemoveElement
        <4>4. /\ total'["opened"] = total["opened"] /\ total'["closed"] = total["closed"]
              /\ total'["registered"] = total["registered"]
              /\ total'["unregistered"] = total["unregistered"] + 1
          BY <3>3, CountIs DEF Unregistered, Counters
        <4>5. Open' = Open
          BY <4>1 DEF Open, NotOpen
        <4>6. tracked' = {d \in Conns : th'[d].pc \notin Untracked}
          BY <3>1, <4>1 DEF Gauges, Untracked
        <4> QED BY <2>0, <4>3, <4>4, <4>5, <4>6, SMT DEF Gauges, Counters
      <3> QED BY <2>12, <3>2, <3>3
    <2> QED BY <1>1, <2>2, <2>3, <2>4, <2>5, <2>6, <2>7, <2>9, <2>10, <2>11, <2>12
            DEF HandleConnection, Handler
  <1>2. ASSUME NEW t \in Queues \union Scrapers, NEW p, Moves(t, p), UNCHANGED <<total, tracked, on>>
        PROVE  Gauges'
    <2>1. \A d \in Conns : th'[d] = th[d]
      BY <1>2, KindsDiffer DEF Moves
    <2> QED BY <1>2, <2>1, GaugesKept
  <1>3. ASSUME NEW q \in Queues, DispatchLoop(q) \/ Written(q)
        PROVE  Gauges'
    <2>1. UNCHANGED <<total, tracked, on>>
      BY <1>3 DEF DispatchLoop, Dispatch, SelectConsumer, Book, Failed, Revert, Written, stateVars,
                  metricVars
    <2>2. \E p : Moves(q, p)
      BY <1>3, QueueGoes DEF DispatchLoop, GoesTo, LooksAt
    <2> QED BY <1>2, <2>1, <2>2
  <1>4. ASSUME NEW s \in Scrapers, Collect(s) \/ Scrape(s)
        PROVE  Gauges'
    <2>1. UNCHANGED <<total, tracked, on>>
      BY <1>4 DEF Collect, CollectConnections, CollectBroker, CollectQueue, CollectConsumer,
                  CollectedQueue, Collected, Scrape, stateVars, metricVars
    <2>2. \E p : Moves(s, p)
      BY <1>4, ScrapeGoes DEF Collect, GoesTo, LooksAt, ToQueue
    <2> QED BY <1>2, <2>1, <2>2
  <1> QED BY <1>1, <1>3, <1>4 DEF Next

\* Once no handler is half way, the counters are the gauges.
LEMMA GaugesFollow ==
  ASSUME TypeOK, Works, Registration, Gauges
  PROVE  GaugesAgree
  <1>1. /\ Open \subseteq tracked /\ IsFiniteSet(tracked)
        /\ Open \subseteq Conns /\ Consuming \subseteq Conns
        /\ IsFiniteSet(Open) /\ IsFiniteSet(Consuming)
    <2>1. Open \subseteq tracked /\ tracked \subseteq Conns
      BY DEF Gauges, Open, NotOpen, Untracked
    <2>2. Open \subseteq Conns /\ Consuming \subseteq Conns
      BY DEF Open, Consuming
    <2> QED BY <2>1, <2>2, CollectorAssumption, FS_Subset
  <1>2. total.opened - total.closed <= Cardinality(tracked)
    BY <1>1, FS_Subset DEF Gauges
  <1>3. \A q \in Queues : consumers[q] \subseteq tracked
    <2> SUFFICES ASSUME NEW q \in Queues, NEW k \in consumers[q]
                 PROVE  k \in tracked
      OBVIOUS
    <2>1. k \in Conns
      BY DEF TypeOK
    <2>2. on[k] = q /\ th[k].pc \notin Left
      BY <2>1 DEF Registration
    <2>3. th[k].pc # "track"
      BY <2>1, <2>2, CollectorAssumption DEF Registration
    <2> QED BY <2>1, <2>2, <2>3 DEF Gauges, Untracked, Left
  <1>4. ASSUME Settled
        PROVE  /\ total.opened - total.closed = Cardinality(tracked)
               /\ total.registered - total.unregistered =
                    Cardinality({r \in Queues \X Conns : r[2] \in consumers[r[1]]})
    <2> DEFINE R == {r \in Queues \X Conns : r[2] \in consumers[r[1]]}
               f == [c \in Consuming |-> <<on[c], c>>]
    <2>1. Open = tracked
      BY <1>4 DEF Settled, Gauges, Open, NotOpen, Untracked
    <2>2. \A c \in Conns : th[c].pc \in Left <=> th[c].pc \in NotCounted
      BY <1>4 DEF Settled, Left, NotCounted
    <2>3. \A c \in Consuming : on[c] \in Queues /\ c \in consumers[on[c]]
      <3>1. \A c \in Conns : on[c] \in Queues \union {None}
        BY DEF TypeOK
      <3> QED BY <2>2, <3>1 DEF Consuming, Registration
    <2>4. \A q \in Queues, c \in Conns : c \in consumers[q] => c \in Consuming /\ on[c] = q
      BY <2>2, CollectorAssumption, SMT DEF Consuming, Registration
    <2>5. f \in [Consuming -> R]
      BY <1>1, <2>3
    <2>6. \A a, b \in Consuming : f[a] = f[b] => a = b
      OBVIOUS
    <2>7. \A r \in R : \E c \in Consuming : f[c] = r
      <3> SUFFICES ASSUME NEW r \in R
                   PROVE  r[2] \in Consuming /\ f[r[2]] = r
        OBVIOUS
      <3>1. r[1] \in Queues /\ r[2] \in Conns /\ r = <<r[1], r[2]>>
        BY SMT
      <3>2. r[2] \in consumers[r[1]]
        OBVIOUS
      <3> QED BY <2>4, <3>1, <3>2
    <2> HIDE DEF f, R
    <2>8. f \in Bijection(Consuming, R)
      BY <2>5, <2>6, <2>7, Fun_IsBij
    <2>9. Cardinality(R) = Cardinality(Consuming)
      BY <1>1, <2>8, FS_Bijection DEF ExistsBijection
    <2> QED BY <2>1, <2>9 DEF Gauges, R
  <1> QED BY <1>2, <1>3, <1>4 DEF GaugesAgree

-----------------------------------------------------------------------------
(* Types.                                                                   *)

LEMMA ReadingsGrow ==
  ASSUME NEW R, NEW T
  PROVE  Reading(R) \subseteq Reading(R \union T)
  BY DEF Reading

LEMMA NextQueueReads ==
  ASSUME Readings, NEW s \in Scrapers, NEW S \in SUBSET Queues, NextQueue(s, S)
  PROVE  Readings'
  <1>1. PICK R : scrape \in [Scrapers -> Reading(R)]
    BY DEF Readings
  <1>2. scrape \in [Scrapers -> Reading(R \union {0})]
    BY <1>1, ReadingsGrow
  <1> DEFINE r == [scrape[s] EXCEPT !.todo = S \ {th'[s].q}, !.base = 0, !.got = 0, !.nacks = 0]
  <1>3. scrape' = [scrape EXCEPT ![s] = r]
    BY DEF NextQueue
  <1>4. r \in Reading(R \union {0})
    BY <1>2 DEF Reading
  <1> QED BY <1>2, <1>3, <1>4 DEF Readings

LEMMA ReadingsStep ==
  ASSUME TypeOK, Readings, Next
  PROVE  Readings'
  <1>1. PICK R : scrape \in [Scrapers -> Reading(R)]
    BY DEF Readings
  <1>2. CASE scrape' = scrape
    BY <1>1, <1>2 DEF Readings
  <1>3. ASSUME NEW c \in Conns, Nack(c)
        PROVE  Readings'
    <2> DEFINE T == {scrape[s].nacks + 1 : s \in Scrapers}
    <2>1. CASE scrape' = [s \in Scrapers |->
             IF owner[QueueMu(on[c])] = s THEN [scrape[s] EXCEPT !.nacks = @ + 1] ELSE scrape[s]]
      <3>1. scrape \in [Scrapers -> Reading(R \union T)]
        BY <1>1, ReadingsGrow
      <3>2. \A s \in Scrapers : [scrape[s] EXCEPT !.nacks = @ + 1] \in Reading(R \union T)
        BY <1>1 DEF Reading
      <3> QED BY <2>1, <3>1, <3>2 DEF Readings
    <2> QED BY <1>2, <1>3, <2>1 DEF Nack
  <1>4. ASSUME NEW s \in Scrapers, Collect(s) \/ Scrape(s)
        PROVE  Readings'
    <2>1. CASE Scrape(s) \/ CollectConnections(s)
      BY <1>2, <2>1 DEF Scrape, CollectConnections, metricVars
    <2>2. CASE CollectBroker(s)
      BY <2>2, NextQueueReads DEF CollectBroker, TypeOK
    <2>3. CASE CollectedQueue(s)
      BY <2>3, NextQueueReads DEF CollectedQueue, TypeOK
    <2>4. ASSUME NEW T, NEW r \in Reading(R \union T), scrape' = [scrape EXCEPT ![s] = r]
          PROVE  Readings'
      <3>1. scrape \in [Scrapers -> Reading(R \union T)]
        BY <1>1, ReadingsGrow
      <3> QED BY <2>4, <3>1 DEF Readings
    <2>5. CASE CollectQueue(s)
      <3> DEFINE q == th[s].q
                 r == [scrape[s] EXCEPT !.base = Backlog(q), !.got = depth[q], !.nacks = 0]
      <3>1. scrape' = [scrape EXCEPT ![s] = r]
        BY <1>1, <2>5 DEF CollectQueue
      <3>2. r \in Reading(R \union {Backlog(q), depth[q], 0})
        BY <1>1 DEF Reading
      <3> HIDE DEF r
      <3> QED BY <2>4, <3>1, <3>2
    <2>6. CASE CollectConsumer(s)
      <3> DEFINE g == scrape[s].got + inflight[th[s].k]
                 l == scrape[s].labels \union {<<th[s].q, tag[th[s].k]>>}
                 x == scrape[s].clash \/ <<th[s].q, tag[th[s].k]>> \in scrape[s].labels
                 r == [scrape[s] EXCEPT !.got = g, !.labels = l, !.clash = x]
      <3>1. scrape' = [scrape EXCEPT ![s] = r]
        BY <1>1, <2>6 DEF CollectConsumer
      <3>2. r \in Reading(R \union {g, l, x})
        <4> HIDE DEF g, l, x
        <4> QED BY <1>1 DEF Reading
      <3> HIDE DEF r
      <3> QED BY <2>4, <3>1, <3>2
    <2>7. CASE Collected(s)
      <3>1. NoReading \in Reading(R \union {0, {}, FALSE})
        BY DEF NoReading, Reading
      <3> QED BY <2>4, <2>7, <3>1 DEF Collected
    <2> QED BY <1>4, <2>1, <2>2, <2>3, <2>5, <2>6, <2>7 DEF Collect
  <1>5. ASSUME NEW c \in Conns, HandleConnection(c) \/ Request(c), ~Nack(c)
        PROVE  scrape' = scrape
    <2>1. CASE Handler(c)
      BY <1>5, <2>1 DEF Handler, DeclareQueue, PublishLookup, Enqueue, ConsumeLookup, Register,
         Registered, AckFind, AckLookup, AckLock, AckScan, Unregister, Return, Unregistered,
         metricVars
    <2>2. CASE ~Handler(c)
      BY <1>5, <2>2 DEF HandleConnection, Request, Track, Accepted, Closing, Cleanup, Untrack,
         metricVars
    <2> QED BY <2>1, <2>2
  <1>6. ASSUME NEW q \in Queues, DispatchLoop(q) \/ Written(q)
        PROVE  scrape' = scrape
    BY <1>6 DEF DispatchLoop, Written, Dispatch, SelectConsumer, Book, Failed, Revert, metricVars
  <1> QED BY <1>2, <1>3, <1>4, <1>5, <1>6 DEF Next

LEMMA ThreadsStep ==
  ASSUME TypeOK, Works, Registration, Next
  PROVE  th' \in [Goroutines -> Threads]
  <1>1. ASSUME NEW c \in Conns, HandleConnection(c) \/ Request(c)
        PROVE  th' \in [Goroutines -> Threads]
    <2>1. CASE \/ Track(c) \/ Accepted(c) \/ Closing(c) \/ Untrack(c) \/ PublishLookup(c)
               \/ Enqueue(c) \/ ConsumeLookup(c) \/ Register(c) \/ Registered(c) \/ AckFind(c)
               \/ AckLookup(c) \/ Unregister(c) \/ Return(c) \/ Unregistered(c)
      BY <2>1, ConnGoes DEF GoesTo, Moves
    <2>2. CASE Request(c) \/ Cleanup(c)
      BY <2>2, RequestGoes, CleanupGoes DEF GoesTo, Moves
    <2>3. CASE AckLock(c) \/ AckScan(c) \/ Nack(c)
      BY <2>3, AckLockGoes, AckScanGoes, NackGoes DEF GoesTo, LooksAt, Moves
    <2>4. CASE DeclareQueue(c)
      BY <2>4, DeclareMoves
    <2> QED BY <1>1, <2>1, <2>2, <2>3, <2>4 DEF HandleConnection, Handler
  <1>2. ASSUME NEW q \in Queues, DispatchLoop(q) \/ Written(q)
        PROVE  th' \in [Goroutines -> Threads]
    BY <1>2, QueueGoes DEF DispatchLoop, GoesTo, LooksAt, Moves
  <1>3. ASSUME NEW s \in Scrapers, Collect(s) \/ Scrape(s)
        PROVE  th' \in [Goroutines -> Threads]
    BY <1>3, ScrapeGoes DEF Collect, ToQueue, GoesTo, LooksAt, Moves
  <1> QED BY <1>1, <1>2, <1>3 DEF Next

LEMMA OwnersStep ==
  ASSUME TypeOK, Works, Registration, Next
  PROVE  owner' \in [Locks -> Goroutines \union {None}]
  <1>1. owner \in [Locks -> Goroutines \union {None}]
    BY DEF TypeOK
  <1>2. ASSUME NEW t \in Goroutines, NEW l \in Locks,
               owner' = owner \/ Take(t, l) \/ Give(l)
        PROVE  owner' \in [Locks -> Goroutines \union {None}]
    BY <1>1, <1>2 DEF Take, Give
  <1>3. ASSUME NEW c \in Conns, HandleConnection(c) \/ Request(c)
        PROVE  owner' \in [Locks -> Goroutines \union {None}]
    <2>1. c \in Goroutines /\ ConnMu(c) \in Locks /\ (th[c].pc \in OnQueue => QueueMu(th[c].q) \in Locks)
      BY KindsDiffer, LocksDiffer DEF Works
    <2>2. CASE \/ Track(c) \/ Accepted(c) \/ Closing(c) \/ Untrack(c) \/ PublishLookup(c)
               \/ Enqueue(c) \/ ConsumeLookup(c) \/ Register(c) \/ Registered(c) \/ AckFind(c)
               \/ AckLookup(c) \/ DeclareQueue(c) \/ Nack(c) \/ Request(c)
      BY <1>1, <2>2 DEF Track, Accepted, Closing, Untrack, PublishLookup, Enqueue, ConsumeLookup,
         Register, Registered, AckFind, AckLookup, DeclareQueue, Nack, Request
    <2>3. CASE Cleanup(c)
      BY <1>2, <2>1, <2>3, CleanupGoes
    <2>4. CASE Unregistered(c)
      BY <1>2, <2>1, <2>4 DEF Unregistered
    <2>5. CASE AckLock(c)
      BY <1>2, <2>1, <2>5, AckLockGoes, LocksDiffer DEF AckLock
    <2>6. CASE AckScan(c)
      BY <1>2, <2>1, <2>6, AckScanGoes, LocksDiffer
    <2>7. CASE Unregister(c) \/ Return(c)
      BY <1>2, <2>1, <2>7 DEF Unregister, Return, At, OnQueue
    <2> QED BY <1>3, <2>2, <2>3, <2>4, <2>5, <2>6, <2>7 DEF HandleConnection, Handler
  <1>4. ASSUME NEW q \in Queues, DispatchLoop(q) \/ Written(q)
        PROVE  owner' \in [Locks -> Goroutines \union {None}]
    <2>1. q \in Goroutines /\ QueueMu(q) \in Locks
      BY KindsDiffer, LocksDiffer
    <2>2. owner' = owner \/ Take(q, QueueMu(q)) \/ Give(QueueMu(q))
      BY <1>4, QueueGoes DEF DispatchLoop, Written, Dispatch, Book, Failed, Revert
    <2> QED BY <1>2, <2>1, <2>2
  <1>5. ASSUME NEW s \in Scrapers, Collect(s) \/ Scrape(s)
        PROVE  owner' \in [Locks -> Goroutines \union {None}]
    <2>1. /\ s \in Goroutines /\ BrokerMu \in Locks
          /\ th[s].pc \in {"queue", "queueRead"} => QueueMu(th[s].q) \in Locks
      BY KindsDiffer, LocksDiffer DEF Works
    <2>2. CASE CollectQueue(s) \/ CollectedQueue(s)
      BY <1>2, <2>1, <2>2 DEF CollectQueue, CollectedQueue, At
    <2>3. CASE ~(CollectQueue(s) \/ CollectedQueue(s))
      BY <1>2, <1>5, <2>1, <2>3 DEF Collect, Scrape, CollectConnections, CollectBroker,
         CollectConsumer, Collected
    <2> QED BY <2>2, <2>3
  <1> QED BY <1>3, <1>4, <1>5 DEF Next

LEMMA CountsStep ==
  ASSUME TypeOK, Works, Registration, Scans, Slots, Next
  PROVE  Counts'
  BY ConnCounts, QueueCounts, ScrapeCounts DEF Next

\* The state of the connections, the broker and the consumers.
LEMMA StateStep ==
  ASSUME TypeOK, Works, Next
  PROVE  /\ tracked' \subseteq Conns /\ declared' \subseteq Queues
         /\ consumers' \in [Queues -> SUBSET Conns]
         /\ on' \in [Conns -> Queues \union {None}] /\ tag' \in [Conns -> Tags \union {None}]
         /\ total' \in [Counters -> Nat]
  <1> DEFINE Fine == /\ tracked' \subseteq Conns /\ declared' \subseteq Queues
                     /\ consumers' \in [Queues -> SUBSET Conns]
                     /\ on' \in [Conns -> Queues \union {None}]
                     /\ tag' \in [Conns -> Tags \union {None}]
                     /\ total' \in [Counters -> Nat]
  <1>1. /\ tracked \subseteq Conns /\ declared \subseteq Queues
        /\ consumers \in [Queues -> SUBSET Conns]
        /\ on \in [Conns -> Queues \union {None}] /\ tag \in [Conns -> Tags \union {None}]
        /\ total \in [Counters -> Nat]
    BY DEF TypeOK
  <1>2. CASE UNCHANGED <<tracked, declared, consumers, on, tag, total>>
    BY <1>1, <1>2
  <1>3. ASSUME NEW c \in Conns, HandleConnection(c) \/ Request(c)
        PROVE  Fine
    <2>1. th[c].pc \in OnQueue => th[c].q \in Queues
      BY DEF Works
    <2>2. CASE Track(c) \/ Untrack(c)
      BY <1>1, <2>2 DEF Track, Untrack, metricVars
    <2>3. CASE DeclareQueue(c)
      BY <1>1, <2>1, <2>3 DEF DeclareQueue, metricVars, At, OnQueue
    <2>4. CASE Accepted(c) \/ Closing(c) \/ Registered(c) \/ Unregistered(c)
      <3>1. total' \in [Counters -> Nat]
        BY <2>4, CountIs DEF Accepted, Closing, Registered, Unregistered, Counters
      <3> QED BY <1>1, <2>4, <3>1 DEF Accepted, Closing, Registered, Unregistered, stateVars
    <2>5. CASE Register(c)
      <3>1. th[c].q \in Queues
        BY <2>1, <2>5 DEF Register, At, OnQueue
      <3> QED BY <1>1, <2>5, <3>1 DEF Register, metricVars
    <2>6. CASE Return(c)
      BY <1>1, <2>6 DEF Return, metricVars
    <2>7. CASE PublishLookup(c) \/ Enqueue(c) \/ ConsumeLookup(c) \/ AckFind(c) \/ AckLookup(c)
      BY <1>2, <2>7 DEF PublishLookup, Enqueue, ConsumeLookup, AckFind, AckLookup, stateVars,
         metricVars
    <2>8. CASE AckLock(c) \/ AckScan(c) \/ Nack(c) \/ Unregister(c) \/ Cleanup(c) \/ Request(c)
      BY <1>2, <2>8 DEF AckLock, AckScan, Nack, Unregister, Cleanup, Request, stateVars,
         metricVars
    <2> QED BY <1>3, <2>2, <2>3, <2>4, <2>5, <2>6, <2>7, <2>8 DEF HandleConnection, Handler
  <1>4. ASSUME NEW q \in Queues, DispatchLoop(q) \/ Written(q)
        PROVE  Fine
    BY <1>2, <1>4 DEF DispatchLoop, Written, Dispatch, SelectConsumer, Book, Failed, Revert,
       stateVars, metricVars
  <1>5. ASSUME NEW s \in Scrapers, Collect(s) \/ Scrape(s)
        PROVE  Fine
    BY <1>2, <1>5 DEF Collect, Scrape, CollectConnections, CollectBroker, CollectQueue,
       CollectConsumer, CollectedQueue, Collected, stateVars, metricVars
  <1> QED BY <1>3, <1>4, <1>5 DEF Next

LEMMA TypeStep ==
  ASSUME TypeOK, Readings, Works, Registration, Scans, Slots, Next
  PROVE  TypeOK' /\ Readings' /\ Slots'
  <1>1. Readings' /\ Counts'
    BY ReadingsStep, CountsStep
  <1>2. \A s \in Scrapers : scrape'[s].todo \subseteq Queues
    BY <1>1 DEF Readings, Reading
  <1>3. /\ depth' \in [Queues -> Nat] /\ inflight' \in [Conns -> -1..Prefetch]
        /\ Slots'
    BY <1>1 DEF Counts
  <1>4. th' \in [Goroutines -> [pc : Points, q : Queues \union {None}, k : Conns \union {None},
                                scan : SUBSET Conns]]
    BY ThreadsStep DEF Threads
  <1>5. owner' \in [Locks -> Goroutines \union {None}]
    BY OwnersStep
  <1> QED BY <1>1, <1>2, <1>3, <1>4, <1>5, StateStep DEF TypeOK

-----------------------------------------------------------------------------
(* The theorems.                                                            *)

LEMMA InitInv ==
  ASSUME Init
  PROVE  CollectorInv
  <1>1. /\ \A c \in Conns : /\ th[c].pc = "track" /\ th[c].q = None /\ th[c].k = None
                            /\ th[c].scan = {}
        /\ \A q \in Queues : /\ th[q].pc = "off" /\ th[q].q = q /\ th[q].k = None
                             /\ th[q].scan = {}
        /\ \A s \in Scrapers : /\ th[s].pc = "idle" /\ th[s].q = None /\ th[s].k = None
                               /\ th[s].scan = {}
    BY KindsDiffer DEF Init
  <1>2. /\ owner = [l \in Locks |-> None] /\ tracked = {} /\ declared = {}
        /\ depth = [q \in Queues |-> 0] /\ consumers = [q \in Queues |-> {}]
        /\ inflight = [k \in Conns |-> 0]
        /\ on = [k \in Conns |-> None] /\ tag = [k \in Conns |-> None]
        /\ total = [m \in Counters |-> 0] /\ scrape = [s \in Scrapers |-> NoReading]
    BY DEF Init
  <1>3. Readings
    <2>1. NoReading \in Reading({0, {}, FALSE})
      BY DEF NoReading, Reading
    <2> QED BY <1>2, <2>1 DEF Readings
  <1>4. Works
    BY <1>1 DEF Works, ConnPoints, QueuePoints, ScrapePoints, OnQueue, Out
  <1>5. TypeOK
    <2>1. th \in [Goroutines -> Threads]
      <3>1. \A t \in Goroutines :
              [pc |-> CASE t \in Conns -> "track" [] t \in Queues -> "off" [] OTHER -> "idle",
               q |-> IF t \in Queues THEN t ELSE None, k |-> None, scan |-> {}] \in Threads
        <4> SUFFICES ASSUME NEW t \in Goroutines, NEW p,
                            p = CASE t \in Conns -> "track" [] t \in Queues -> "off"
                                  [] OTHER -> "idle"
                     PROVE  [pc |-> p, q |-> IF t \in Queues THEN t ELSE None,
                             k |-> None, scan |-> {}] \in Threads
          OBVIOUS
        <4>1. p \in {"track", "off", "idle"}
          BY KindsDiffer
        <4>2. p \in Points
          BY <4>1, PointsKnown DEF ConnPoints, QueuePoints, ScrapePoints
        <4> QED BY <4>2 DEF Threads
      <3> QED BY <3>1 DEF Init
    <2>2. inflight \in [Conns -> -1..Prefetch]
      BY <1>2, CollectorAssumption, SMT
    <2>3. \A s \in Scrapers : scrape[s].todo \subseteq Queues
      BY <1>2 DEF NoReading
    <2> QED BY <1>2, <2>1, <2>2, <2>3 DEF TypeOK, Threads
  <1>6. Registration
    BY <1>1, <1>2, CollectorAssumption DEF Registration, OnOwnQueue, Left
  <1>7. Holding
    <2>1. \A t \in Goroutines : th[t].pc \in {"track", "off", "idle"}
      BY <1>1 DEF Goroutines
    <2>2. \A l \in Locks : owner[l] = None
      BY <1>2
    <2> QED BY <1>1, <2>1, <2>2, KindsDiffer, LocksDiffer, SMT
         DEF Holding, HoldsConn, HoldsBroker, HoldsQueue
  <1>8. Scans
    <2>1. \A t \in Goroutines : th[t].pc \in {"track", "off", "idle"}
      BY <1>1 DEF Goroutines
    <2> QED BY <1>1, <2>1 DEF Scans, Out
  <1>9. Slots
    <2>1. \A k \in Conns : ~Writing(k) /\ th[k].pc \notin Left /\ inflight[k] = 0
      BY <1>1, <1>2 DEF Writing, Out, Left
    <2> QED BY <1>1, <2>1, SMT DEF Slots
  <1>10. Gauges
    <2>1. Open = {} /\ Consuming = {} /\ {c \in Conns : th[c].pc \notin Untracked} = {}
      BY <1>1, <1>2 DEF Open, Consuming, NotOpen, Untracked
    <2> QED BY <1>2, <2>1, FS_EmptySet, SMT DEF Gauges, Counters
  <1> QED BY <1>3, <1>4, <1>5, <1>6, <1>7, <1>8, <1>9, <1>10 DEF CollectorInv

LEMMA InvStutters ==
  ASSUME CollectorInv, UNCHANGED vars
  PROVE  CollectorInv'
  <1>1. UNCHANGED <<owner, th, tracked, declared, depth, consumers, inflight, on, tag, total,
                    scrape>>
    BY DEF vars, stateVars, metricVars
  <1>2. TypeOK' /\ Readings'
    BY <1>1 DEF CollectorInv, TypeOK, Readings
  <1>3. Works' /\ Registration'
    BY <1>1 DEF CollectorInv, Works, Registration
  <1>4. Holding' /\ Scans'
    BY <1>1 DEF CollectorInv, Holding, Scans
  <1>5. Slots' /\ Gauges'
    BY <1>1 DEF CollectorInv, Slots, Writing, Gauges, Open, Consuming
  <1> QED BY <1>2, <1>3, <1>4, <1>5 DEF CollectorInv

\* The strengthening: what each goroutine works on and which mutexes it holds
\* follow from where it is, the loops over Queue.consumers run over consumers that
\* stay registered, and a counter is one step behind what it counts.
THEOREM CollectorInvariant == Spec => []CollectorInv
  <1>1. CollectorInv /\ [Next]_vars => CollectorInv'
    <2> SUFFICES ASSUME CollectorInv, [Next]_vars
                 PROVE  CollectorInv'
      OBVIOUS
    <2>1. CASE Next
      <3>1. TypeOK /\ Readings /\ Works /\ Registration /\ Holding /\ Scans /\ Slots /\ Gauges
        BY DEF CollectorInv
      <3>2. TypeOK' /\ Readings' /\ Slots'
        BY <2>1, <3>1, TypeStep
      <3>3. Works' /\ Registration'
        BY <2>1, <3>1, WorksStep, RegistrationStep
      <3>4. Holding' /\ Scans'
        BY <2>1, <3>1, HoldingStep, ScansStep
      <3>5. Gauges'
        BY <2>1, <3>1, GaugesStep
      <3> QED BY <3>2, <3>3, <3>4, <3>5 DEF CollectorInv
    <2>2. CASE UNCHANGED vars
      BY <2>2, InvStutters
    <2> QED BY <2>1, <2>2
  <1> QED BY <1>1, InitInv, PTL DEF Spec

\* However many connections, dispatchers and scrapes run together, no set of
\* them is stuck with each one waiting for a mutex another holds: Connection.mu and
\* Broker.mu come before Queue.mu, Queue.mu before Consumer.mu, and Server.mu
\* and Consumer.mu are held by nobody who waits.
THEOREM NoCircularWaitCorrect == Spec => []NoCircularWait
  <1>1. CollectorInv => NoCircularWait
    BY NoCircle DEF CollectorInv
  <1> QED BY <1>1, CollectorInvariant, PTL

\* The counters that HandleConnection and the consumer handlers move, and the
\* gauges that Collect reads from the maps, agree once no handler is half way.
THEOREM GaugesAgreeCorrect == Spec => []GaugesAgree
  <1>1. CollectorInv => GaugesAgree
    BY GaugesFollow DEF CollectorInv
  <1> QED BY <1>1, CollectorInvariant, PTL

\* No consumer's inflight count leaves -1..Prefetch and no queue's depth goes
\* below zero, whatever Return, Revert and the acks take back.
THEOREM CollectorTypeCorrect == Spec => []TypeOK
  <1>1. CollectorInv => TypeOK
    BY DEF CollectorInv
  <1> QED BY <1>1, CollectorInvariant, PTL
=============================================================================
