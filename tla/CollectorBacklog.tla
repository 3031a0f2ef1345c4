-------------------------- MODULE CollectorBacklog --------------------------
(***************************************************************************)
(* The depth and the in-flight counts that one scrape reports for a queue  *)
(* are a snapshot of its backlog, but for the messages nacked meanwhile.   *)
(***************************************************************************)
EXTENDS CollectorProofs, WellFoundedInduction

\* A leaf is Zenon's unless it names another prover.
USE Zenon

\* The counts f of the consumers S as a set: one cell for each message, and one
\* more for each consumer, because a count may be -1.
Cells(f, S) == {p \in S \X (1..(Prefetch + 1)) : p[2] <= f[p[1]] + 1}

\* The sum of the counts f of S.
InFlight(f, S) == Cardinality(Cells(f, S)) - Cardinality(S)

\* One consumer more adds its count.
LEMMA InFlightAdds ==
  ASSUME NEW f \in [Conns -> -1..Prefetch], NEW S \in SUBSET Conns, NEW k \in S
  PROVE  InFlight(f, S) = f[k] + InFlight(f, S \ {k})
  <1> DEFINE n == f[k] + 1
             A == {k} \X (1..n)
             B == Cells(f, S \ {k})
  <1>1. n \in Nat /\ n <= Prefetch + 1 /\ Prefetch \in Nat /\ f[k] \in Int
    BY CollectorAssumption, SMT
  <1>2. IsFiniteSet(S) /\ IsFiniteSet(S \ {k}) /\ Cardinality(S \ {k}) = Cardinality(S) - 1
        /\ Cardinality(S) \in Nat
    BY CollectorAssumption, FS_Subset, FS_RemoveElement, FS_CardinalityType
  <1>3. IsFiniteSet(1..n) /\ Cardinality(1..n) = n
    <2> HIDE DEF n
    <2>1. 1 \in Int /\ n \in Int
      BY <1>1, SMT
    <2>2. IsFiniteSet(1..n) /\ Cardinality(1..n) = IF 1 > n THEN 0 ELSE n - 1 + 1
      BY <2>1, FS_Interval
    <2> QED BY <1>1, <2>2, SMT
  <1>4. IsFiniteSet(A) /\ Cardinality(A) = n
    <2>1. IsFiniteSet({k}) /\ Cardinality({k}) = 1
      BY FS_Singleton
    <2>2. IsFiniteSet(A) /\ Cardinality(A) = Cardinality({k}) * Cardinality(1..n)
      BY <2>1, <1>3, FS_Product
    <2> QED BY <2>1, <2>2, <1>1, <1>3, SMT
  <1>5. IsFiniteSet(B) /\ Cardinality(B) \in Nat
    <2>1. IsFiniteSet(1..(Prefetch + 1))
      BY <1>1, FS_Interval, SMT
    <2>2. IsFiniteSet((S \ {k}) \X (1..(Prefetch + 1)))
      BY <1>2, <2>1, FS_Product
    <2> QED BY <2>2, FS_Subset, FS_CardinalityType DEF Cells
  <1>6. Cells(f, S) = A \union B /\ A \intersect B = {}
    <2>1. A \intersect B = {}
      BY DEF Cells
    <2>2. ASSUME NEW p \in Cells(f, S) PROVE p \in A \union B
      <3>1. PICK x \in S, i \in 1..(Prefetch + 1) : p = <<x, i>> /\ i <= f[x] + 1
        BY SMT DEF Cells
      <3>2. CASE x = k
        BY <3>1, <3>2, <1>1, SMT
      <3>3. CASE x # k
        BY <3>1, <3>3 DEF Cells
      <3> QED BY <3>2, <3>3
    <2>3. A \subseteq Cells(f, S)
      <3> SUFFICES ASSUME NEW i \in 1..n PROVE <<k, i>> \in Cells(f, S)
        BY SMT
      <3>1. i \in 1..(Prefetch + 1) /\ i <= f[k] + 1
        BY <1>1, SMT
      <3>2. <<k, i>>[1] = k /\ <<k, i>>[2] = i /\ <<k, i>> \in S \X (1..(Prefetch + 1))
        BY <3>1
      <3> QED BY <3>1, <3>2 DEF Cells
    <2>4. B \subseteq Cells(f, S)
      BY DEF Cells
    <2> QED BY <2>1, <2>2, <2>3, <2>4
  <1>7. Cardinality(Cells(f, S)) = n + Cardinality(B)
    <2> HIDE DEF A, B, n
    <2>1. Cardinality(A \union B) = Cardinality(A) + Cardinality(B) - Cardinality(A \intersect B)
      BY <1>4, <1>5, FS_Union
    <2>2. Cardinality(A \intersect B) = 0
      BY <1>6, FS_EmptySet
    <2>3. Cardinality(Cells(f, S)) = n + Cardinality(B) - 0
      BY <2>1, <2>2, <1>4, <1>6
    <2> QED BY <2>3, <1>1, <1>5, SMT
  <1> HIDE DEF B
  <1>8. InFlight(f, S) = (n + Cardinality(B)) - Cardinality(S)
    BY <1>7 DEF InFlight
  <1>9. InFlight(f, S \ {k}) = Cardinality(B) - (Cardinality(S) - 1)
    BY <1>2 DEF InFlight, B
  <1> QED BY <1>1, <1>2, <1>5, <1>8, <1>9, SMT

LEMMA InFlightNone ==
  ASSUME NEW f
  PROVE  InFlight(f, {}) = 0
  <1>1. Cells(f, {}) = {}
    BY DEF Cells
  <1> QED BY <1>1, FS_EmptySet, SMT DEF InFlight

\* MapThenSumSet adds the counts one by one, in whatever order it chooses; its
\* recursion has one solution, because a finite set runs out of elements.
LEMMA InFlightIs ==
  ASSUME NEW f \in [Conns -> -1..Prefetch], NEW S \in SUBSET Conns
  PROVE  MapThenSumSet(LAMBDA k : f[k], S) = InFlight(f, S)
  <1> DEFINE step(h, s) == IF s = {} THEN 0
                           ELSE LET x == CHOOSE x \in s : TRUE IN f[x] + h[s \ {x}]
             iter == CHOOSE h : h = [s \in SUBSET S |-> step(h, s)]
             g == [s \in SUBSET S |-> InFlight(f, s)]
  <1>1. MapThenSumSet(LAMBDA k : f[k], S) = iter[S]
    BY DEF MapThenSumSet, MapThenFoldSet
  <1>2. ASSUME NEW s \in SUBSET S, s # {}
        PROVE  LET x == CHOOSE x \in s : TRUE
               IN  x \in s /\ s \ {x} \in SUBSET S /\ InFlight(f, s) = f[x] + InFlight(f, s \ {x})
    <2> DEFINE x == CHOOSE x \in s : TRUE
    <2>1. x \in s /\ s \in SUBSET Conns
      BY <1>2
    <2> HIDE DEF x
    <2>2. InFlight(f, s) = f[x] + InFlight(f, s \ {x})
      BY <2>1, InFlightAdds
    <2> QED BY <2>1, <2>2 DEF x
  <1>3. \A s \in SUBSET S : g[s] = step(g, s)
    <2> SUFFICES ASSUME NEW s \in SUBSET S PROVE g[s] = step(g, s)
      OBVIOUS
    <2>1. CASE s = {}
      BY <2>1, InFlightNone
    <2>2. CASE s # {}
      BY <2>2, <1>2
    <2> QED BY <2>1, <2>2
  <1>4. g = [s \in SUBSET S |-> step(g, s)]
    BY <1>3
  <1>5. iter = [s \in SUBSET S |-> step(iter, s)]
    BY <1>4
  <1> HIDE DEF iter
  <1> DEFINE T == {s \in SUBSET S : iter[s] # InFlight(f, s)}
  <1>6. T = {}
    <2> SUFFICES ASSUME T # {} PROVE FALSE
      OBVIOUS
    <2>1. IsFiniteSet(S)
      BY CollectorAssumption, FS_Subset
    <2>2. IsWellFoundedOn(StrictSubsetOrdering(S), SUBSET S)
      BY <2>1, FS_StrictSubsetOrderingWellFounded, FS_FiniteSubsetsOfFinite
    <2>3. PICK s \in T : \A r \in T : <<r, s>> \notin StrictSubsetOrdering(S)
      <3>1. T \subseteq SUBSET S
        OBVIOUS
      <3> HIDE DEF T
      <3> QED BY <2>2, <3>1, WFMin
    <2>4. s # {}
      BY <1>5, <2>3, InFlightNone
    <2> DEFINE x == CHOOSE x \in s : TRUE
    <2>5. x \in s /\ s \ {x} \in SUBSET S /\ InFlight(f, s) = f[x] + InFlight(f, s \ {x})
      BY <1>2, <2>4
    <2>6. s \ {x} \notin T
      BY <2>3, <2>5 DEF StrictSubsetOrdering
    <2>7. iter[s] = f[x] + iter[s \ {x}]
      BY <1>5, <2>4
    <2> QED BY <2>3, <2>5, <2>6, <2>7
  <1> QED BY <1>1, <1>6

\* The sum is a number, and it follows the counts.
LEMMA InFlightType ==
  ASSUME NEW f \in [Conns -> -1..Prefetch], NEW S \in SUBSET Conns
  PROVE  InFlight(f, S) \in Int
  <1>1. IsFiniteSet(S)
    BY CollectorAssumption, FS_Subset
  <1>2. Prefetch + 1 \in Int /\ 1 \in Int
    BY CollectorAssumption, SMT
  <1>3. IsFiniteSet(S \X (1..(Prefetch + 1)))
    BY <1>1, <1>2, FS_Interval, FS_Product
  <1>4. IsFiniteSet(Cells(f, S))
    BY <1>3, FS_Subset DEF Cells
  <1>5. Cardinality(S) \in Nat /\ Cardinality(Cells(f, S)) \in Nat
    BY <1>1, <1>4, FS_CardinalityType
  <1> QED BY <1>5, SMT DEF InFlight

LEMMA InFlightSame ==
  ASSUME NEW f, NEW g, NEW S, \A k \in S : f[k] = g[k]
  PROVE  InFlight(f, S) = InFlight(g, S)
  <1>1. Cells(f, S) = Cells(g, S)
    BY SMT DEF Cells
  <1> QED BY <1>1 DEF InFlight

LEMMA InFlightLess ==
  ASSUME NEW f \in [Conns -> -1..Prefetch], NEW g \in [Conns -> -1..Prefetch],
         NEW S \in SUBSET Conns, NEW k \in S, g[k] = f[k] - 1,
         \A j \in S : j # k => g[j] = f[j]
  PROVE  InFlight(g, S) = InFlight(f, S) - 1
  <1>1. InFlight(f, S) = f[k] + InFlight(f, S \ {k}) /\ InFlight(g, S) = g[k] + InFlight(g, S \ {k})
    BY InFlightAdds
  <1>2. InFlight(f, S \ {k}) = InFlight(g, S \ {k})
    BY InFlightSame, SMT
  <1>3. InFlight(f, S \ {k}) \in Int /\ f[k] \in Int
    BY InFlightType, CollectorAssumption, SMT
  <1> QED BY <1>1, <1>2, <1>3, SMT

-----------------------------------------------------------------------------
(* A reading in the making.                                                 *)

\* The consumers whose counts s has yet to add.
Unread(s) == IF th[s].pc = "consumer" THEN {th[s].k} \union th[s].scan ELSE {}

\* What s has added up, with what it has yet to add, is within its nacks of the
\* backlog it found.
Measured(s) ==
  /\ scrape[s].base \in Int /\ scrape[s].got \in Int /\ scrape[s].nacks \in Nat
  /\ scrape[s].got + InFlight(inflight, Unread(s)) <= scrape[s].base
  /\ scrape[s].got + InFlight(inflight, Unread(s)) >= scrape[s].base - scrape[s].nacks

Snapshot ==
  \A s \in Scrapers :
    /\ th[s].pc = "consumer" => th[s].k \notin th[s].scan
    /\ th[s].pc \in {"consumer", "queueRead"} => Measured(s)

LEMMA SnapshotSuffices ==
  ASSUME TypeOK, Snapshot
  PROVE  BacklogSnapshot
  <1> SUFFICES ASSUME NEW s \in Scrapers, th[s].pc = "queueRead"
               PROVE  /\ scrape[s].got <= scrape[s].base
                      /\ scrape[s].got >= scrape[s].base - scrape[s].nacks
    BY DEF BacklogSnapshot
  <1>1. Unread(s) = {}
    BY DEF Unread
  <1>2. Measured(s)
    BY DEF Snapshot
  <1>3. InFlight(inflight, Unread(s)) = 0
    BY <1>1, InFlightNone
  <1> QED BY <1>2, <1>3, SMT DEF Measured

\* The consumers s has yet to read are consumers of its queue.
LEMMA UnreadAre ==
  ASSUME CollectorInv, NEW s \in Scrapers, th[s].pc \in {"consumer", "queueRead"}
  PROVE  /\ Unread(s) \in SUBSET Conns
         /\ \A k \in Unread(s) : on[k] = th[s].q
  <1>1. s \in Goroutines /\ th[s].q \in Queues
    BY KindsDiffer DEF CollectorInv, Works
  <1>2. Unread(s) \subseteq consumers[th[s].q]
    BY <1>1 DEF Unread, CollectorInv, Scans
  <1> QED BY <1>1, <1>2, SMT DEF CollectorInv, TypeOK, Registration

\* Whoever holds the mutex of a consumer's queue keeps the count from s.
LEMMA OthersWait ==
  ASSUME CollectorInv, NEW s \in Scrapers, th[s].pc \in {"consumer", "queueRead"},
         NEW t \in Conns \union Queues, th[t].pc \in HoldsQueue,
         NEW k \in Conns, on[k] = th[t].q
  PROVE  k \notin Unread(s)
  <1> SUFFICES ASSUME k \in Unread(s)
               PROVE  FALSE
    OBVIOUS
  <1>1. s \in Goroutines /\ t \in Goroutines /\ s # t
    BY KindsDiffer
  <1>2. th[s].q \in Queues /\ on[k] = th[s].q
    BY UnreadAre DEF CollectorInv, Works
  <1>3. owner[QueueMu(th[s].q)] = s
    BY <1>1, <1>2 DEF CollectorInv, Holding, HoldsQueue
  <1>4. owner[QueueMu(th[s].q)] = t
    <2>1. th[t].q = th[s].q
      BY <1>2
    <2> QED BY <1>1, <1>2, <2>1 DEF CollectorInv, Holding
  <1> QED BY <1>1, <1>3, <1>4

\* A step that leaves s, its reading and the counts it has yet to read alone.
LEMMA ReadingKept ==
  ASSUME NEW s \in Scrapers, th[s].pc \in {"consumer", "queueRead"} => Measured(s),
         th'[s] = th[s], scrape'[s] = scrape[s],
         th[s].pc \in {"consumer", "queueRead"} => \A k \in Unread(s) : inflight'[k] = inflight[k]
  PROVE  th'[s].pc \in {"consumer", "queueRead"} => Measured(s)'
  <1> SUFFICES ASSUME th[s].pc \in {"consumer", "queueRead"}
               PROVE  Measured(s)'
    OBVIOUS
  <1>1. Unread(s)' = Unread(s)
    BY DEF Unread
  <1>2. InFlight(inflight', Unread(s)) = InFlight(inflight, Unread(s))
    BY InFlightSame
  <1>3. InFlight(inflight, Unread(s))' = InFlight(inflight, Unread(s))
    BY <1>1, <1>2 DEF InFlight, Cells
  <1> QED BY <1>3 DEF Measured

-----------------------------------------------------------------------------
(* The steps.                                                               *)

\* A connection's handler moves no scrape.
LEMMA ConnMovesItself ==
  ASSUME TypeOK, Works, Registration, NEW c \in Conns, HandleConnection(c) \/ Request(c),
         NEW s \in Scrapers
  PROVE  th'[s] = th[s]
  <1>1. s \in Goroutines /\ c \in Goroutines /\ s # c /\ s \notin Queues
    BY KindsDiffer
  <1>2. ASSUME NEW p, Moves(c, p)
        PROVE  th'[s] = th[s]
    BY <1>1, <1>2 DEF Moves
  <1>3. ASSUME NEW p, NEW r, GoesTo(c, p, r)
        PROVE  th'[s] = th[s]
    BY <1>2, <1>3 DEF GoesTo
  <1>4. CASE Track(c) \/ Accepted(c) \/ Closing(c) \/ Untrack(c)
    BY <1>3, <1>4, ConnGoes
  <1>5. CASE PublishLookup(c) \/ Enqueue(c) \/ ConsumeLookup(c) \/ Register(c) \/ Registered(c)
    BY <1>3, <1>5, ConnGoes
  <1>6. CASE AckFind(c) \/ AckLookup(c) \/ Unregister(c) \/ Return(c) \/ Unregistered(c)
    BY <1>3, <1>6, ConnGoes
  <1>7. CASE Request(c) \/ Cleanup(c) \/ AckLock(c) \/ AckScan(c) \/ Nack(c)
    <2>1. \E p : Moves(c, p)
      BY <1>7, RequestGoes, CleanupGoes, AckLockGoes, AckScanGoes, NackGoes DEF GoesTo, LooksAt
    <2> QED BY <1>2, <2>1
  <1>8. CASE DeclareQueue(c)
    BY <1>1, <1>8, DeclareMoves, SMT
  <1> QED BY <1>4, <1>5, <1>6, <1>7, <1>8 DEF HandleConnection, Handler

\* A handler moves a message of a consumer that s has yet to read only in
\* HandleNack, which does not take the queue's mutex.
LEMMA ConnLeavesUnread ==
  ASSUME CollectorInv, NEW c \in Conns, HandleConnection(c) \/ Request(c), ~Nack(c),
         NEW s \in Scrapers, th[s].pc \in {"consumer", "queueRead"}
  PROVE  scrape' = scrape /\ \A k \in Unread(s) : inflight'[k] = inflight[k]
  <1>1. scrape' = scrape
    <2>1. CASE Handler(c)
      BY <2>1 DEF Handler, DeclareQueue, PublishLookup, Enqueue, ConsumeLookup, Register,
         Registered, AckFind, AckLookup, AckLock, AckScan, Unregister, Return, Unregistered,
         metricVars
    <2>2. CASE ~Handler(c)
      BY <2>2 DEF HandleConnection, Request, Track, Accepted, Closing, Cleanup, Untrack,
         metricVars
    <2> QED BY <2>1, <2>2
  <1>2. inflight \in [Conns -> -1..Prefetch] /\ Unread(s) \in SUBSET Conns
    BY UnreadAre DEF CollectorInv, TypeOK
  <1>3. CASE AckScan(c) \/ Return(c)
    <2>1. th[c].pc \in {"ackScan", "return"}
      BY <1>3 DEF AckScan, Return, At
    <2>2. on[c] = th[c].q /\ th[c].pc \in HoldsQueue
      BY <2>1 DEF CollectorInv, Registration, OnOwnQueue, HoldsQueue
    <2>3. c \notin Unread(s)
      BY <2>2, OthersWait
    <2>4. inflight' = inflight \/ \E n : inflight' = [inflight EXCEPT ![c] = n]
      BY <1>3 DEF AckScan, Return
    <2> QED BY <1>1, <1>2, <2>3, <2>4
  <1>4. CASE ~(AckScan(c) \/ Return(c))
    <2>1. inflight' = inflight
      <3>1. CASE Handler(c)
        BY <1>4, <3>1 DEF Handler, DeclareQueue, PublishLookup, Enqueue, ConsumeLookup, Register,
           Registered, AckFind, AckLookup, AckLock, Unregister, Unregistered, stateVars
      <3>2. CASE ~Handler(c)
        BY <3>2 DEF HandleConnection, Request, Track, Accepted, Closing, Cleanup, Untrack,
           stateVars
      <3> QED BY <3>1, <3>2
    <2> QED BY <1>1, <2>1
  <1> QED BY <1>3, <1>4

\* A nack under the reading takes one message from what s has yet to add, or
\* from what it has added, and s counts it.
LEMMA NackMeasured ==
  ASSUME CollectorInv, TypeOK', NEW c \in Conns, Nack(c), NEW s \in Scrapers, th'[s] = th[s],
         th[s].pc \in {"consumer", "queueRead"}, Measured(s)
  PROVE  Measured(s)'
  <1>1. Unread(s)' = Unread(s)
    BY DEF Unread
  <1> DEFINE U == Unread(s)
  <1>2. U \in SUBSET Conns /\ (c \in U => on[c] = th[s].q)
    BY UnreadAre
  <1>3. inflight \in [Conns -> -1..Prefetch] /\ inflight' \in [Conns -> -1..Prefetch]
    BY DEF CollectorInv, TypeOK
  <1>4. InFlight(inflight, U) \in Int /\ InFlight(inflight', U) \in Int
    BY <1>2, <1>3, InFlightType
  <1>5. InFlight(inflight, Unread(s))' = InFlight(inflight', U)
    BY <1>1 DEF InFlight, Cells
  <1> HIDE DEF U
  <1>6. PICK R : scrape \in [Scrapers -> Reading(R)]
    BY DEF CollectorInv, Readings
  <1>7. CASE UNCHANGED <<inflight, scrape>>
    BY <1>1, <1>5, <1>7 DEF Measured, U
  <1>8. CASE /\ inflight' = [inflight EXCEPT ![c] = @ - 1]
             /\ scrape' = [r \in Scrapers |->
                  IF owner[QueueMu(on[c])] = r THEN [scrape[r] EXCEPT !.nacks = @ + 1]
                  ELSE scrape[r]]
    <2>1. scrape'[s] = IF owner[QueueMu(on[c])] = s THEN [scrape[s] EXCEPT !.nacks = @ + 1]
                       ELSE scrape[s]
      BY <1>8
    <2>2. scrape'[s].base = scrape[s].base /\ scrape'[s].got = scrape[s].got
      BY <1>6, <2>1 DEF Reading
    <2>3. /\ owner[QueueMu(on[c])] = s => scrape'[s].nacks = scrape[s].nacks + 1
          /\ owner[QueueMu(on[c])] # s => scrape'[s].nacks = scrape[s].nacks
      BY <1>6, <2>1 DEF Reading
    <2>4. scrape'[s].nacks \in Nat /\ scrape'[s].nacks >= scrape[s].nacks
      BY <2>3, SMT DEF Measured
    <2>5. CASE c \in U
      <3>1. InFlight(inflight', U) = InFlight(inflight, U) - 1
        <4>1. inflight'[c] = inflight[c] - 1 /\ \A k \in U : k # c => inflight'[k] = inflight[k]
          BY <1>2, <1>3, <1>8
        <4> QED BY <1>2, <1>3, <2>5, <4>1, InFlightLess
      <3>2. owner[QueueMu(on[c])] = s
        BY <1>2, <2>5, KindsDiffer, SMT DEF CollectorInv, Works, Holding, HoldsQueue
      <3> QED BY <1>4, <1>5, <2>2, <2>3, <2>4, <3>1, <3>2, SMT DEF Measured, U
    <2>6. CASE c \notin U
      <3>1. \A k \in U : inflight'[k] = inflight[k]
        BY <1>2, <1>3, <1>8, <2>6
      <3>2. InFlight(inflight', U) = InFlight(inflight, U)
        BY <3>1, InFlightSame
      <3> QED BY <1>4, <1>5, <2>2, <2>4, <3>2, SMT DEF Measured, U
    <2> QED BY <2>5, <2>6
  <1> QED BY <1>7, <1>8 DEF Nack

LEMMA ConnSnapshot ==
  ASSUME CollectorInv, TypeOK', Snapshot, NEW c \in Conns, HandleConnection(c) \/ Request(c)
  PROVE  Snapshot'
  <1>1. \A s \in Scrapers : th'[s] = th[s]
    BY ConnMovesItself DEF CollectorInv
  <1>2. ASSUME NEW s \in Scrapers, th[s].pc \in {"consumer", "queueRead"}
        PROVE  Measured(s)'
    <2>1. Measured(s)
      BY <1>2 DEF Snapshot
    <2>2. CASE Nack(c)
      BY <1>1, <1>2, <2>1, <2>2, NackMeasured
    <2>3. CASE ~Nack(c)
      BY <1>1, <1>2, <2>1, <2>3, ConnLeavesUnread, ReadingKept
    <2> QED BY <2>2, <2>3
  <1> QED BY <1>1, <1>2 DEF Snapshot

\* A dispatcher that moves a message holds its queue's mutex.
LEMMA QueueSnapshot ==
  ASSUME CollectorInv, Snapshot, NEW q \in Queues, DispatchLoop(q) \/ Written(q)
  PROVE  Snapshot'
  <1>1. q \in Goroutines /\ \A s \in Scrapers : s \in Goroutines /\ s # q
    BY KindsDiffer
  <1>2. TypeOK /\ Works
    BY DEF CollectorInv
  <1>3. \E p : Moves(q, p)
    BY <1>2, QueueGoes DEF DispatchLoop, GoesTo, LooksAt
  <1>4. \A s \in Scrapers : th'[s] = th[s]
    BY <1>1, <1>3 DEF Moves
  <1>5. scrape' = scrape
    BY DEF DispatchLoop, Written, Dispatch, SelectConsumer, Book, Failed, Revert, metricVars
  <1>6. ASSUME NEW s \in Scrapers, th[s].pc \in {"consumer", "queueRead"}
        PROVE  \A k \in Unread(s) : inflight'[k] = inflight[k]
    <2>1. inflight \in [Conns -> -1..Prefetch] /\ Unread(s) \in SUBSET Conns
      BY <1>6, UnreadAre DEF CollectorInv, TypeOK
    <2>2. CASE Book(q) \/ Revert(q)
      <3>1. th[q].pc \in {"book", "revert"}
        BY <2>2 DEF Book, Revert, At
      <3>2. th[q].pc \in HoldsQueue /\ th[q].q = q /\ th[q].k \in Conns
        BY <3>1 DEF CollectorInv, Works, HoldsQueue, Out
      <3>3. on[th[q].k] = q
        <4>1. CASE th[q].pc = "book"
          BY <1>1, <3>2, <4>1, SMT DEF CollectorInv, Scans, Registration
        <4>2. CASE th[q].pc = "revert"
          BY <4>2 DEF CollectorInv, Scans, Out
        <4> QED BY <3>1, <4>1, <4>2
      <3>4. th[q].k \notin Unread(s)
        BY <1>6, <3>2, <3>3, OthersWait
      <3>5. \E n : inflight' = [inflight EXCEPT ![th[q].k] = n]
        BY <2>2 DEF Book, Revert
      <3> QED BY <2>1, <3>4, <3>5
    <2>3. CASE ~(Book(q) \/ Revert(q))
      <3>1. inflight' = inflight
        BY <2>3 DEF DispatchLoop, Written, Dispatch, SelectConsumer, Failed, stateVars
      <3> QED BY <3>1
    <2> QED BY <2>2, <2>3
  <1>7. ASSUME NEW s \in Scrapers
        PROVE  th'[s].pc \in {"consumer", "queueRead"} => Measured(s)'
    BY <1>4, <1>5, <1>6, ReadingKept DEF Snapshot
  <1> QED BY <1>4, <1>7 DEF Snapshot

\* On to the next consumer: what is left to read is what the loop has left.
LEMMA VisitUnread ==
  ASSUME TypeOK, NEW s \in Scrapers, NEW S \in SUBSET Conns,
         Visit(s, S, "consumer", "queueRead")
  PROVE  /\ th'[s].pc \in {"consumer", "queueRead"}
         /\ Unread(s)' = S
         /\ th'[s].pc = "consumer" => th'[s].k \notin th'[s].scan
         /\ \A r \in Scrapers : r # s => th'[r] = th[r]
  <1>1. /\ s \in Goroutines /\ {"consumer", "queueRead"} \subseteq Points
        /\ Scrapers \subseteq Goroutines
    BY KindsDiffer, PointsKnown DEF ScrapePoints
  <1>2. ASSUME NEW k \in S,
               th' = [th EXCEPT ![s].pc = "consumer", ![s].k = k, ![s].scan = S \ {k}]
        PROVE  /\ Moves(s, "consumer") /\ th'[s].k = k /\ th'[s].scan = S \ {k}
    <2> DEFINE r == [th[s] EXCEPT !.pc = "consumer", !.k = k, !.scan = S \ {k}]
    <2>1. th' = [th EXCEPT ![s] = r]
      BY <1>1, <1>2, ThreadShape
    <2>2. r \in Threads /\ r.pc = "consumer" /\ r.scan = S \ {k} /\ r.k = k
      <3>1. "consumer" \in Points /\ k \in Conns \union {None} /\ S \ {k} \in SUBSET Conns
        BY <1>1
      <3>2. th[s] \in Threads
        BY <1>1, ThreadShape
      <3> QED BY <3>1, <3>2 DEF Threads
    <2> HIDE DEF r
    <2>3. r \in Threads /\ s \in Goroutines /\ th' = [th EXCEPT ![s] = r]
      BY <1>1, <2>1, <2>2
    <2>4. Moves(s, r.pc) /\ th'[s] = r
      BY <2>3, UpdateMoves
    <2> QED BY <2>2, <2>4
  <1>3. CASE \E k \in S :
               th' = [th EXCEPT ![s].pc = "consumer", ![s].k = k, ![s].scan = S \ {k}]
    <2>1. PICK k \in S : Moves(s, "consumer") /\ th'[s].k = k /\ th'[s].scan = S \ {k}
      BY <1>2, <1>3
    <2>2. th'[s].pc = "consumer" /\ \A r \in Scrapers : r # s => th'[r] = th[r]
      BY <1>1, <2>1 DEF Moves
    <2>3. Unread(s)' = {k} \union (S \ {k})
      BY <2>1, <2>2 DEF Unread
    <2> QED BY <2>1, <2>2, <2>3
  <1>4. CASE S = {} /\ Goto(s, "queueRead")
    <2>1. Moves(s, "queueRead")
      BY <1>1, <1>4, GotoMoves
    <2> QED BY <1>1, <1>4, <2>1 DEF Moves, Unread
  <1> QED BY <1>3, <1>4 DEF Visit

\* Collect takes the queue's mutex and its backlog at once, and a consumer's
\* count passes from what is left to what is added.
LEMMA ScrapeSnapshot ==
  ASSUME CollectorInv, Snapshot, NEW s \in Scrapers, Collect(s) \/ Scrape(s)
  PROVE  Snapshot'
  <1>1. TypeOK /\ Works /\ s \in Goroutines
    BY KindsDiffer DEF CollectorInv
  <1>2. PICK R : scrape \in [Scrapers -> Reading(R)]
    BY DEF CollectorInv, Readings
  <1>3. inflight \in [Conns -> -1..Prefetch] /\ inflight' = inflight
    BY <1>1 DEF TypeOK, Collect, Scrape, CollectConnections, CollectBroker, CollectQueue,
       CollectConsumer, CollectedQueue, Collected, stateVars
  <1>4. ASSUME \A r \in Scrapers : r # s => th'[r] = th[r] /\ scrape'[r] = scrape[r],
               /\ th'[s].pc = "consumer" => th'[s].k \notin th'[s].scan
               /\ th'[s].pc \in {"consumer", "queueRead"} => Measured(s)'
        PROVE  Snapshot'
    <2>1. \A r \in Scrapers :
            r # s => (th'[r].pc \in {"consumer", "queueRead"} => Measured(r)')
      BY <1>3, <1>4, ReadingKept DEF Snapshot
    <2> QED BY <1>4, <2>1 DEF Snapshot
  <1>5. ASSUME NEW p, Moves(s, p), p \notin {"consumer", "queueRead"},
               scrape' = scrape \/ \E r : scrape' = [scrape EXCEPT ![s] = r]
        PROVE  Snapshot'
    <2>1. \A r \in Scrapers : r # s => th'[r] = th[r] /\ scrape'[r] = scrape[r]
      BY <1>2, <1>5, KindsDiffer DEF Moves
    <2>2. th'[s].pc \notin {"consumer", "queueRead"}
      BY <1>5 DEF Moves
    <2> QED BY <1>4, <2>1, <2>2
  <1>6. CASE Scrape(s) \/ CollectConnections(s)
    <2>1. scrape' = scrape
      BY <1>6 DEF Scrape, CollectConnections, metricVars
    <2>2. \E p \in {"connections", "queues"} : Moves(s, p)
      BY <1>1, <1>6, ScrapeGoes DEF GoesTo
    <2> QED BY <1>5, <2>1, <2>2
  <1>7. CASE CollectBroker(s) \/ CollectedQueue(s)
    <2>1. \E r : scrape' = [scrape EXCEPT ![s] = r]
      BY <1>7 DEF CollectBroker, CollectedQueue, NextQueue
    <2>2. \E p \in {"queue", "collected"} : Moves(s, p)
      BY <1>1, <1>7, ScrapeGoes DEF ToQueue, GoesTo
    <2> QED BY <1>5, <2>1, <2>2
  <1>8. CASE Collected(s)
    <2>1. scrape' = [scrape EXCEPT ![s] = NoReading]
      BY <1>8 DEF Collected
    <2>2. \E p \in {"idle", "refused"} : Moves(s, p)
      BY <1>1, <1>8, ScrapeGoes DEF GoesTo
    <2> QED BY <1>5, <2>1, <2>2
  <1>9. CASE CollectQueue(s)
    <2> DEFINE q == th[s].q
               r == [scrape[s] EXCEPT !.base = Backlog(q), !.got = depth[q], !.nacks = 0]
    <2>1. q \in Queues
      BY <1>1, <1>9, ScrapeGoes
    <2>2. depth[q] \in Nat /\ consumers[q] \in SUBSET Conns
      BY <1>1, <2>1 DEF TypeOK
    <2>3. /\ th'[s].pc \in {"consumer", "queueRead"} /\ Unread(s)' = consumers[q]
          /\ th'[s].pc = "consumer" => th'[s].k \notin th'[s].scan
          /\ \A t \in Scrapers : t # s => th'[t] = th[t]
      BY <1>1, <1>9, <2>2, VisitUnread DEF CollectQueue
    <2>4. scrape' = [scrape EXCEPT ![s] = r]
      BY <1>2, <1>9 DEF CollectQueue
    <2>5. r.base = Backlog(q) /\ r.got = depth[q] /\ r.nacks = 0
      BY <1>2 DEF Reading
    <2>6. scrape'[s] = r /\ \A t \in Scrapers : t # s => scrape'[t] = scrape[t]
      BY <1>2, <2>4
    <2>7. Backlog(q) = depth[q] + InFlight(inflight, consumers[q])
      BY <1>3, <2>2, InFlightIs DEF Backlog
    <2>8. InFlight(inflight, consumers[q]) \in Int
      BY <1>3, <2>2, InFlightType
    <2>9. InFlight(inflight, Unread(s))' = InFlight(inflight, consumers[q])
      BY <1>3, <2>3 DEF InFlight, Cells
    <2> HIDE DEF q, r
    <2>10. Measured(s)'
      BY <2>2, <2>5, <2>6, <2>7, <2>8, <2>9, SMT DEF Measured
    <2> QED BY <1>4, <2>3, <2>6, <2>10
  <1>10. CASE CollectConsumer(s)
    <2> DEFINE k == th[s].k
               l == scrape[s].labels \union {<<th[s].q, tag[k]>>}
               x == scrape[s].clash \/ <<th[s].q, tag[k]>> \in scrape[s].labels
               r == [scrape[s] EXCEPT !.got = @ + inflight[k], !.labels = l, !.clash = x]
    <2>1. th[s].pc = "consumer" /\ k \in Conns /\ th[s].scan \in SUBSET Conns
      BY <1>1, <1>10, ThreadShape DEF CollectConsumer, At, Works
    <2>2. k \notin th[s].scan /\ Measured(s) /\ Unread(s) = {k} \union th[s].scan
      BY <2>1 DEF Snapshot, Unread
    <2>3. /\ th'[s].pc \in {"consumer", "queueRead"} /\ Unread(s)' = th[s].scan
          /\ th'[s].pc = "consumer" => th'[s].k \notin th'[s].scan
          /\ \A t \in Scrapers : t # s => th'[t] = th[t]
      BY <1>1, <1>10, <2>1, VisitUnread DEF CollectConsumer
    <2>4. scrape' = [scrape EXCEPT ![s] = r]
      BY <1>2, <1>10 DEF CollectConsumer
    <2>5. r.base = scrape[s].base /\ r.got = scrape[s].got + inflight[k]
          /\ r.nacks = scrape[s].nacks
      <3> HIDE DEF l, x
      <3> QED BY <1>2 DEF Reading
    <2> HIDE DEF r
    <2>6. scrape'[s] = r /\ \A t \in Scrapers : t # s => scrape'[t] = scrape[t]
      BY <1>2, <2>4
    <2>7. InFlight(inflight, Unread(s)) = inflight[k] + InFlight(inflight, th[s].scan)
      <3>1. Unread(s) \in SUBSET Conns /\ k \in Unread(s) /\ Unread(s) \ {k} = th[s].scan
        BY <2>1, <2>2
      <3> HIDE DEF k
      <3> QED BY <1>3, <3>1, InFlightAdds, SMT
    <2>8. InFlight(inflight, th[s].scan) \in Int /\ inflight[k] \in Int
      BY <1>3, <2>1, InFlightType, CollectorAssumption, SMT
    <2>9. InFlight(inflight, Unread(s))' = InFlight(inflight, th[s].scan)
      BY <1>3, <2>3 DEF InFlight, Cells
    <2> HIDE DEF k
    <2>10. Measured(s)'
      BY <2>2, <2>5, <2>6, <2>7, <2>8, <2>9, SMT DEF Measured
    <2> QED BY <1>4, <2>3, <2>6, <2>10
  <1> QED BY <1>6, <1>7, <1>8, <1>9, <1>10 DEF Collect

\* However many connections and dispatchers run under a scrape, the depth and
\* the in-flight counts it reports for a queue add up to the backlog the queue
\* had when Collect locked it, less at most the messages HandleNack took meanwhile.
THEOREM BacklogSnapshotCorrect == Spec => []BacklogSnapshot
  <1>1. Init => Snapshot
    <2> SUFFICES ASSUME Init, NEW s \in Scrapers
                 PROVE  th[s].pc = "idle"
      BY DEF Snapshot
    <2> QED BY KindsDiffer DEF Init
  <1>2. CollectorInv /\ CollectorInv' /\ Snapshot /\ [Next]_vars => Snapshot'
    <2> SUFFICES ASSUME CollectorInv, TypeOK', Snapshot, [Next]_vars
                 PROVE  Snapshot'
      BY DEF CollectorInv
    <2>1. CASE Next
      BY <2>1, ConnSnapshot, QueueSnapshot, ScrapeSnapshot DEF Next
    <2>2. CASE UNCHANGED vars
      BY <2>2 DEF vars, stateVars, metricVars, Snapshot, Measured, Unread
    <2> QED BY <2>1, <2>2
  <1>3. CollectorInv /\ Snapshot => BacklogSnapshot
    BY SnapshotSuffices DEF CollectorInv
  <1> QED BY <1>1, <1>2, <1>3, CollectorInvariant, PTL DEF Spec
=============================================================================
