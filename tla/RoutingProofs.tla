--------------------------- MODULE RoutingProofs ----------------------------
(***************************************************************************)
(* Every message a queue was given is in exactly one place, and a publish  *)
(* reaches every queue that was bound when it began, for any number of     *)
(* sessions, exchanges, queues and messages.                               *)
(***************************************************************************)
EXTENDS Routing, FiniteSetTheorems, FunctionTheorems, SequenceTheorems, TLAPS

\* A leaf is Zenon's unless it names another prover.
USE Zenon

\* What a session has left to do.  A binding that BindLookup has found both names
\* for is about names that stay: nothing is ever removed from Broker's maps.  The
\* queues bound when a publish began are bound while it looks them up.
Planned(s) ==
  /\ work[s].op = "bind" => work[s].binding \in exchanges \X Keys \X queues
  /\ work[s].op \in {"lookup", "route"} =>
       work[s].due \subseteq Bound(work[s].exchange, work[s].key)
  /\ work[s].op = "fan" =>
       /\ work[s].due \subseteq work[s].got \cup work[s].todo
       /\ work[s].got \cup work[s].todo \subseteq Bound(work[s].exchange, work[s].key)
       /\ work[s].got \cap work[s].todo = {}

\* Only finitely many messages are pending.
PendingFinite == \A s \in Sessions, q \in Queues : IsFiniteSet(pending[s][q])

\* The tags of a sequence of messages, and that none comes twice.
Tags(w) == {w[i].tag : i \in DOMAIN w}
Once(w) == \A i, j \in DOMAIN w : w[i].tag = w[j].tag => i = j

\* The tags of q's messages: in the queue, with the consumer of session s, and
\* in the hands of a nack of s that puts one back.
Waits(q) == Tags(waiting[q])
Pends(s, q) == {m.tag : m \in pending[s][q]}
Nacks(s, q) == IF work[s].op = "requeue" /\ work[s].queue = q THEN {work[s].msg.tag} ELSE {}
With(s, q) == Pends(s, q) \cup Nacks(s, q)

\* A tag is in one place, and there once.
OnePlace(q) ==
  /\ Once(waiting[q])
  /\ \A s \in Sessions : \A m, n \in pending[s][q] : m.tag = n.tag => m = n
  /\ Waits(q) \cap settled[q] = {}
  /\ \A s \in Sessions : Pends(s, q) \cap Nacks(s, q) = {}
  /\ \A s \in Sessions : With(s, q) \cap (Waits(q) \cup settled[q]) = {}
  /\ \A s, r \in Sessions : s # r => With(s, q) \cap With(r, q) = {}

\* The tags that are in some place are the ones that were drawn.
Drawn(q) ==
  Waits(q) \cup settled[q] \cup UNION {With(s, q) : s \in Sessions} = 1 .. nextTag[q] - 1

RoutingInv ==
  /\ TypeOK /\ PendingFinite
  /\ \A s \in Sessions : Planned(s)
  /\ \A q \in Queues : OnePlace(q) /\ Drawn(q)

-----------------------------------------------------------------------------
(* Types.                                                                   *)

LEMMA WorkShape ==
  ASSUME NEW w \in Work
  PROVE  /\ w.op \in {"idle", "bind", "lookup", "route", "fan", "requeue"}
         /\ w.op = "idle" <=> w = Idle
         /\ w.op = "bind" => w \in [op : {"bind"}, binding : Exchanges \X Keys \X Queues]
         /\ w.op \in {"lookup", "route"} =>
              w \in [op : {"lookup", "route"}, exchange : Exchanges, key : Keys,
                     due : SUBSET Queues]
         /\ w.op = "fan" =>
              w \in [op : {"fan"}, exchange : Exchanges, key : Keys, due : SUBSET Queues,
                     todo : SUBSET Queues, got : SUBSET Queues]
         /\ w.op = "requeue" => w \in [op : {"requeue"}, queue : Queues, msg : Messages]
  BY SMT DEF Work, Idle

LEMMA WorkIs ==
  ASSUME TypeOK, NEW s \in Sessions, NEW w \in Work, SetWork(s, w)
  PROVE  /\ work' \in [Sessions -> Work] /\ work'[s] = w
         /\ \A r \in Sessions : r # s => work'[r] = work[r]
  BY DEF TypeOK, SetWork

\* What the steps do to the work of their session.
LEMMA WorkSteps ==
  ASSUME TypeOK, NEW s \in Sessions
  PROVE  /\ \A e \in Exchanges, k \in Keys, q \in Queues :
              BindLookup(s, e, k, q) =>
                LET w == [op |-> "bind", binding |-> <<e, k, q>>] IN w \in Work /\ SetWork(s, w)
         /\ \A e \in Exchanges, k \in Keys : Lookup(e, k) \in Work
         /\ PublishLookup(s) => \/ SetWork(s, Idle)
                                \/ LET w == [op |-> "route", exchange |-> work[s].exchange,
                                             key |-> work[s].key, due |-> work[s].due]
                                   IN  w \in Work /\ SetWork(s, w)
         /\ Route(s) => LET w == [op |-> "fan", exchange |-> work[s].exchange,
                                  key |-> work[s].key, due |-> work[s].due,
                                  todo |-> Bound(work[s].exchange, work[s].key), got |-> {}]
                        IN  w \in Work /\ SetWork(s, w)
         /\ \A q \in Queues :
              Enqueue(s, q) =>
                \E w \in Work :
                  /\ SetWork(s, w) /\ w.op = "fan"
                  /\ w.exchange = work[s].exchange /\ w.key = work[s].key
                  /\ w.due = work[s].due
                  /\ w.todo = work[s].todo \ {q} /\ w.got = work[s].got \cup {q}
  <1>1. work[s] \in Work
    BY DEF TypeOK
  <1>2. ASSUME NEW e \in Exchanges, NEW k \in Keys, NEW q \in Queues, BindLookup(s, e, k, q)
        PROVE  LET w == [op |-> "bind", binding |-> <<e, k, q>>] IN w \in Work /\ SetWork(s, w)
    BY <1>2 DEF BindLookup, Work
  <1>3. ASSUME NEW e \in Exchanges, NEW k \in Keys
        PROVE  Lookup(e, k) \in Work
    BY DEF Lookup, Work, Bound
  <1>4. ASSUME PublishLookup(s)
        PROVE  \/ SetWork(s, Idle)
               \/ LET w == [op |-> "route", exchange |-> work[s].exchange,
                            key |-> work[s].key, due |-> work[s].due]
                  IN  w \in Work /\ SetWork(s, w)
    <2>1. work[s] \in [op : {"lookup", "route"}, exchange : Exchanges, key : Keys,
                       due : SUBSET Queues]
      BY <1>1, <1>4, WorkShape DEF PublishLookup
    <2>2. [work[s] EXCEPT !.op = "route"] =
             [op |-> "route", exchange |-> work[s].exchange, key |-> work[s].key,
              due |-> work[s].due]
      BY <2>1, SMT
    <2>3. [op |-> "route", exchange |-> work[s].exchange, key |-> work[s].key,
           due |-> work[s].due] \in Work
      BY <2>1 DEF Work
    <2> QED BY <1>4, <2>2, <2>3 DEF PublishLookup
  <1>5. ASSUME Route(s)
        PROVE  LET w == [op |-> "fan", exchange |-> work[s].exchange,
                         key |-> work[s].key, due |-> work[s].due,
                         todo |-> Bound(work[s].exchange, work[s].key), got |-> {}]
               IN  w \in Work /\ SetWork(s, w)
    <2>1. work[s] \in [op : {"lookup", "route"}, exchange : Exchanges, key : Keys,
                       due : SUBSET Queues]
      BY <1>1, <1>5, WorkShape DEF Route
    <2>2. Bound(work[s].exchange, work[s].key) \in SUBSET Queues
      BY DEF Bound
    <2> QED BY <1>5, <2>1, <2>2 DEF Route, Work
  <1>6. ASSUME NEW q \in Queues, Enqueue(s, q)
        PROVE  \E w \in Work :
                 /\ SetWork(s, w) /\ w.op = "fan"
                 /\ w.exchange = work[s].exchange /\ w.key = work[s].key
                 /\ w.due = work[s].due
                 /\ w.todo = work[s].todo \ {q} /\ w.got = work[s].got \cup {q}
    <2> DEFINE Fans == [op : {"fan"}, exchange : Exchanges, key : Keys, due : SUBSET Queues,
                        todo : SUBSET Queues, got : SUBSET Queues]
               w == [work[s] EXCEPT !.todo = work[s].todo \ {q}, !.got = work[s].got \cup {q}]
    <2>1. work[s] \in Fans
      BY <1>1, <1>6, WorkShape DEF Enqueue
    <2>2. /\ w \in Fans /\ w.op = "fan"
          /\ w.exchange = work[s].exchange /\ w.key = work[s].key /\ w.due = work[s].due
          /\ w.todo = work[s].todo \ {q} /\ w.got = work[s].got \cup {q}
      BY <2>1
    <2>3. SetWork(s, w)
      BY <1>6 DEF Enqueue
    <2>4. w \in Work
      <3> HIDE DEF w
      <3> QED BY <2>2 DEF Work
    <2> HIDE DEF w
    <2> QED BY <2>2, <2>3, <2>4
  <1> QED BY <1>2, <1>3, <1>4, <1>5, <1>6

\* cleanup puts every pending message back, each once.
LEMMA OrderIs ==
  ASSUME NEW S, IsFiniteSet(S), NEW f \in Orders(S)
  PROVE  /\ f \in Seq(S) /\ DOMAIN f = 1 .. Len(f)
         /\ \A i, j \in DOMAIN f : f[i] = f[j] => i = j
         /\ \A x \in S : \E i \in DOMAIN f : f[i] = x
  <1> DEFINE n == Cardinality(S)
  <1>1. n \in Nat
    BY FS_CardinalityType
  <1>2. /\ f \in [1 .. n -> S] /\ \A i, j \in 1 .. n : f[i] = f[j] => i = j
        /\ \A x \in S : \E i \in 1 .. n : f[i] = x
    BY DEF Orders, Bijection, Injection, IsInjective, Surjection
  <1>3. f \in Seq(S) /\ Len(f) = n
    BY <1>1, <1>2, SMT
  <1> QED BY <1>2, <1>3

LEMMA HeadTail ==
  ASSUME NEW M, NEW w \in Seq(M), w # <<>>
  PROVE  /\ Head(w) = w[1] /\ 1 \in DOMAIN w /\ w[1] \in M
         /\ Tail(w) \in Seq(M) /\ Len(Tail(w)) = Len(w) - 1
         /\ \A i \in DOMAIN Tail(w) : i + 1 \in DOMAIN w /\ Tail(w)[i] = w[i + 1]
  BY SMT

LEMMA Joined ==
  ASSUME NEW M, NEW v \in Seq(M), NEW w \in Seq(M)
  PROVE  /\ v \o w \in Seq(M) /\ Len(v \o w) = Len(v) + Len(w)
         /\ \A i \in 1 .. Len(v) : (v \o w)[i] = v[i]
         /\ \A i \in Len(v) + 1 .. Len(v) + Len(w) : (v \o w)[i] = w[i - Len(v)]
  BY ConcatProperties, SMT

LEMMA PendingIs ==
  ASSUME TypeOK, NEW s \in Sessions, NEW q \in Queues, NEW P \in SUBSET Messages,
         pending' = [pending EXCEPT ![s][q] = P]
  PROVE  /\ pending' \in [Sessions -> [Queues -> SUBSET Messages]]
         /\ pending'[s][q] = P
         /\ \A r \in Sessions, p \in Queues : r # s \/ p # q => pending'[r][p] = pending[r][p]
  <1>1. pending \in [Sessions -> [Queues -> SUBSET Messages]]
    BY DEF TypeOK
  <1>2. pending[s] \in [Queues -> SUBSET Messages]
    BY <1>1
  <1>3. pending' = [pending EXCEPT ![s] = [pending[s] EXCEPT ![q] = P]]
    OBVIOUS
  <1>4. [pending[s] EXCEPT ![q] = P] \in [Queues -> SUBSET Messages]
    BY <1>2
  <1> QED BY <1>1, <1>2, <1>3, <1>4

\* The steps that move a message, and what becomes of the queue and of what is
\* pending.
LEMMA EnqueueDoes ==
  ASSUME TypeOK, NEW s \in Sessions, NEW q \in Queues, Enqueue(s, q)
  PROVE  /\ work[s].op = "fan" /\ work'[s].op = "fan"
         /\ \E m \in Messages :
              /\ m.tag = nextTag[q]
              /\ waiting'[q] = Append(waiting[q], m)
         /\ waiting' \in [Queues -> Seq(Messages)]
         /\ \A p \in Queues : p # q => waiting'[p] = waiting[p] /\ nextTag'[p] = nextTag[p]
         /\ nextTag' \in [Queues -> Nat \ {0}] /\ nextTag'[q] = nextTag[q] + 1
         /\ pending' = pending /\ settled' = settled
  <1>1. waiting \in [Queues -> Seq(Messages)] /\ nextTag \in [Queues -> Nat \ {0}]
    BY DEF TypeOK
  <1>2. work[s].key \in Keys
    BY WorkShape DEF TypeOK, Enqueue
  <1> DEFINE m == [tag |-> nextTag[q], key |-> work[s].key]
  <1>3. m \in Messages /\ m.tag = nextTag[q]
    BY <1>1, <1>2 DEF Messages
  <1>4. waiting' = [waiting EXCEPT ![q] = Append(waiting[q], m)]
    BY DEF Enqueue
  <1>5. work[s].op = "fan" /\ work'[s].op = "fan"
    <2>1. PICK w \in Work : SetWork(s, w) /\ w.op = "fan"
      BY WorkSteps
    <2> QED BY <2>1, WorkIs DEF Enqueue
  <1>6. nextTag' = [nextTag EXCEPT ![q] = nextTag[q] + 1] /\ pending' = pending /\ settled' = settled
    BY DEF Enqueue, channelVars
  <1> HIDE DEF m
  <1> QED BY <1>1, <1>3, <1>4, <1>5, <1>6, SMT

LEMMA DispatchDoes ==
  ASSUME TypeOK, NEW s \in Sessions, NEW q \in Queues, Dispatch(s, q)
  PROVE  /\ waiting[q] # <<>> /\ Head(waiting[q]) \in Messages
         /\ waiting' \in [Queues -> Seq(Messages)] /\ waiting'[q] = Tail(waiting[q])
         /\ \A p \in Queues : p # q => waiting'[p] = waiting[p]
         /\ pending' \in [Sessions -> [Queues -> SUBSET Messages]]
         /\ pending'[s][q] = pending[s][q] \cup {Head(waiting[q])}
         /\ \A r \in Sessions, p \in Queues : r # s \/ p # q => pending'[r][p] = pending[r][p]
  <1>1. /\ waiting \in [Queues -> Seq(Messages)]
        /\ pending \in [Sessions -> [Queues -> SUBSET Messages]]
    BY DEF TypeOK
  <1>2. waiting[q] # <<>> /\ Head(waiting[q]) \in Messages /\ Tail(waiting[q]) \in Seq(Messages)
    BY <1>1, HeadTail, SMT DEF Dispatch
  <1>3. /\ pending' = [pending EXCEPT ![s][q] = pending[s][q] \cup {Head(waiting[q])}]
        /\ waiting' = [waiting EXCEPT ![q] = Tail(waiting[q])]
    BY DEF Dispatch
  <1>4. pending[s][q] \cup {Head(waiting[q])} \in SUBSET Messages
    BY <1>1, <1>2
  <1> QED BY <1>1, <1>2, <1>3, <1>4, PendingIs, SMT

LEMMA CloseDoes ==
  ASSUME TypeOK, PendingFinite, NEW s \in Sessions, CloseChannel(s)
  PROVE  /\ \A q \in Queues : \E v \in Orders(pending[s][q]) :
              /\ v \in Seq(Messages) /\ waiting'[q] = v \o waiting[q]
         /\ waiting' \in [Queues -> Seq(Messages)]
         /\ pending' \in [Sessions -> [Queues -> SUBSET Messages]]
         /\ \A q \in Queues : pending'[s][q] = {}
         /\ \A r \in Sessions : r # s => pending'[r] = pending[r]
  <1>1. /\ waiting \in [Queues -> Seq(Messages)]
        /\ pending \in [Sessions -> [Queues -> SUBSET Messages]]
    BY DEF TypeOK
  <1>2. PICK order \in [Queues -> UNION {Orders(pending[s][q]) : q \in Queues}] :
          /\ \A q \in Queues : order[q] \in Orders(pending[s][q])
          /\ waiting' = [q \in Queues |-> order[q] \o waiting[q]]
    BY DEF CloseChannel
  <1>3. \A q \in Queues : order[q] \in Seq(Messages)
    <2> SUFFICES ASSUME NEW q \in Queues
                 PROVE  order[q] \in Seq(Messages)
      OBVIOUS
    <2>1. order[q] \in Seq(pending[s][q]) /\ pending[s][q] \subseteq Messages
      BY <1>1, <1>2, OrderIs, SMT DEF PendingFinite
    <2> QED BY <2>1, SeqMonotonic
  <1>4. pending' = [pending EXCEPT ![s] = [q \in Queues |-> {}]]
    BY DEF CloseChannel
  <1>5. \A q \in Queues : order[q] \o waiting[q] \in Seq(Messages)
    BY <1>1, <1>3, Joined
  <1> QED BY <1>1, <1>2, <1>3, <1>4, <1>5

LEMMA TakeDoes ==
  ASSUME TypeOK, NEW s \in Sessions, NEW q \in Queues, NEW m, Take(s, q, m)
  PROVE  /\ work[s] = Idle /\ m \in pending[s][q] /\ m \in Messages
         /\ pending' \in [Sessions -> [Queues -> SUBSET Messages]]
         /\ pending'[s][q] = pending[s][q] \ {m}
         /\ \A r \in Sessions, p \in Queues : r # s \/ p # q => pending'[r][p] = pending[r][p]
  <1>1. pending \in [Sessions -> [Queues -> SUBSET Messages]]
    BY DEF TypeOK
  <1>2. pending' = [pending EXCEPT ![s][q] = pending[s][q] \ {m}] /\ m \in pending[s][q]
    BY DEF Take
  <1>3. pending[s][q] \ {m} \in SUBSET Messages
    BY <1>1
  <1> QED BY <1>1, <1>2, <1>3, PendingIs, SMT DEF Take

LEMMA RequeueDoes ==
  ASSUME TypeOK, NEW s \in Sessions, Requeue(s)
  PROVE  /\ work[s].op = "requeue" /\ work[s].queue \in Queues /\ work[s].msg \in Messages
         /\ work'[s] = Idle
         /\ waiting' \in [Queues -> Seq(Messages)]
         /\ waiting'[work[s].queue] = <<work[s].msg>> \o waiting[work[s].queue]
         /\ \A p \in Queues : p # work[s].queue => waiting'[p] = waiting[p]
  <1>1. waiting \in [Queues -> Seq(Messages)] /\ work \in [Sessions -> Work]
    BY DEF TypeOK
  <1>2. work[s].op = "requeue" /\ work[s].queue \in Queues /\ work[s].msg \in Messages
    BY <1>1, WorkShape, SMT DEF Requeue
  <1>3. <<work[s].msg>> \in Seq(Messages)
    BY <1>2, SMT
  <1>4. <<work[s].msg>> \o waiting[work[s].queue] \in Seq(Messages)
    BY <1>1, <1>2, <1>3, Joined
  <1>5. work' = [work EXCEPT ![s] = Idle]
    BY DEF Requeue, SetWork
  <1>6. waiting' = [waiting EXCEPT ![work[s].queue] = <<work[s].msg>> \o waiting[work[s].queue]]
    BY DEF Requeue
  <1> QED BY <1>1, <1>2, <1>4, <1>5, <1>6

LEMMA TypeStep ==
  ASSUME TypeOK, PendingFinite, \A s \in Sessions : Planned(s), Next
  PROVE  TypeOK' /\ PendingFinite'
  <1>1. PICK s \in Sessions : Declare(s) \/ Publish(s) \/ Channel(s)
    BY DEF Next
  <1> DEFINE Fine == TypeOK' /\ PendingFinite'
  <1>2. /\ exchanges \subseteq Exchanges /\ queues \subseteq Queues
        /\ dlx \in [Queues -> [exchange : Exchanges \cup {None}, key : Keys \cup {None}]]
        /\ bindings \subseteq exchanges \X Keys \X queues
        /\ work \in [Sessions -> Work] /\ waiting \in [Queues -> Seq(Messages)]
        /\ nextTag \in [Queues -> Nat \ {0}] /\ consuming \in [Sessions -> SUBSET queues]
        /\ pending \in [Sessions -> [Queues -> SUBSET Messages]]
        /\ settled \in [Queues -> SUBSET Nat]
        /\ published \in 0 .. MaxPublish /\ refused \in 0 .. MaxDead
    BY DEF TypeOK
  <1>3. Idle \in Work
    BY DEF Work
  <1>4. ASSUME NEW w \in Work, SetWork(s, w),
               UNCHANGED <<topology, queueVars, channelVars>>,
               published' \in 0 .. MaxPublish /\ refused' \in 0 .. MaxDead
        PROVE  Fine
    <2>1. work' \in [Sessions -> Work]
      BY <1>4, WorkIs
    <2> QED BY <1>2, <1>4, <2>1 DEF TypeOK, PendingFinite, topology, queueVars, channelVars
  <1>5. CASE Declare(s)
    <2>1. ASSUME NEW e \in Exchanges, DeclareExchange(s, e)
          PROVE  Fine
      BY <1>2, <2>1 DEF DeclareExchange, TypeOK, PendingFinite, queueVars, channelVars, counters
    <2>2. ASSUME NEW q \in Queues, NEW dead \in DeadLetters, DeclareQueue(s, q, dead)
          PROVE  Fine
      <3>1. dlx' \in [Queues -> [exchange : Exchanges \cup {None}, key : Keys \cup {None}]]
        BY <1>2, <2>2, RoutingAssumption DEF DeclareQueue
      <3> QED BY <1>2, <2>2, <3>1 DEF DeclareQueue, TypeOK, PendingFinite, queueVars,
                 channelVars, counters
    <2>3. ASSUME NEW e \in Exchanges, NEW k \in Keys, NEW q \in Queues, BindLookup(s, e, k, q)
          PROVE  Fine
      <3>1. PICK w \in Work : SetWork(s, w)
        BY <2>3, WorkSteps
      <3> QED BY <1>2, <1>4, <2>3, <3>1 DEF BindLookup, counters
    <2>4. CASE Bind(s)
      <3>1. bindings' \subseteq exchanges \X Keys \X queues
        BY <1>2, <2>4 DEF Bind, Planned
      <3>2. work' \in [Sessions -> Work]
        BY <1>3, <2>4, WorkIs DEF Bind
      <3> QED BY <1>2, <2>4, <3>1, <3>2 DEF Bind, TypeOK, PendingFinite, queueVars, channelVars,
                 counters
    <2> QED BY <1>5, <2>1, <2>2, <2>3, <2>4 DEF Declare
  <1>6. CASE Publish(s)
    <2>1. ASSUME NEW e \in Exchanges, NEW k \in Keys, HandlePublish(s, e, k)
          PROVE  Fine
      <3>1. Lookup(e, k) \in Work
        BY WorkSteps
      <3>2. published' \in 0 .. MaxPublish
        BY <1>2, <2>1, RoutingAssumption, SMT DEF HandlePublish
      <3> QED BY <1>2, <1>4, <2>1, <3>1, <3>2 DEF HandlePublish
    <2>2. CASE PublishLookup(s)
      <3>1. PICK w \in Work : SetWork(s, w)
        BY <1>3, <2>2, WorkSteps
      <3> QED BY <1>2, <1>4, <2>2, <3>1 DEF PublishLookup, counters
    <2>3. CASE Route(s)
      <3>1. PICK w \in Work : SetWork(s, w)
        BY <2>3, WorkSteps
      <3> QED BY <1>2, <1>4, <2>3, <3>1 DEF Route, counters
    <2>4. CASE PublishReturn(s)
      BY <1>2, <1>3, <1>4, <2>4 DEF PublishReturn, counters
    <2>5. ASSUME NEW q \in Queues, Enqueue(s, q)
          PROVE  Fine
      <3>1. PICK w \in Work : SetWork(s, w)
        BY <2>5, WorkSteps
      <3>2. work' \in [Sessions -> Work]
        BY <3>1, WorkIs
      <3>3. waiting' \in [Queues -> Seq(Messages)] /\ nextTag' \in [Queues -> Nat \ {0}]
        BY <2>5, EnqueueDoes
      <3> QED BY <1>2, <2>5, <3>2, <3>3 DEF Enqueue, TypeOK, PendingFinite, topology,
                 channelVars, counters
    <2> QED BY <1>6, <2>1, <2>2, <2>3, <2>4, <2>5 DEF Publish
  <1>7. CASE Channel(s)
    <2>1. ASSUME NEW q \in Queues, Consume(s, q)
          PROVE  Fine
      BY <1>2, <2>1 DEF Consume, TypeOK, PendingFinite, topology, queueVars, counters
    <2>2. ASSUME NEW q \in Queues, Dispatch(s, q)
          PROVE  Fine
      <3>1. PendingFinite'
        <4> SUFFICES ASSUME NEW r \in Sessions, NEW p \in Queues
                     PROVE  IsFiniteSet(pending'[r][p])
          BY DEF PendingFinite
        <4>1. IsFiniteSet(pending[r][p])
          BY DEF PendingFinite
        <4>2. \/ pending'[r][p] = pending[r][p]
              \/ pending'[r][p] = pending[r][p] \cup {Head(waiting[q])}
          BY <2>2, DispatchDoes, SMT
        <4> QED BY <4>1, <4>2, FS_AddElement
      <3>2. /\ waiting' \in [Queues -> Seq(Messages)]
            /\ pending' \in [Sessions -> [Queues -> SUBSET Messages]]
        BY <2>2, DispatchDoes
      <3> QED BY <1>2, <2>2, <3>1, <3>2 DEF Dispatch, TypeOK, topology, counters
    <2>3. CASE CloseChannel(s)
      <3>1. /\ waiting' \in [Queues -> Seq(Messages)]
            /\ pending' \in [Sessions -> [Queues -> SUBSET Messages]]
            /\ \A r \in Sessions, q \in Queues :
                 pending'[r][q] = {} \/ pending'[r][q] = pending[r][q]
        BY <2>3, CloseDoes
      <3>2. PendingFinite'
        BY <3>1, FS_EmptySet DEF PendingFinite
      <3>3. consuming' \in [Sessions -> SUBSET queues]
        BY <1>2, <2>3 DEF CloseChannel
      <3> QED BY <1>2, <2>3, <3>1, <3>2, <3>3 DEF CloseChannel, TypeOK, topology, counters
    <2>4. CASE Requeue(s)
      <3>1. waiting' \in [Queues -> Seq(Messages)]
        BY <2>4, RequeueDoes
      <3>2. work' \in [Sessions -> Work]
        BY <1>3, <2>4, WorkIs DEF Requeue
      <3> QED BY <1>2, <2>4, <3>1, <3>2 DEF Requeue, TypeOK, PendingFinite, topology,
                 channelVars, counters
    <2>5. ASSUME NEW q \in Queues, NEW m \in pending[s][q],
                 HandleAck(s, q, m) \/ NackRequeue(s, q, m) \/ NackDrop(s, q, m)
          PROVE  Fine
      <3>1. Take(s, q, m)
        BY <2>5 DEF HandleAck, NackRequeue, NackDrop
      <3>2. /\ pending' \in [Sessions -> [Queues -> SUBSET Messages]] /\ m \in Messages
            /\ m.tag \in Nat /\ m.key \in Keys
        BY <3>1, TakeDoes, SMT DEF Messages
      <3>3. PendingFinite'
        <4> SUFFICES ASSUME NEW r \in Sessions, NEW p \in Queues
                     PROVE  IsFiniteSet(pending'[r][p])
          BY DEF PendingFinite
        <4>1. IsFiniteSet(pending[r][p])
          BY DEF PendingFinite
        <4>2. pending'[r][p] \in SUBSET pending[r][p]
          BY <3>1, TakeDoes, SMT
        <4> QED BY <4>1, <4>2, FS_Subset
      <3>4. CASE HandleAck(s, q, m)
        BY <1>2, <3>2, <3>3, <3>4 DEF HandleAck, TypeOK, topology, queueVars, counters
      <3>5. CASE NackRequeue(s, q, m)
        <4>1. [op |-> "requeue", queue |-> q, msg |-> m] \in Work
          BY <3>2 DEF Work
        <4>2. work' \in [Sessions -> Work]
          BY <3>5, <4>1, WorkIs DEF NackRequeue
        <4> QED BY <1>2, <3>2, <3>3, <3>5, <4>2 DEF NackRequeue, TypeOK, topology, queueVars,
                   counters
      <3>6. CASE NackDrop(s, q, m)
        <4>1. work' \in [Sessions -> Work] /\ refused' \in 0 .. MaxDead
          <5>1. CASE dlx[q].exchange = None
            BY <1>2, <3>6, <5>1 DEF NackDrop
          <5>2. CASE dlx[q].exchange # None
            <6> DEFINE k == IF dlx[q].key = None THEN m.key ELSE dlx[q].key
            <6>1. dlx[q].exchange \in Exchanges /\ k \in Keys
              BY <1>2, <3>2, <5>2
            <6>2. SetWork(s, Lookup(dlx[q].exchange, k)) /\ refused' = refused + 1
                  /\ refused < MaxDead
              BY <3>6, <5>2 DEF NackDrop
            <6> HIDE DEF k
            <6>3. Lookup(dlx[q].exchange, k) \in Work
              BY <6>1, WorkSteps
            <6> QED BY <1>2, <6>2, <6>3, WorkIs, RoutingAssumption, SMT
          <5> QED BY <5>1, <5>2
        <4> QED BY <1>2, <3>2, <3>3, <3>6, <4>1 DEF NackDrop, TypeOK, topology, queueVars
      <3> QED BY <2>5, <3>4, <3>5, <3>6
    <2> QED BY <1>7, <2>1, <2>2, <2>3, <2>4, <2>5 DEF Channel
  <1> QED BY <1>1, <1>5, <1>6, <1>7

-----------------------------------------------------------------------------
(* Bindings and the loop over the bound queues.                             *)

\* Nothing is ever undeclared or unbound.
LEMMA TopologyGrows ==
  ASSUME TypeOK, Next
  PROVE  exchanges \subseteq exchanges' /\ queues \subseteq queues' /\ bindings \subseteq bindings'
  <1>1. PICK s \in Sessions : Declare(s) \/ Publish(s) \/ Channel(s)
    BY DEF Next
  <1>2. CASE Declare(s)
    BY <1>2 DEF Declare, DeclareExchange, DeclareQueue, BindLookup, Bind, topology
  <1>3. CASE Publish(s)
    BY <1>3 DEF Publish, HandlePublish, PublishLookup, Route, PublishReturn, Enqueue, topology
  <1>4. CASE Channel(s)
    BY <1>4 DEF Channel, Consume, Dispatch, CloseChannel, Requeue, HandleAck, NackRequeue,
       NackDrop, topology
  <1> QED BY <1>1, <1>2, <1>3, <1>4

LEMMA PlannedKept ==
  ASSUME TypeOK, Next, NEW s \in Sessions, Planned(s), work'[s] = work[s]
  PROVE  Planned(s)'
  <1>1. exchanges \X Keys \X queues \subseteq exchanges' \X Keys \X queues'
    BY TopologyGrows
  <1>2. Bound(work[s].exchange, work[s].key) \subseteq Bound(work[s].exchange, work[s].key)'
    BY TopologyGrows DEF Bound
  <1>3. Bound(work[s].exchange, work[s].key)' = {q \in Queues :
           <<work[s].exchange, work[s].key, q>> \in bindings'}
    BY DEF Bound
  <1> QED BY <1>1, <1>2, <1>3 DEF Planned, Bound

LEMMA PlannedStep ==
  ASSUME TypeOK, Next, \A s \in Sessions : Planned(s)
  PROVE  \A s \in Sessions : Planned(s)'
  <1>1. PICK s \in Sessions : Declare(s) \/ Publish(s) \/ Channel(s)
    BY DEF Next
  <1>2. work \in [Sessions -> Work]
    BY DEF TypeOK
  <1>3. SUFFICES /\ \A r \in Sessions : r # s => work'[r] = work[r]
                 /\ work'[s] = work[s] \/ Planned(s)'
    BY PlannedKept
  <1>4. ASSUME NEW w \in Work, SetWork(s, w)
        PROVE  work'[s] = w /\ \A r \in Sessions : r # s => work'[r] = work[r]
    BY <1>4, WorkIs
  <1>5. Idle \in Work /\ Idle.op = "idle"
    BY DEF Work, Idle
  <1>6. CASE SetWork(s, Idle)
    BY <1>4, <1>5, <1>6 DEF Planned
  <1>7. CASE work' = work
    BY <1>7
  <1>8. ASSUME NEW e \in Exchanges, NEW k \in Keys, SetWork(s, Lookup(e, k)), bindings' = bindings
        PROVE  (\A r \in Sessions : r # s => work'[r] = work[r]) /\ Planned(s)'
    <2>1. Lookup(e, k) \in Work
      BY WorkSteps
    <2>2. work'[s] = Lookup(e, k) /\ \A r \in Sessions : r # s => work'[r] = work[r]
      BY <1>4, <1>8, <2>1
    <2>3. /\ Lookup(e, k).op = "lookup" /\ Lookup(e, k).exchange = e /\ Lookup(e, k).key = k
          /\ Lookup(e, k).due = Bound(e, k)
      BY DEF Lookup
    <2>4. Bound(e, k) = {q \in Queues : <<e, k, q>> \in bindings'}
      BY <1>8 DEF Bound
    <2> QED BY <2>2, <2>3, <2>4 DEF Planned, Bound
  <1>9. CASE Declare(s)
    <2>1. ASSUME NEW e \in Exchanges, NEW k \in Keys, NEW q \in Queues, BindLookup(s, e, k, q)
          PROVE  (\A r \in Sessions : r # s => work'[r] = work[r]) /\ Planned(s)'
      <3> DEFINE w == [op |-> "bind", binding |-> <<e, k, q>>]
      <3>1. w \in Work /\ SetWork(s, w)
        BY <2>1, WorkSteps
      <3>2. work'[s] = w /\ \A r \in Sessions : r # s => work'[r] = work[r]
        BY <1>4, <3>1
      <3>3. w.op = "bind" /\ w.binding \in exchanges' \X Keys \X queues'
        BY <2>1 DEF BindLookup, topology
      <3> HIDE DEF w
      <3> QED BY <3>2, <3>3 DEF Planned
    <2>2. CASE Bind(s)
      BY <1>6, <2>2 DEF Bind
    <2> QED BY <1>7, <1>9, <2>1, <2>2 DEF Declare, DeclareExchange, DeclareQueue
  <1>10. CASE Publish(s)
    <2>1. ASSUME NEW e \in Exchanges, NEW k \in Keys, HandlePublish(s, e, k)
          PROVE  (\A r \in Sessions : r # s => work'[r] = work[r]) /\ Planned(s)'
      BY <1>8, <2>1 DEF HandlePublish, topology
    <2>2. CASE PublishLookup(s)
      <3> DEFINE w == [op |-> "route", exchange |-> work[s].exchange, key |-> work[s].key,
                       due |-> work[s].due]
      <3>1. CASE w \in Work /\ SetWork(s, w)
        <4>1. work'[s] = w /\ \A r \in Sessions : r # s => work'[r] = work[r]
          BY <1>4, <3>1
        <4>2. w.due \subseteq {q \in Queues : <<w.exchange, w.key, q>> \in bindings'}
          BY <2>2 DEF PublishLookup, topology, Planned, Bound
        <4>3. w.op = "route"
          OBVIOUS
        <4> HIDE DEF w
        <4> QED BY <4>1, <4>2, <4>3 DEF Planned, Bound
      <3> QED BY <1>6, <2>2, <3>1, WorkSteps
    <2>3. CASE Route(s)
      <3> DEFINE B == Bound(work[s].exchange, work[s].key)
                 w == [op |-> "fan", exchange |-> work[s].exchange, key |-> work[s].key,
                       due |-> work[s].due, todo |-> B, got |-> {}]
      <3>1. w \in Work /\ SetWork(s, w)
        BY <2>3, WorkSteps
      <3>2. work'[s] = w /\ \A r \in Sessions : r # s => work'[r] = work[r]
        BY <1>4, <3>1
      <3>3. /\ w.op = "fan" /\ w.exchange = work[s].exchange /\ w.key = work[s].key
            /\ w.due = work[s].due /\ w.todo = B /\ w.got = {}
        OBVIOUS
      <3>4. work[s].due \subseteq B
        BY <2>3 DEF Route, Planned
      <3>5. B = {q \in Queues : <<work[s].exchange, work[s].key, q>> \in bindings'}
        BY <2>3 DEF Route, topology, Bound
      <3> HIDE DEF w, B
      <3> QED BY <3>2, <3>3, <3>4, <3>5 DEF Planned, Bound
    <2>4. CASE PublishReturn(s)
      BY <1>6, <2>4 DEF PublishReturn
    <2>5. ASSUME NEW q \in Queues, Enqueue(s, q)
          PROVE  (\A r \in Sessions : r # s => work'[r] = work[r]) /\ Planned(s)'
      <3>1. PICK w \in Work :
               /\ SetWork(s, w) /\ w.op = "fan"
               /\ w.exchange = work[s].exchange /\ w.key = work[s].key
               /\ w.due = work[s].due
               /\ w.todo = work[s].todo \ {q} /\ w.got = work[s].got \cup {q}
        BY <2>5, WorkSteps
      <3>2. work'[s] = w /\ \A r \in Sessions : r # s => work'[r] = work[r]
        BY <1>4, <3>1
      <3>3. work[s].op = "fan" /\ q \in work[s].todo /\ bindings' = bindings
        BY <2>5 DEF Enqueue, topology
      <3>4. /\ w.due \subseteq w.got \cup w.todo /\ w.got \cap w.todo = {}
            /\ w.got \cup w.todo = work[s].got \cup work[s].todo
        BY <3>1, <3>3, SMT DEF Planned
      <3>5. work[s].got \cup work[s].todo \subseteq
              {p \in Queues : <<work[s].exchange, work[s].key, p>> \in bindings'}
        BY <3>3 DEF Planned, Bound
      <3> QED BY <3>1, <3>2, <3>4, <3>5 DEF Planned, Bound
    <2> QED BY <1>10, <2>1, <2>2, <2>3, <2>4, <2>5 DEF Publish
  <1>11. CASE Channel(s)
    <2>1. CASE Requeue(s)
      BY <1>6, <2>1 DEF Requeue
    <2>2. ASSUME NEW q \in Queues, NEW m \in pending[s][q], NackRequeue(s, q, m)
          PROVE  (\A r \in Sessions : r # s => work'[r] = work[r]) /\ Planned(s)'
      <3> DEFINE w == [op |-> "requeue", queue |-> q, msg |-> m]
      <3>1. m \in Messages
        BY <2>2, TakeDoes DEF NackRequeue
      <3>2. w \in Work /\ w.op = "requeue" /\ SetWork(s, w)
        BY <2>2, <3>1 DEF NackRequeue, Work
      <3> HIDE DEF w
      <3> QED BY <1>4, <3>2 DEF Planned
    <2>3. ASSUME NEW q \in Queues, NEW m \in pending[s][q], NackDrop(s, q, m)
          PROVE  /\ \A r \in Sessions : r # s => work'[r] = work[r]
                 /\ work'[s] = work[s] \/ Planned(s)'
      <3>1. CASE dlx[q].exchange = None
        BY <1>7, <2>3, <3>1 DEF NackDrop
      <3>2. CASE dlx[q].exchange # None
        <4> DEFINE k == IF dlx[q].key = None THEN m.key ELSE dlx[q].key
        <4>1. m \in Messages
          BY <2>3, TakeDoes DEF NackDrop
        <4>2. dlx[q].exchange \in Exchanges /\ k \in Keys
          BY <3>2, <4>1 DEF TypeOK, Messages
        <4>3. SetWork(s, Lookup(dlx[q].exchange, k)) /\ bindings' = bindings
          BY <2>3, <3>2 DEF NackDrop, topology
        <4> HIDE DEF k
        <4> QED BY <1>8, <4>2, <4>3
      <3> QED BY <3>1, <3>2
    <2> QED BY <1>7, <1>11, <2>1, <2>2, <2>3
         DEF Channel, Consume, Dispatch, CloseChannel, HandleAck
  <1> QED BY <1>1, <1>9, <1>10, <1>11

-----------------------------------------------------------------------------
(* Where the messages of a queue are.                                       *)

\* Session s moves tags of q between its hands, the queue and the settled ones.
LEMMA TagsMove ==
  ASSUME NEW s \in Sessions, NEW q \in Queues, OnePlace(q), Drawn(q),
         \A r \in Sessions \ {s} : pending'[r][q] = pending[r][q] /\ work'[r] = work[r],
         Once(waiting'[q]),
         \A m, n \in pending'[s][q] : m.tag = n.tag => m = n,
         Waits(q)' \cap settled'[q] = {},
         Pends(s, q)' \cap Nacks(s, q)' = {},
         With(s, q)' \cap (Waits(q)' \cup settled'[q]) = {},
         Waits(q)' \cup settled'[q] \cup With(s, q)' = Waits(q) \cup settled[q] \cup With(s, q),
         nextTag'[q] = nextTag[q]
  PROVE  OnePlace(q)' /\ Drawn(q)'
  <1>1. \A r \in Sessions \ {s} : Pends(r, q)' = Pends(r, q) /\ Nacks(r, q)' = Nacks(r, q)
    BY DEF Pends, Nacks
  <1>2. \A r \in Sessions \ {s} : With(r, q)' = With(r, q)
    BY <1>1 DEF With
  <1>3. \A r \in Sessions \ {s} :
          With(r, q) \cap (Waits(q) \cup settled[q] \cup With(s, q)) = {}
    BY DEF OnePlace
  <1>4. \A r \in Sessions : With(r, q)' \cap (Waits(q)' \cup settled'[q]) = {}
    BY <1>2, <1>3, SMT
  <1>5. \A r, t \in Sessions : r # t => With(r, q)' \cap With(t, q)' = {}
    <2>1. \A r \in Sessions \ {s} : With(r, q)' \cap With(s, q)' = {}
      BY <1>2, <1>3
    <2> QED BY <1>2, <2>1, SMT DEF OnePlace
  <1>6. \A r \in Sessions : Pends(r, q)' \cap Nacks(r, q)' = {}
    BY <1>1 DEF OnePlace
  <1>7. \A r \in Sessions : \A m, n \in pending'[r][q] : m.tag = n.tag => m = n
    BY DEF OnePlace
  <1>8. OnePlace(q)'
    BY <1>4, <1>5, <1>6, <1>7 DEF OnePlace
  <1>9. Waits(q)' \cup settled'[q] \cup UNION {With(r, q)' : r \in Sessions} =
          Waits(q) \cup settled[q] \cup UNION {With(r, q) : r \in Sessions}
    <2> DEFINE U == Waits(q) \cup settled[q]
               V == Waits(q)' \cup settled'[q]
    <2>1. V \cup With(s, q)' = U \cup With(s, q)
      OBVIOUS
    <2> HIDE DEF U, V
    <2>2. V \cup UNION {With(r, q)' : r \in Sessions} = U \cup UNION {With(r, q) : r \in Sessions}
      BY <1>2, <2>1, SMT
    <2> QED BY <2>2 DEF U, V
  <1>10. Drawn(q)'
    BY <1>9 DEF Drawn
  <1> QED BY <1>8, <1>10

\* Nothing of q moves.
LEMMA TagsStay ==
  ASSUME NEW q \in Queues, OnePlace(q), Drawn(q),
         waiting'[q] = waiting[q], settled'[q] = settled[q], nextTag'[q] = nextTag[q],
         \A r \in Sessions : pending'[r][q] = pending[r][q] /\ Nacks(r, q)' = Nacks(r, q)
  PROVE  OnePlace(q)' /\ Drawn(q)'
  <1>1. Waits(q)' = Waits(q)
    BY DEF Waits
  <1>2. \A r \in Sessions : Pends(r, q)' = Pends(r, q)
    BY DEF Pends
  <1>3. \A r \in Sessions : With(r, q)' = With(r, q)
    BY <1>2 DEF With
  <1> QED BY <1>1, <1>2, <1>3 DEF OnePlace, Drawn

LEMMA NacksSame ==
  ASSUME NEW s \in Sessions, \A r \in Sessions \ {s} : work'[r] = work[r],
         work'[s] = work[s] \/ (work[s].op # "requeue" /\ work'[s].op # "requeue")
  PROVE  \A r \in Sessions, q \in Queues : Nacks(r, q)' = Nacks(r, q)
  BY DEF Nacks

LEMMA AppendTags ==
  ASSUME NEW w \in Seq(Messages), NEW m \in Messages, Once(w), m.tag \notin Tags(w)
  PROVE  Tags(Append(w, m)) = Tags(w) \cup {m.tag} /\ Once(Append(w, m))
  <1> DEFINE v == Append(w, m)
             n == Len(w)
  <1>1. /\ n \in Nat /\ DOMAIN w = 1 .. n /\ DOMAIN v = 1 .. n + 1
        /\ \A i \in 1 .. n : v[i] = w[i]
        /\ v[n + 1] = m
    BY SMT
  <1> HIDE DEF v, n
  <1>2. Tags(v) = Tags(w) \cup {m.tag}
    BY <1>1, SMT DEF Tags
  <1>3. ASSUME NEW i \in 1 .. n + 1, NEW j \in 1 .. n + 1, v[i].tag = v[j].tag
        PROVE  i = j
    <2>1. CASE i \in 1 .. n /\ j \in 1 .. n
      BY <1>1, <1>3, <2>1 DEF Once
    <2>2. \A k \in 1 .. n : v[k].tag # v[n + 1].tag
      BY <1>1 DEF Tags
    <2> QED BY <1>1, <1>3, <2>1, <2>2, SMT
  <1> QED BY <1>1, <1>2, <1>3 DEF Once, v

LEMMA TailTags ==
  ASSUME NEW w \in Seq(Messages), w # <<>>, Once(w)
  PROVE  /\ Head(w).tag \in Tags(w) /\ Tags(Tail(w)) = Tags(w) \ {Head(w).tag}
         /\ Once(Tail(w))
  <1> DEFINE v == Tail(w)
             n == Len(w)
  <1>1. /\ n \in Nat \ {0} /\ DOMAIN w = 1 .. n /\ DOMAIN v = 1 .. n - 1 /\ Head(w) = w[1]
        /\ \A i \in 1 .. n - 1 : v[i] = w[i + 1]
    BY HeadTail, SMT
  <1> HIDE DEF v, n
  <1>2. \A i \in 1 .. n - 1 : i + 1 \in 1 .. n /\ i + 1 # 1
    BY <1>1, SMT
  <1>3. \A i \in 1 .. n : i # 1 => i - 1 \in 1 .. n - 1 /\ (i - 1) + 1 = i
    BY <1>1, SMT
  <1>4. 1 \in 1 .. n
    BY <1>1, SMT
  <1>5. Tags(v) \subseteq Tags(w) \ {w[1].tag}
    <2> SUFFICES ASSUME NEW i \in 1 .. n - 1
                 PROVE  v[i].tag \in Tags(w) \ {w[1].tag}
      BY <1>1 DEF Tags
    <2>1. v[i] = w[i + 1] /\ w[i + 1].tag \in Tags(w)
      BY <1>1, <1>2 DEF Tags
    <2>2. w[i + 1].tag # w[1].tag
      BY <1>1, <1>2, <1>4 DEF Once
    <2> QED BY <2>1, <2>2
  <1>6. \A i \in 1 .. n : i # 1 => w[i].tag \in Tags(v)
    <2> SUFFICES ASSUME NEW i \in 1 .. n, i # 1
                 PROVE  w[i].tag \in Tags(v)
      OBVIOUS
    <2>1. i - 1 \in DOMAIN v /\ v[i - 1] = w[i]
      BY <1>1, <1>3
    <2> QED BY <2>1 DEF Tags
  <1>7. Tags(w) \ {w[1].tag} \subseteq Tags(v)
    BY <1>1, <1>6 DEF Tags
  <1>8. ASSUME NEW i \in 1 .. n - 1, NEW j \in 1 .. n - 1, v[i].tag = v[j].tag
        PROVE  i = j
    <2>1. w[i + 1].tag = w[j + 1].tag
      BY <1>1, <1>8
    <2>2. i + 1 = j + 1
      BY <1>1, <1>2, <2>1 DEF Once
    <2> QED BY <2>2, SMT
  <1>9. w[1].tag \in Tags(w)
    BY <1>1, <1>4 DEF Tags
  <1>10. Once(v)
    BY <1>1, <1>8 DEF Once
  <1> QED BY <1>1, <1>5, <1>7, <1>9, <1>10 DEF v

LEMMA JoinTags ==
  ASSUME NEW v \in Seq(Messages), NEW w \in Seq(Messages), Once(v), Once(w),
         Tags(v) \cap Tags(w) = {}
  PROVE  Tags(v \o w) = Tags(v) \cup Tags(w) /\ Once(v \o w)
  <1> DEFINE u == v \o w
             m == Len(v)
             n == Len(w)
  <1>1. /\ m \in Nat /\ n \in Nat
        /\ DOMAIN v = 1 .. m /\ DOMAIN w = 1 .. n /\ DOMAIN u = 1 .. m + n
        /\ \A i \in 1 .. m : u[i] = v[i]
        /\ \A i \in m + 1 .. m + n : u[i] = w[i - m]
    BY Joined, SMT
  <1> HIDE DEF u, m, n
  <1>2. \A i \in 1 .. m + n : i \in 1 .. m \/ (i \in m + 1 .. m + n /\ i - m \in 1 .. n)
    BY <1>1, SMT
  <1>3. \A i \in 1 .. m + n : \/ i \in 1 .. m /\ u[i].tag \in Tags(v)
                              \/ i \in m + 1 .. m + n /\ u[i].tag \in Tags(w)
    BY <1>1, <1>2 DEF Tags
  <1>4. Tags(u) \subseteq Tags(v) \cup Tags(w)
    BY <1>1, <1>3 DEF Tags
  <1>5. Tags(v) \subseteq Tags(u)
    <2>1. \A i \in 1 .. m : i \in 1 .. m + n
      BY <1>1, SMT
    <2> QED BY <1>1, <2>1 DEF Tags
  <1>6. Tags(w) \subseteq Tags(u)
    <2> SUFFICES ASSUME NEW i \in 1 .. n
                 PROVE  w[i].tag \in Tags(u)
      BY <1>1 DEF Tags
    <2>1. m + i \in m + 1 .. m + n /\ m + i \in 1 .. m + n /\ (m + i) - m = i
      BY <1>1, SMT
    <2>2. u[m + i] = w[i]
      BY <1>1, <2>1
    <2> QED BY <1>1, <2>1, <2>2 DEF Tags
  <1>7. ASSUME NEW i \in 1 .. m + n, NEW j \in 1 .. m + n, u[i].tag = u[j].tag
        PROVE  i = j
    <2>1. CASE i \in 1 .. m /\ j \in 1 .. m
      BY <1>1, <1>7, <2>1 DEF Once
    <2>2. CASE i \in m + 1 .. m + n /\ j \in m + 1 .. m + n
      <3>1. i - m \in 1 .. n /\ j - m \in 1 .. n
        BY <1>1, <2>2, SMT
      <3>2. w[i - m].tag = w[j - m].tag
        BY <1>1, <1>7, <2>2
      <3>3. i - m = j - m
        BY <1>1, <3>1, <3>2 DEF Once
      <3> QED BY <1>1, <3>3, SMT
    <2>3. CASE u[i].tag \in Tags(v) /\ u[j].tag \in Tags(w)
      BY <1>7, <2>3
    <2>4. CASE u[i].tag \in Tags(w) /\ u[j].tag \in Tags(v)
      BY <1>7, <2>4
    <2> QED BY <1>3, <2>1, <2>2, <2>3, <2>4
  <1>8. Once(u)
    BY <1>1, <1>7 DEF Once
  <1> QED BY <1>4, <1>5, <1>6, <1>8 DEF u

LEMMA EnqueuePlaces ==
  ASSUME TypeOK, NEW s \in Sessions, NEW q \in Queues, Enqueue(s, q), OnePlace(q), Drawn(q),
         \A r \in Sessions, p \in Queues : Nacks(r, p)' = Nacks(r, p)
  PROVE  OnePlace(q)' /\ Drawn(q)'
  <1> DEFINE n == nextTag[q]
  <1>1. PICK m \in Messages : m.tag = n /\ waiting'[q] = Append(waiting[q], m)
    BY EnqueueDoes
  <1>2. /\ waiting[q] \in Seq(Messages) /\ n \in Nat \ {0}
        /\ nextTag'[q] = n + 1 /\ pending' = pending /\ settled' = settled
    BY EnqueueDoes DEF TypeOK
  <1>3. n \notin Waits(q) /\ n \notin settled[q] /\ \A r \in Sessions : n \notin With(r, q)
    BY <1>2, SMT DEF Drawn
  <1>4. Waits(q)' = Waits(q) \cup {n} /\ Once(waiting'[q])
    BY <1>1, <1>2, <1>3, AppendTags, SMT DEF Waits, OnePlace
  <1>5. \A r \in Sessions : Pends(r, q)' = Pends(r, q) /\ With(r, q)' = With(r, q)
    BY <1>2 DEF Pends, With
  <1>6. OnePlace(q)'
    BY <1>2, <1>3, <1>4, <1>5, SMT DEF OnePlace
  <1>7. 1 .. (nextTag'[q] - 1) = (1 .. n - 1) \cup {n}
    BY <1>2, SMT
  <1>8. Waits(q)' \cup settled'[q] \cup UNION {With(r, q)' : r \in Sessions} =
          (Waits(q) \cup settled[q] \cup UNION {With(r, q) : r \in Sessions}) \cup {n}
    BY <1>2, <1>4, <1>5
  <1> QED BY <1>6, <1>7, <1>8 DEF Drawn

LEMMA DispatchPlaces ==
  ASSUME TypeOK, NEW s \in Sessions, NEW q \in Queues, Dispatch(s, q), OnePlace(q), Drawn(q)
  PROVE  OnePlace(q)' /\ Drawn(q)'
  <1> DEFINE h == Head(waiting[q])
  <1>1. waiting[q] \in Seq(Messages) /\ waiting[q] # <<>>
    BY DispatchDoes DEF TypeOK
  <1>2. /\ waiting'[q] = Tail(waiting[q]) /\ pending'[s][q] = pending[s][q] \cup {h}
        /\ \A r \in Sessions \ {s} : pending'[r][q] = pending[r][q]
        /\ work' = work /\ settled' = settled /\ nextTag' = nextTag
    BY DispatchDoes DEF Dispatch
  <1>3. h.tag \in Waits(q) /\ Waits(q)' = Waits(q) \ {h.tag} /\ Once(waiting'[q])
    BY <1>1, <1>2, TailTags DEF Waits, OnePlace
  <1> HIDE DEF h
  <1>4. Pends(s, q)' = Pends(s, q) \cup {h.tag} /\ Nacks(s, q)' = Nacks(s, q)
    BY <1>2 DEF Pends, Nacks
  <1>5. h.tag \notin With(s, q) /\ h.tag \notin settled[q]
    BY <1>3 DEF OnePlace
  <1>6. \A m, n \in pending'[s][q] : m.tag = n.tag => m = n
    BY <1>2, <1>5 DEF OnePlace, With, Pends
  <1>7. /\ Waits(q) \cap settled[q] = {} /\ Pends(s, q) \cap Nacks(s, q) = {}
        /\ With(s, q) \cap (Waits(q) \cup settled[q]) = {}
    BY DEF OnePlace
  <1>8. /\ Waits(q)' \cap settled'[q] = {} /\ Pends(s, q)' \cap Nacks(s, q)' = {}
        /\ With(s, q)' \cap (Waits(q)' \cup settled'[q]) = {}
        /\ Waits(q)' \cup settled'[q] \cup With(s, q)' = Waits(q) \cup settled[q] \cup With(s, q)
    BY <1>2, <1>3, <1>4, <1>5, <1>7, SMT DEF With
  <1> QED BY <1>2, <1>3, <1>6, <1>8, TagsMove

LEMMA ClosePlaces ==
  ASSUME TypeOK, PendingFinite, NEW s \in Sessions, CloseChannel(s),
         NEW q \in Queues, OnePlace(q), Drawn(q)
  PROVE  OnePlace(q)' /\ Drawn(q)'
  <1>1. PICK v \in Orders(pending[s][q]) :
          v \in Seq(Messages) /\ waiting'[q] = v \o waiting[q]
    BY CloseDoes
  <1>2. /\ waiting[q] \in Seq(Messages) /\ pending'[s][q] = {}
        /\ \A r \in Sessions \ {s} : pending'[r][q] = pending[r][q]
        /\ work' = work /\ settled' = settled /\ nextTag' = nextTag
    BY CloseDoes DEF TypeOK, CloseChannel
  <1>3. /\ v \in Seq(pending[s][q]) /\ DOMAIN v = 1 .. Len(v)
        /\ \A i, j \in DOMAIN v : v[i] = v[j] => i = j
        /\ \A x \in pending[s][q] : \E i \in DOMAIN v : v[i] = x
    BY OrderIs DEF PendingFinite
  <1>4. \A i \in DOMAIN v : v[i] \in pending[s][q]
    BY <1>3, SMT
  <1>5. Tags(v) = Pends(s, q)
    BY <1>3, <1>4, SMT DEF Tags, Pends
  <1>6. Once(v)
    BY <1>3, <1>4 DEF Once, OnePlace
  <1>7. /\ Waits(q) \cap settled[q] = {} /\ Pends(s, q) \cap Nacks(s, q) = {}
        /\ With(s, q) \cap (Waits(q) \cup settled[q]) = {} /\ Once(waiting[q])
    BY DEF OnePlace
  <1>8. Waits(q)' = Pends(s, q) \cup Waits(q) /\ Once(waiting'[q])
    BY <1>1, <1>2, <1>5, <1>6, <1>7, JoinTags, SMT DEF Waits, With
  <1>9. Pends(s, q)' = {} /\ Nacks(s, q)' = Nacks(s, q)
    BY <1>2 DEF Pends, Nacks
  <1>10. /\ Waits(q)' \cap settled'[q] = {} /\ Pends(s, q)' \cap Nacks(s, q)' = {}
         /\ With(s, q)' \cap (Waits(q)' \cup settled'[q]) = {}
         /\ Waits(q)' \cup settled'[q] \cup With(s, q)' = Waits(q) \cup settled[q] \cup With(s, q)
    BY <1>2, <1>7, <1>8, <1>9 DEF With
  <1> QED BY <1>2, <1>8, <1>10, TagsMove

\* A taken message is settled, or left in the hands of the nack.
LEMMA TakePlaces ==
  ASSUME TypeOK, NEW s \in Sessions, NEW q \in Queues, NEW m \in pending[s][q], Take(s, q, m),
         OnePlace(q), Drawn(q), waiting' = waiting, nextTag' = nextTag,
         \A r \in Sessions \ {s} : work'[r] = work[r],
         \/ settled'[q] = settled[q] \cup {m.tag} /\ Nacks(s, q)' = {}
         \/ settled'[q] = settled[q] /\ Nacks(s, q)' = {m.tag}
  PROVE  OnePlace(q)' /\ Drawn(q)'
  <1>1. /\ work[s] = Idle /\ pending'[s][q] = pending[s][q] \ {m}
        /\ \A r \in Sessions \ {s} : pending'[r][q] = pending[r][q]
    BY TakeDoes, SMT
  <1>2. Nacks(s, q) = {}
    BY <1>1, SMT DEF Nacks, Idle
  <1>3. m.tag \in Pends(s, q)
    BY DEF Pends
  <1>4. \A x, y \in pending[s][q] : x.tag = y.tag => x = y
    BY DEF OnePlace
  <1>5. Pends(s, q)' = Pends(s, q) \ {m.tag}
    BY <1>1, <1>4, SMT DEF Pends
  <1>6. Waits(q)' = Waits(q) /\ Once(waiting'[q])
    BY DEF Waits, OnePlace
  <1>7. /\ Waits(q) \cap settled[q] = {} /\ With(s, q) \cap (Waits(q) \cup settled[q]) = {}
    BY DEF OnePlace
  <1>8. /\ Waits(q)' \cap settled'[q] = {} /\ Pends(s, q)' \cap Nacks(s, q)' = {}
        /\ With(s, q)' \cap (Waits(q)' \cup settled'[q]) = {}
        /\ Waits(q)' \cup settled'[q] \cup With(s, q)' = Waits(q) \cup settled[q] \cup With(s, q)
    BY <1>2, <1>3, <1>5, <1>6, <1>7, SMT DEF With
  <1>9. \A x, y \in pending'[s][q] : x.tag = y.tag => x = y
    BY <1>1, <1>4
  <1> QED BY <1>1, <1>6, <1>8, <1>9, TagsMove

LEMMA RequeuePlaces ==
  ASSUME TypeOK, NEW s \in Sessions, Requeue(s), NEW q \in Queues, q = work[s].queue,
         OnePlace(q), Drawn(q)
  PROVE  OnePlace(q)' /\ Drawn(q)'
  <1> DEFINE m == work[s].msg
  <1>1. /\ work[s].op = "requeue" /\ m \in Messages /\ work'[s] = Idle
        /\ waiting'[q] = <<m>> \o waiting[q]
    BY RequeueDoes
  <1>2. /\ waiting[q] \in Seq(Messages) /\ pending' = pending /\ settled' = settled
        /\ nextTag' = nextTag /\ \A r \in Sessions \ {s} : work'[r] = work[r]
    BY DEF TypeOK, Requeue, channelVars, SetWork
  <1>3. Nacks(s, q) = {m.tag} /\ Nacks(s, q)' = {} /\ Pends(s, q)' = Pends(s, q)
    BY <1>1, <1>2, SMT DEF Nacks, Pends, Idle
  <1> HIDE DEF m
  <1>4. <<m>> \in Seq(Messages) /\ Tags(<<m>>) = {m.tag} /\ Once(<<m>>)
    BY <1>1, SMT DEF Tags, Once
  <1>5. /\ Waits(q) \cap settled[q] = {} /\ Pends(s, q) \cap Nacks(s, q) = {}
        /\ With(s, q) \cap (Waits(q) \cup settled[q]) = {} /\ Once(waiting[q])
    BY DEF OnePlace
  <1>6. Waits(q)' = {m.tag} \cup Waits(q) /\ Once(waiting'[q])
    <2>1. m.tag \notin Waits(q)
      BY <1>3, <1>5 DEF With
    <2>2. Tags(<<m>>) \cap Tags(waiting[q]) = {}
      BY <1>4, <2>1 DEF Waits
    <2>3. /\ Tags(<<m>> \o waiting[q]) = Tags(<<m>>) \cup Tags(waiting[q])
          /\ Once(<<m>> \o waiting[q])
      BY <1>2, <1>4, <1>5, <2>2, JoinTags
    <2> QED BY <1>1, <1>4, <2>3 DEF Waits
  <1>7. /\ Waits(q)' \cap settled'[q] = {} /\ Pends(s, q)' \cap Nacks(s, q)' = {}
        /\ With(s, q)' \cap (Waits(q)' \cup settled'[q]) = {}
        /\ Waits(q)' \cup settled'[q] \cup With(s, q)' = Waits(q) \cup settled[q] \cup With(s, q)
    BY <1>2, <1>3, <1>5, <1>6, SMT DEF With
  <1>8. \A x, y \in pending'[s][q] : x.tag = y.tag => x = y
    BY <1>2 DEF OnePlace
  <1> QED BY <1>2, <1>6, <1>7, <1>8, TagsMove

LEMMA PlacesStep ==
  ASSUME TypeOK, PendingFinite, Next, \A q \in Queues : OnePlace(q) /\ Drawn(q)
  PROVE  \A q \in Queues : OnePlace(q)' /\ Drawn(q)'
  <1>1. PICK s \in Sessions : Declare(s) \/ Publish(s) \/ Channel(s)
    BY DEF Next
  <1> DEFINE Fine == \A q \in Queues : OnePlace(q)' /\ Drawn(q)'
  <1>2. work \in [Sessions -> Work] /\ Idle \in Work /\ Idle.op = "idle"
    BY DEF TypeOK, Work, Idle
  <1>3. ASSUME UNCHANGED <<waiting, nextTag, pending, settled>>,
               \/ work' = work
               \/ /\ work[s].op # "requeue"
                  /\ \E w \in Work : SetWork(s, w) /\ w.op # "requeue"
        PROVE  Fine
    <2>1. \A r \in Sessions, q \in Queues : Nacks(r, q)' = Nacks(r, q)
      BY <1>3, WorkIs, NacksSame
    <2> QED BY <1>3, <2>1, TagsStay
  <1>4. CASE Declare(s)
    <2>1. ASSUME NEW e \in Exchanges, NEW k \in Keys, NEW q \in Queues, BindLookup(s, e, k, q)
          PROVE  Fine
      <3> DEFINE w == [op |-> "bind", binding |-> <<e, k, q>>]
      <3>1. w \in Work /\ SetWork(s, w) /\ w.op # "requeue"
        BY <2>1, WorkSteps
      <3> HIDE DEF w
      <3> QED BY <1>2, <1>3, <2>1, <3>1 DEF BindLookup, queueVars, channelVars
    <2>2. CASE Bind(s)
      BY <1>2, <1>3, <2>2 DEF Bind, queueVars, channelVars
    <2> QED BY <1>3, <1>4, <2>1, <2>2
         DEF Declare, DeclareExchange, DeclareQueue, queueVars, channelVars
  <1>5. CASE Publish(s)
    <2>1. ASSUME NEW e \in Exchanges, NEW k \in Keys, HandlePublish(s, e, k)
          PROVE  Fine
      <3>1. Lookup(e, k) \in Work /\ Lookup(e, k).op # "requeue"
        BY WorkSteps DEF Lookup
      <3> QED BY <1>2, <1>3, <2>1, <3>1 DEF HandlePublish, queueVars, channelVars
    <2>2. CASE PublishLookup(s) \/ Route(s) \/ PublishReturn(s)
      <3>1. \E w \in Work : SetWork(s, w) /\ w.op # "requeue"
        BY <1>2, <2>2, WorkSteps DEF PublishReturn
      <3>2. UNCHANGED <<waiting, nextTag, pending, settled>> /\ work[s].op # "requeue"
        BY <2>2 DEF PublishLookup, Route, PublishReturn, queueVars, channelVars
      <3> QED BY <1>3, <3>1, <3>2
    <2>3. ASSUME NEW q \in Queues, Enqueue(s, q)
          PROVE  Fine
      <3>1. PICK w \in Work : SetWork(s, w) /\ w.op = "fan"
        BY <2>3, WorkSteps
      <3>2. \A r \in Sessions, p \in Queues : Nacks(r, p)' = Nacks(r, p)
        BY <2>3, <3>1, WorkIs, NacksSame DEF Enqueue
      <3>3. \A p \in Queues : p # q => /\ waiting'[p] = waiting[p] /\ nextTag'[p] = nextTag[p]
                                       /\ pending' = pending /\ settled' = settled
        BY <2>3, EnqueueDoes
      <3> QED BY <2>3, <3>2, <3>3, EnqueuePlaces, TagsStay
    <2> QED BY <1>5, <2>1, <2>2, <2>3 DEF Publish
  <1>6. CASE Channel(s)
    <2>1. ASSUME NEW q \in Queues, Consume(s, q)
          PROVE  Fine
      BY <1>3, <2>1 DEF Consume, queueVars
    <2>2. ASSUME NEW q \in Queues, Dispatch(s, q)
          PROVE  Fine
      <3>1. /\ \A r \in Sessions, p \in Queues : Nacks(r, p)' = Nacks(r, p)
            /\ settled' = settled /\ nextTag' = nextTag
        BY <2>2 DEF Dispatch, Nacks
      <3>2. \A p \in Queues : p # q => /\ waiting'[p] = waiting[p]
                                       /\ \A r \in Sessions : pending'[r][p] = pending[r][p]
        BY <2>2, DispatchDoes, SMT
      <3> QED BY <2>2, <3>1, <3>2, DispatchPlaces, TagsStay
    <2>3. CASE CloseChannel(s)
      BY <2>3, ClosePlaces
    <2>4. CASE Requeue(s)
      <3>1. /\ work[s].queue \in Queues /\ work'[s] = Idle /\ work[s].op = "requeue"
            /\ \A p \in Queues : p # work[s].queue => waiting'[p] = waiting[p]
        BY <2>4, RequeueDoes
      <3>2. /\ pending' = pending /\ settled' = settled /\ nextTag' = nextTag
            /\ \A r \in Sessions \ {s} : work'[r] = work[r]
        BY <1>2, <2>4 DEF Requeue, channelVars, SetWork
      <3>3. \A r \in Sessions, p \in Queues : p # work[s].queue => Nacks(r, p)' = Nacks(r, p)
        BY <1>2, <3>1, <3>2 DEF Nacks
      <3> QED BY <2>4, <3>1, <3>2, <3>3, RequeuePlaces, TagsStay
    <2>5. ASSUME NEW q \in Queues, NEW m \in pending[s][q],
                 HandleAck(s, q, m) \/ NackRequeue(s, q, m) \/ NackDrop(s, q, m)
          PROVE  Fine
      <3>1. /\ Take(s, q, m) /\ waiting' = waiting /\ nextTag' = nextTag
        BY <2>5 DEF HandleAck, NackRequeue, NackDrop, queueVars
      <3>2. /\ work[s] = Idle /\ m \in Messages
            /\ \A p \in Queues : p # q => \A r \in Sessions : pending'[r][p] = pending[r][p]
        BY <3>1, TakeDoes, SMT
      <3>3. settled \in [Queues -> SUBSET Nat]
        BY DEF TypeOK
      <3>4. ASSUME settled' = [settled EXCEPT ![q] = settled[q] \cup {m.tag}],
                   work' = work \/ \E w \in Work : SetWork(s, w) /\ w.op = "lookup"
            PROVE  Fine
        <4>1. \A r \in Sessions, p \in Queues : Nacks(r, p)' = Nacks(r, p)
          BY <1>2, <3>2, <3>4, WorkIs, NacksSame
        <4>2. \A r \in Sessions \ {s} : work'[r] = work[r]
          BY <3>4, WorkIs
        <4>3. Nacks(s, q)' = {}
          BY <1>2, <3>2, <4>1 DEF Nacks
        <4>4. settled'[q] = settled[q] \cup {m.tag} /\ \A p \in Queues : p # q => settled'[p] = settled[p]
          BY <3>3, <3>4
        <4> QED BY <3>1, <3>2, <4>1, <4>2, <4>3, <4>4, TakePlaces, TagsStay
      <3>5. CASE HandleAck(s, q, m)
        BY <3>4, <3>5 DEF HandleAck
      <3>6. CASE NackDrop(s, q, m)
        <4>1. CASE dlx[q].exchange = None
          BY <3>4, <3>6, <4>1 DEF NackDrop
        <4>2. CASE dlx[q].exchange # None
          <5> DEFINE k == IF dlx[q].key = None THEN m.key ELSE dlx[q].key
          <5>1. dlx[q].exchange \in Exchanges /\ k \in Keys
            BY <3>2, <4>2 DEF TypeOK, Messages
          <5>2. /\ SetWork(s, Lookup(dlx[q].exchange, k))
                /\ settled' = [settled EXCEPT ![q] = settled[q] \cup {m.tag}]
            BY <3>6, <4>2 DEF NackDrop
          <5> HIDE DEF k
          <5>3. Lookup(dlx[q].exchange, k) \in Work /\ Lookup(dlx[q].exchange, k).op = "lookup"
            BY <5>1, WorkSteps DEF Lookup
          <5> QED BY <3>4, <5>2, <5>3
        <4> QED BY <4>1, <4>2
      <3>7. CASE NackRequeue(s, q, m)
        <4> DEFINE w == [op |-> "requeue", queue |-> q, msg |-> m]
        <4>1. w \in Work /\ w.op = "requeue" /\ w.queue = q /\ w.msg = m
          BY <3>2 DEF Work
        <4>2. SetWork(s, w) /\ settled' = settled
          BY <3>7 DEF NackRequeue
        <4> HIDE DEF w
        <4>3. work'[s] = w /\ \A r \in Sessions \ {s} : work'[r] = work[r]
          BY <4>1, <4>2, WorkIs
        <4>4. Nacks(s, q)' = {m.tag}
          BY <4>1, <4>3 DEF Nacks
        <4>5. \A r \in Sessions, p \in Queues : p # q => Nacks(r, p)' = Nacks(r, p)
          BY <1>2, <3>2, <4>1, <4>3 DEF Nacks
        <4> QED BY <3>1, <3>2, <4>2, <4>3, <4>4, <4>5, TakePlaces, TagsStay
      <3> QED BY <2>5, <3>5, <3>6, <3>7
    <2> QED BY <1>6, <2>1, <2>2, <2>3, <2>4, <2>5 DEF Channel
  <1> QED BY <1>1, <1>4, <1>5, <1>6

-----------------------------------------------------------------------------
(* Places, and the theorems.                                                *)

\* The four kinds of places.
LEMMA PlacesAre ==
  ASSUME NEW q \in Queues, NEW x
  PROVE  x \in Places(q) <=>
           \/ \E i \in DOMAIN waiting[q] : x = <<"queue", i, waiting[q][i].tag>>
           \/ \E t \in settled[q] : x = <<"settled", t, t>>
           \/ \E s \in Sessions : \E m \in pending[s][q] : x = <<"pending", s, m.tag>>
           \/ \E s \in {r \in Sessions : work[r].op = "requeue" /\ work[r].queue = q} :
                x = <<"nack", s, work[s].msg.tag>>
  <1> DEFINE A == {<<"queue", i, waiting[q][i].tag>> : i \in DOMAIN waiting[q]}
             B == {<<"settled", t, t>> : t \in settled[q]}
             P(s) == {<<"pending", s, m.tag>> : m \in pending[s][q]}
             R == {r \in Sessions : work[r].op = "requeue" /\ work[r].queue = q}
             D == {<<"nack", s, work[s].msg.tag>> : s \in R}
  <1>1. Places(q) = A \cup B \cup (UNION {P(s) : s \in Sessions}) \cup D
    BY DEF Places
  <1>2. x \in A <=> \E i \in DOMAIN waiting[q] : x = <<"queue", i, waiting[q][i].tag>>
    OBVIOUS
  <1>3. x \in B <=> \E t \in settled[q] : x = <<"settled", t, t>>
    OBVIOUS
  <1>4. \A s \in Sessions : x \in P(s) <=> \E m \in pending[s][q] : x = <<"pending", s, m.tag>>
    OBVIOUS
  <1>5. x \in D <=> \E s \in R : x = <<"nack", s, work[s].msg.tag>>
    OBVIOUS
  <1> HIDE DEF A, B, P, D
  <1> HIDE DEF R
  <1>6. x \in UNION {P(s) : s \in Sessions} <=> \E s \in Sessions : x \in P(s)
    OBVIOUS
  <1>7. x \in Places(q) <=> x \in A \/ x \in B \/ (\E s \in Sessions : x \in P(s)) \/ x \in D
    BY <1>1, <1>6
  <1>8. (\E s \in Sessions : x \in P(s)) <=>
          \E s \in Sessions : \E m \in pending[s][q] : x = <<"pending", s, m.tag>>
    BY <1>4
  <1> QED BY <1>2, <1>3, <1>5, <1>7, <1>8 DEF R

\* What an element of Places says.
LEMMA PlaceIs ==
  ASSUME TypeOK, NEW q \in Queues, NEW x \in Places(q)
  PROVE  /\ x = <<x[1], x[2], x[3]>>
         /\ \/ x[1] = "queue" /\ x[2] \in DOMAIN waiting[q] /\ x[3] = waiting[q][x[2]].tag
            \/ x[1] = "settled" /\ x[2] = x[3] /\ x[3] \in settled[q]
            \/ x[1] = "pending" /\ x[2] \in Sessions /\ x[3] \in Pends(x[2], q)
            \/ x[1] = "nack" /\ x[2] \in Sessions /\ x[3] \in Nacks(x[2], q)
  <1>1. CASE \E i \in DOMAIN waiting[q] : x = <<"queue", i, waiting[q][i].tag>>
    BY <1>1, SMT
  <1>2. CASE \E t \in settled[q] : x = <<"settled", t, t>>
    BY <1>2, SMT
  <1>3. CASE \E s \in Sessions : \E m \in pending[s][q] : x = <<"pending", s, m.tag>>
    BY <1>3, SMT DEF Pends
  <1>4. CASE \E s \in {r \in Sessions : work[r].op = "requeue" /\ work[r].queue = q} :
               x = <<"nack", s, work[s].msg.tag>>
    BY <1>4, SMT DEF Nacks
  <1>5. \/ \E i \in DOMAIN waiting[q] : x = <<"queue", i, waiting[q][i].tag>>
        \/ \E t \in settled[q] : x = <<"settled", t, t>>
        \/ \E s \in Sessions : \E m \in pending[s][q] : x = <<"pending", s, m.tag>>
        \/ \E s \in {r \in Sessions : work[r].op = "requeue" /\ work[r].queue = q} :
             x = <<"nack", s, work[s].msg.tag>>
    BY PlacesAre, SMT
  <1> QED BY <1>1, <1>2, <1>3, <1>4, <1>5

\* And back.
LEMMA PlaceOf ==
  ASSUME NEW q \in Queues
  PROVE  /\ \A t \in Waits(q) \cup settled[q] : \E x \in Places(q) : x[3] = t
         /\ \A s \in Sessions : \A t \in With(s, q) : \E x \in Places(q) : x[3] = t
  <1>1. ASSUME NEW t \in Waits(q) PROVE \E x \in Places(q) : x[3] = t
    <2>1. PICK i \in DOMAIN waiting[q] : t = waiting[q][i].tag
      BY DEF Waits, Tags
    <2>2. <<"queue", i, waiting[q][i].tag>> \in Places(q)
      BY PlacesAre
    <2> QED BY <2>1, <2>2
  <1>2. ASSUME NEW t \in settled[q] PROVE \E x \in Places(q) : x[3] = t
    <2>1. <<"settled", t, t>> \in Places(q)
      BY PlacesAre
    <2> QED BY <2>1
  <1>3. ASSUME NEW s \in Sessions, NEW t \in Pends(s, q) PROVE \E x \in Places(q) : x[3] = t
    <2>1. PICK m \in pending[s][q] : t = m.tag
      BY DEF Pends
    <2>2. <<"pending", s, m.tag>> \in Places(q)
      BY PlacesAre
    <2> QED BY <2>1, <2>2
  <1>4. ASSUME NEW s \in Sessions, NEW t \in Nacks(s, q) PROVE \E x \in Places(q) : x[3] = t
    <2>1. work[s].op = "requeue" /\ work[s].queue = q /\ t = work[s].msg.tag
      BY DEF Nacks
    <2>2. <<"nack", s, work[s].msg.tag>> \in Places(q)
      BY <2>1, PlacesAre
    <2> QED BY <2>1, <2>2
  <1> QED BY <1>1, <1>2, <1>3, <1>4 DEF With

LEMMA PlacesCounted ==
  ASSUME TypeOK, NEW q \in Queues, OnePlace(q), Drawn(q)
  PROVE  /\ {x[3] : x \in Places(q)} = 1 .. nextTag[q] - 1
         /\ Cardinality(Places(q)) = nextTag[q] - 1
  <1> DEFINE n == nextTag[q] - 1
             Tag == [x \in Places(q) |-> x[3]]
  <1>1. n \in Nat
    BY SMT DEF TypeOK
  <1>2. ASSUME NEW x \in Places(q) PROVE x[3] \in 1 .. n
    <2>1. \/ x[3] \in Waits(q) \/ x[3] \in settled[q]
          \/ x[2] \in Sessions /\ x[3] \in With(x[2], q)
      BY PlaceIs DEF Waits, Tags, With
    <2> QED BY <2>1 DEF Drawn
  <1>3. ASSUME NEW t \in 1 .. n PROVE \E x \in Places(q) : x[3] = t
    <2>1. t \in Waits(q) \cup settled[q] \/ \E s \in Sessions : t \in With(s, q)
      BY SMT DEF Drawn
    <2> QED BY <2>1, PlaceOf
  <1>4. ASSUME NEW x \in Places(q), NEW y \in Places(q), x[3] = y[3] PROVE x = y
    <2>1. x = <<x[1], x[2], x[3]>> /\ y = <<y[1], y[2], y[3]>>
      BY PlaceIs
    <2>2. CASE x[1] = "queue"
      <3>1. x[2] \in DOMAIN waiting[q] /\ x[3] = waiting[q][x[2]].tag
        BY <2>2, PlaceIs
      <3>2. x[3] \in Waits(q)
        BY <3>1 DEF Waits, Tags
      <3>3. y[1] = "queue" /\ y[2] \in DOMAIN waiting[q] /\ y[3] = waiting[q][y[2]].tag
        BY <1>4, <3>2, PlaceIs DEF OnePlace, With
      <3>4. x[2] = y[2]
        BY <1>4, <3>1, <3>3 DEF OnePlace, Once
      <3> QED BY <1>4, <2>1, <2>2, <3>3, <3>4
    <2>3. CASE x[1] = "settled"
      <3>1. x[2] = x[3] /\ x[3] \in settled[q]
        BY <2>3, PlaceIs
      <3>2. x[3] \notin Waits(q) /\ \A s \in Sessions : x[3] \notin With(s, q)
        BY <3>1 DEF OnePlace
      <3>3. y[1] = "settled" /\ y[2] = y[3]
        BY <1>4, <3>2, PlaceIs DEF With, Waits, Tags
      <3> QED BY <1>4, <2>1, <2>3, <3>1, <3>3
    <2>4. CASE x[1] \in {"pending", "nack"}
      <3>1. x[2] \in Sessions /\ x[3] \in With(x[2], q)
        BY <2>4, PlaceIs DEF With
      <3>2. x[3] \notin Waits(q) /\ x[3] \notin settled[q]
        BY <3>1 DEF OnePlace
      <3>3. y[1] \in {"pending", "nack"} /\ y[2] \in Sessions /\ y[3] \in With(y[2], q)
        BY <1>4, <3>2, PlaceIs DEF With, Waits, Tags
      <3>4. x[2] = y[2]
        BY <1>4, <3>1, <3>3 DEF OnePlace
      <3>5. Pends(x[2], q) \cap Nacks(x[2], q) = {}
        BY <3>1 DEF OnePlace
      <3>6. x[1] = y[1]
        BY <1>4, <2>4, <3>3, <3>4, <3>5, PlaceIs
      <3> QED BY <1>4, <2>1, <3>4, <3>6
    <2> QED BY <2>2, <2>3, <2>4, PlaceIs
  <1>5. Tag \in [Places(q) -> 1 .. n]
    BY <1>2
  <1>6. \A x, y \in Places(q) : Tag[x] = Tag[y] => x = y
    BY <1>4
  <1>7. \A t \in 1 .. n : \E x \in Places(q) : Tag[x] = t
    BY <1>3
  <1> HIDE DEF n, Tag
  <1>8. IsFiniteSet(1 .. n) /\ Cardinality(1 .. n) = n
    <2>1. IsFiniteSet(1 .. n) /\ Cardinality(1 .. n) = IF 1 > n THEN 0 ELSE n - 1 + 1
      BY <1>1, FS_Interval, SMT
    <2>2. (IF 1 > n THEN 0 ELSE n - 1 + 1) = n
      BY <1>1, SMT
    <2> QED BY <2>1, <2>2, SMT
  <1>9. Cardinality(Places(q)) = n
    <2>1. Tag \in Injection(Places(q), 1 .. n)
      BY <1>5, <1>6, Fun_IsInj, Zenon
    <2>2. Tag \in Surjection(Places(q), 1 .. n)
      BY <1>5, <1>7, Fun_IsSurj, Zenon
    <2> QED BY <1>8, <2>1, <2>2, FS_Injection
  <1> QED BY <1>2, <1>3, <1>9 DEF n

LEMMA InitInv ==
  ASSUME Init
  PROVE  RoutingInv
  <1>1. TypeOK
    <2>1. Idle \in Work
      BY DEF Work
    <2> QED BY <2>1, RoutingAssumption, SMT DEF Init, TypeOK
  <1>2. PendingFinite
    BY FS_EmptySet DEF Init, PendingFinite
  <1>3. \A s \in Sessions : work[s] = Idle /\ work[s].op = "idle"
    BY DEF Init, Idle
  <1>4. ASSUME NEW q \in Queues PROVE OnePlace(q) /\ Drawn(q)
    <2>1. Waits(q) = {} /\ Once(waiting[q]) /\ settled[q] = {}
      BY SMT DEF Init, Waits, Tags, Once
    <2>2. \A s \in Sessions : pending[s][q] = {} /\ Pends(s, q) = {} /\ Nacks(s, q) = {}
      BY <1>3 DEF Init, Pends, Nacks
    <2>3. \A s \in Sessions : With(s, q) = {}
      BY <2>2 DEF With
    <2>4. 1 .. nextTag[q] - 1 = {}
      BY SMT DEF Init
    <2>5. OnePlace(q)
      BY <2>1, <2>2, <2>3 DEF OnePlace
    <2>6. Drawn(q)
      BY <2>1, <2>3, <2>4 DEF Drawn
    <2> QED BY <2>5, <2>6
  <1>5. \A s \in Sessions : Planned(s)
    BY <1>3 DEF Planned
  <1> QED BY <1>1, <1>2, <1>4, <1>5 DEF RoutingInv

LEMMA InvStutters ==
  ASSUME RoutingInv, UNCHANGED vars
  PROVE  RoutingInv'
  <1> USE DEF vars, topology, queueVars, channelVars, counters
  <1>1. TypeOK' /\ PendingFinite'
    BY DEF RoutingInv, TypeOK, PendingFinite
  <1>2. \A s \in Sessions : Planned(s)'
    BY DEF RoutingInv, Planned, Bound
  <1>3. \A s \in Sessions, q \in Queues :
          Waits(q)' = Waits(q) /\ Pends(s, q)' = Pends(s, q) /\ Nacks(s, q)' = Nacks(s, q)
    BY DEF Waits, Tags, Pends, Nacks
  <1>4. \A q \in Queues : OnePlace(q)' /\ Drawn(q)'
    BY <1>3, SMT DEF RoutingInv, OnePlace, Drawn, With, Waits
  <1> QED BY <1>1, <1>2, <1>4 DEF RoutingInv

\* The inductive invariant.  That a tag is in one place is not enough by itself:
\* a queue draws a new tag when Enqueue is called, so the tags in use must also be
\* the ones below nextTag, and a session in the middle of a publish or of a nack
\* holds queues and messages that nothing else may touch (queue.go, Enqueue,
\* Consume, removeConsumer; session.go, handleNack).
THEOREM RoutingInvariant == Spec => []RoutingInv
  <1>1. Init => RoutingInv
    BY InitInv
  <1>2. ASSUME RoutingInv, [Next]_vars PROVE RoutingInv'
    <2>1. CASE Next
      <3>1. TypeOK' /\ PendingFinite'
        BY <1>2, <2>1, TypeStep DEF RoutingInv
      <3>2. \A s \in Sessions : Planned(s)'
        BY <1>2, <2>1, PlannedStep DEF RoutingInv
      <3>3. \A q \in Queues : OnePlace(q)' /\ Drawn(q)'
        BY <1>2, <2>1, PlacesStep DEF RoutingInv
      <3> QED BY <3>1, <3>2, <3>3 DEF RoutingInv
    <2>2. CASE UNCHANGED vars
      BY <1>2, <2>2, InvStutters
    <2> QED BY <1>2, <2>1, <2>2
  <1> QED BY <1>1, <1>2, PTL DEF Spec

\* Types, and the bounds of the counters, for all constants.
THEOREM RoutingTypeCorrect == Spec => []TypeOK
  <1>1. RoutingInv => TypeOK
    BY DEF RoutingInv
  <1> QED BY <1>1, RoutingInvariant, PTL

\* Every message a queue was given is in exactly one place: in the queue, pending
\* with one consumer, in the hands of one nack, or settled.  Acks, nacks with and
\* without requeue, dead letters and closing consumers lose and duplicate none,
\* although tags are only unique within a queue.
THEOREM AccountedCorrect == Spec => []Accounted
  <1>1. RoutingInv => Accounted
    BY PlacesCounted DEF RoutingInv, Accounted
  <1> QED BY <1>1, RoutingInvariant, PTL

\* A publish, of a client or of a dead letter, gives every queue that was bound
\* when it began one copy and gives none to any other queue, whatever is declared
\* and bound meanwhile: publishAndRoute looks up the exchange, then the queues,
\* and enqueues without any lock held throughout.
THEOREM FanOutCompleteCorrect == Spec => []FanOutComplete
  <1>1. RoutingInv => FanOutComplete
    BY DEF RoutingInv, FanOutComplete, Planned
  <1> QED BY <1>1, RoutingInvariant, PTL
=============================================================================
