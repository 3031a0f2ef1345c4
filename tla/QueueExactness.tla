--------------------------- MODULE QueueExactness ---------------------------
(***************************************************************************)
(* What a queue guarantees on top while its connections hold and no tag in *)
(* play is drawn again: one copy of each message, exact counts, and so the *)
(* promise of Delivery.                                                    *)
(***************************************************************************)
EXTENDS QueueGuarantees, QueueRefinement, FunctionTheorems

\* A leaf is Zenon's unless it names another prover.
USE Zenon

\* The message a nack of c's session is about to requeue, if there is one.
Nacked(c) == {m \in Msgs : handler[c].op = "requeue" /\ handler[c].msg = m}

\* What the session of c has.
Has(c) == Held(c) \cup Nacked(c)

\* Every message is in one place: once in the queue, with one session, or
\* settled; and an ack that has been looked up still finds its message.
OnePlace ==
  /\ IsInjective(messages)
  /\ \A c \in Consumers : Has(c) \cap Range(messages) = {}
  /\ \A c, d \in Consumers : c # d => Has(c) \cap Has(d) = {}
  /\ \A c \in Consumers : Held(c) \cap Nacked(c) = {}
  /\ \A m \in settled : m \notin Range(messages) /\ \A c \in Consumers : m \notin Has(c)
  /\ \A c \in Consumers : handler[c].op = "ack" => handler[c].msg \in Held(c)
  /\ \A m \in settled : stage[m] = "sent"

\* InflightExact, for consumers that are not registered too.
Counted == \A c \in Consumers : inflight[c] = Cardinality(inflightTags[c])

-----------------------------------------------------------------------------
(* Queues without repetitions.                                             *)

\* A message that is not in the queue may be appended.
LEMMA InjectiveAppend ==
  ASSUME NEW s \in Seq(Msgs), IsInjective(s), NEW m \in Msgs, m \notin Range(s)
  PROVE  IsInjective(Append(s, m))
  <1> DEFINE r == Append(s, m)
  <1>1. /\ Len(s) \in Nat /\ DOMAIN s = 1 .. Len(s) /\ DOMAIN r = 1 .. Len(s) + 1
        /\ \A i \in 1 .. Len(s) : r[i] = s[i]
        /\ r[Len(s) + 1] = m
    BY SMT
  <1>2. \A i \in 1 .. Len(s) : s[i] # m
    BY <1>1 DEF Range
  <1>3. \A i \in 1 .. Len(s) + 1 : i \in 1 .. Len(s) \/ i = Len(s) + 1
    BY <1>1, SMT
  <1> HIDE DEF r
  <1>4. \A i, j \in DOMAIN r : r[i] = r[j] => i = j
    BY <1>1, <1>2, <1>3 DEF IsInjective
  <1> QED BY <1>4 DEF IsInjective, r

\* Two queues without a message in common may be joined.
LEMMA InjectiveConcat ==
  ASSUME NEW s \in Seq(Msgs), NEW t \in Seq(Msgs), IsInjective(s), IsInjective(t),
         Range(s) \cap Range(t) = {}
  PROVE  IsInjective(s \o t)
  <1> DEFINE r == s \o t
  <1>1. /\ Len(s) \in Nat /\ Len(t) \in Nat
        /\ DOMAIN s = 1 .. Len(s) /\ DOMAIN t = 1 .. Len(t) /\ DOMAIN r = 1 .. Len(s) + Len(t)
        /\ \A i \in 1 .. Len(s) + Len(t) : r[i] = IF i <= Len(s) THEN s[i] ELSE t[i - Len(s)]
    BY SMT
  <1>2. \A i \in 1 .. Len(s), j \in 1 .. Len(t) : s[i] # t[j]
    BY <1>1 DEF Range
  <1>3. \A i \in 1 .. Len(s) + Len(t) : i > Len(s) => i - Len(s) \in 1 .. Len(t)
    BY <1>1, SMT
  <1>4. \A i \in 1 .. Len(s) + Len(t) : i <= Len(s) => i \in 1 .. Len(s)
    BY <1>1, SMT
  <1> HIDE DEF r
  <1>5. ASSUME NEW i \in DOMAIN r, NEW j \in DOMAIN r, r[i] = r[j] PROVE i = j
    <2>1. CASE i <= Len(s) /\ j <= Len(s)
      BY <1>1, <1>4, <1>5, <2>1 DEF IsInjective
    <2>2. CASE i > Len(s) /\ j > Len(s)
      <3>1. r[i] = t[i - Len(s)] /\ r[j] = t[j - Len(s)]
        BY <1>1, <2>2, SMT
      <3>2. i - Len(s) = j - Len(s)
        BY <1>1, <1>3, <1>5, <2>2, <3>1 DEF IsInjective
      <3> QED BY <1>1, <3>2, SMT
    <2>3. CASE i <= Len(s) /\ j > Len(s)
      BY <1>1, <1>2, <1>3, <1>4, <1>5, <2>3, SMT
    <2>4. CASE i > Len(s) /\ j <= Len(s)
      BY <1>1, <1>2, <1>3, <1>4, <1>5, <2>4, SMT
    <2> QED BY <1>1, <2>1, <2>2, <2>3, <2>4, SMT
  <1> QED BY <1>5 DEF IsInjective, r

\* The message taken from the head is no longer in the queue.
LEMMA InjectiveTail ==
  ASSUME NEW s \in Seq(Msgs), IsInjective(s), s # <<>>
  PROVE  IsInjective(Tail(s)) /\ Range(Tail(s)) = Range(s) \ {Head(s)}
  <1> DEFINE r == Tail(s)
  <1>1. /\ Len(s) \in Nat /\ Len(s) > 0 /\ DOMAIN s = 1 .. Len(s)
        /\ DOMAIN r = 1 .. Len(s) - 1
        /\ \A i \in 1 .. Len(s) - 1 : r[i] = s[i + 1]
        /\ Head(s) = s[1]
    BY SMT
  <1>2. \A i \in 1 .. Len(s) - 1 : i + 1 \in 1 .. Len(s) /\ i + 1 # 1
    BY <1>1, SMT
  <1>3. 1 \in 1 .. Len(s)
    BY <1>1, SMT
  <1> HIDE DEF r
  <1>4. ASSUME NEW i \in DOMAIN r, NEW j \in DOMAIN r, r[i] = r[j] PROVE i = j
    <2>1. i + 1 = j + 1
      BY <1>1, <1>2, <1>4, SMT DEF IsInjective
    <2> QED BY <1>1, <2>1, SMT
  <1>5. \A i \in DOMAIN r : r[i] # Head(s)
    BY <1>1, <1>2, <1>3 DEF IsInjective
  <1>6. Head(s) \notin Range(r)
    BY <1>5 DEF Range
  <1>7. Range(s) = {Head(s)} \cup Range(r)
    BY TailRange DEF r
  <1> QED BY <1>4, <1>6, <1>7 DEF IsInjective, r

-----------------------------------------------------------------------------
(* The books of one consumer.                                              *)

\* A consumer has as many tags as messages.
LEMMA HeldTags ==
  ASSUME TypeOK, Lifecycle, PendingIsRegistered, NEW c \in Consumers
  PROVE  /\ inflightTags[c] = {tagOf[m] : m \in Held(c)}
         /\ Cardinality(Held(c)) = Cardinality(inflightTags[c])
  <1>1. \A m \in Held(c) : m \in Msgs /\ pendingMessages[c][tagOf[m]] = m /\ tagOf[m] \in Tags
    BY HeldAtTag, HeldType DEF TypeOK
  <1>2. \A m \in Held(c) : tagOf[m] \in inflightTags[c]
    BY <1>1, NoneAssumption, SMT DEF PendingIsRegistered
  <1>3. ASSUME NEW t \in inflightTags[c] PROVE \E m \in Held(c) : tagOf[m] = t
    <2>1. t \in Tags /\ pendingMessages[c][t] # None
      BY SMT DEF PendingIsRegistered
    <2>2. pendingMessages[c][t] \in Msgs /\ tagOf[pendingMessages[c][t]] = t
      BY <2>1, SMT DEF TypeOK, Lifecycle
    <2>3. pendingMessages[c][t] \in Held(c)
      BY <2>1, <2>2 DEF Held
    <2> QED BY <2>2, <2>3
  <1> DEFINE f == [m \in Held(c) |-> tagOf[m]]
  <1>4. f \in [Held(c) -> inflightTags[c]]
    BY <1>2
  <1>5. f \in Injection(Held(c), inflightTags[c])
    <2>1. \A m, n \in Held(c) : f[m] = f[n] => m = n
      BY <1>1
    <2> QED BY <1>4, <2>1, Fun_IsInj
  <1>6. f \in Surjection(Held(c), inflightTags[c])
    <2>1. \A t \in inflightTags[c] : \E m \in Held(c) : f[m] = t
      BY <1>3
    <2> QED BY <1>4, <2>1, Fun_IsSurj
  <1>7. f \in Bijection(Held(c), inflightTags[c])
    BY <1>5, <1>6 DEF Bijection
  <1>8. IsFiniteSet(Held(c))
    BY HeldType
  <1>9. Cardinality(Held(c)) = Cardinality(inflightTags[c])
    <2>1. ExistsBijection(Held(c), inflightTags[c])
      BY <1>7 DEF ExistsBijection
    <2> QED BY <1>8, <2>1, FS_Bijection
  <1> QED BY <1>2, <1>3, <1>9

\* A tag in use belongs to one message.
LEMMA TagOfOne ==
  ASSUME TypeOK, Lifecycle, PendingIsRegistered, LiveTagsDistinct,
         NEW m \in Msgs, InPlay(m), NEW d \in Consumers, tagOf[m] \in inflightTags[d]
  PROVE  m \in Held(d) /\ pendingMessages[d][tagOf[m]] = m
  <1>1. PICK n \in Held(d) : tagOf[n] = tagOf[m]
    BY HeldTags, SMT
  <1>2. n \in Msgs /\ d \in consumers
    BY HeldType DEF PendingIsRegistered
  <1>3. InPlay(n)
    BY <1>1, <1>2 DEF InPlay, Stored
  <1>4. n = m
    BY <1>1, <1>2, <1>3 DEF LiveTagsDistinct
  <1> QED BY <1>1, <1>4, HeldAtTag

\* A release takes one message from one consumer, and its slot with it.
LEMMA ReleaseOne ==
  ASSUME TypeOK, TypeOK', Lifecycle, PendingIsRegistered,
         NEW c \in Consumers, NEW m \in Held(c), Release(c, tagOf[m])
  PROVE  /\ \A d \in Consumers : Held(d)' = IF d = c THEN Held(d) \ {m} ELSE Held(d)
         /\ Counted => Counted'
  <1>1. m \in Msgs /\ pendingMessages[c][tagOf[m]] = m /\ tagOf[m] \in Tags
    BY HeldType, HeldAtTag DEF TypeOK
  <1>2. \A d \in Consumers, u \in Tags :
          pendingMessages'[d][u] = IF d = c /\ u = tagOf[m] THEN None ELSE pendingMessages[d][u]
    BY <1>1, ReleaseEffect, SMT
  <1>3. ASSUME NEW d \in Consumers, d # c PROVE Held(d)' = Held(d)
    BY <1>2, <1>3, SMT DEF Held
  <1>4. Held(c)' = Held(c) \ {m}
    <2>1. ASSUME NEW n \in Msgs, n \in Held(c)' PROVE n \in Held(c) /\ n # m
      <3>1. PICK u \in Tags : pendingMessages'[c][u] = n
        BY <2>1 DEF Held
      <3>2. u # tagOf[m] /\ pendingMessages[c][u] = n
        BY <3>1, <1>2, NoneAssumption
      <3>3. tagOf[n] = u
        BY <3>2, NoneAssumption DEF Lifecycle
      <3> QED BY <3>2, <3>3 DEF Held
    <2>2. ASSUME NEW n \in Msgs, n \in Held(c), n # m PROVE n \in Held(c)'
      <3>1. pendingMessages[c][tagOf[n]] = n /\ tagOf[n] \in Tags
        BY <2>2, HeldAtTag DEF TypeOK
      <3>2. tagOf[n] # tagOf[m]
        BY <3>1, <2>2, <1>1
      <3>3. pendingMessages'[c][tagOf[n]] = n
        BY <3>1, <3>2, <1>2
      <3> QED BY <3>1, <3>3 DEF Held
    <2>3. Held(c)' \subseteq Msgs /\ Held(c) \subseteq Msgs
      BY DEF Held
    <2> QED BY <2>1, <2>2, <2>3
  <1>5. ASSUME Counted, NEW d \in Consumers PROVE inflight'[d] = Cardinality(inflightTags'[d])
    <2>1. /\ inflightTags'[d] = IF d = c THEN inflightTags[d] \ {tagOf[m]} ELSE inflightTags[d]
          /\ inflight'[d] = IF d = c THEN inflight[d] - 1 ELSE inflight[d]
      BY DEF Release, TypeOK
    <2>2. tagOf[m] \in inflightTags[c] /\ IsFiniteSet(inflightTags[c])
      BY HeldTags, TagsFinite, SMT DEF TypeOK
    <2>3. Cardinality(inflightTags[c] \ {tagOf[m]}) = Cardinality(inflightTags[c]) - 1
      BY <2>2, FS_RemoveElement
    <2> QED BY <1>5, <2>1, <2>3 DEF Counted
  <1> QED BY <1>3, <1>4, <1>5 DEF Counted

\* A dispatch gives the consumer one message and takes one slot.
LEMMA TakeOne ==
  ASSUME TypeOK, TypeOK', Lifecycle, PendingIsRegistered, LiveTagsDistinct, OnePlace,
         NEW c \in Consumers, DispatchTake(c)
  PROVE  /\ \A d \in Consumers :
              Held(d)' = IF d = c THEN Held(d) \cup {Head(messages)} ELSE Held(d)
         /\ Counted => Counted'
  <1> DEFINE m == Head(messages)
  <1>1. m \in Msgs /\ m \in Range(messages) /\ tagOf[m] \in Tags
    BY TailRange DEF DispatchTake, TypeOK
  <1>2. tagOf[m] \notin inflightTags[c]
    <2>1. InPlay(m)
      BY <1>1 DEF InPlay, Stored
    <2>2. m \notin Held(c)
      BY <1>1 DEF OnePlace, Has
    <2> HIDE DEF m
    <2> QED BY <1>1, <2>1, <2>2, TagOfOne
  <1>3. pendingMessages[c][tagOf[m]] = None
    BY <1>1, <1>2, SMT DEF PendingIsRegistered
  <1>4. /\ pendingMessages' = [pendingMessages EXCEPT ![c][tagOf[m]] = m]
        /\ inflightTags' = [inflightTags EXCEPT ![c] = @ \cup {tagOf[m]}]
        /\ inflight' = [inflight EXCEPT ![c] = @ + 1]
    BY DEF DispatchTake
  <1> HIDE DEF m
  <1>5. \A d \in Consumers, u \in Tags :
          pendingMessages'[d][u] = IF d = c /\ u = tagOf[m] THEN m ELSE pendingMessages[d][u]
    BY <1>1, <1>4, SMT DEF TypeOK
  <1>6. ASSUME NEW d \in Consumers, d # c PROVE Held(d)' = Held(d)
    BY <1>5, <1>6, SMT DEF Held
  <1>7. Held(c)' = Held(c) \cup {m}
    <2>1. ASSUME NEW n \in Msgs PROVE n \in Held(c)' <=> n \in Held(c) \/ n = m
      <3>1. ASSUME n \in Held(c)' PROVE n \in Held(c) \/ n = m
        BY <1>5, <3>1 DEF Held
      <3>2. ASSUME n \in Held(c) PROVE n \in Held(c)'
        <4>1. PICK u \in Tags : pendingMessages[c][u] = n
          BY <3>2 DEF Held
        <4>2. u # tagOf[m]
          BY <4>1, <1>3, NoneAssumption
        <4>3. pendingMessages'[c][u] = n
          BY <4>1, <4>2, <1>5
        <4> QED BY <4>3 DEF Held
      <3>3. ASSUME n = m PROVE n \in Held(c)'
        BY <1>1, <1>5, <3>3 DEF Held
      <3> QED BY <3>1, <3>2, <3>3
    <2>2. Held(c)' \subseteq Msgs /\ Held(c) \subseteq Msgs
      BY DEF Held
    <2> QED BY <1>1, <2>1, <2>2
  <1>8. ASSUME Counted, NEW d \in Consumers PROVE inflight'[d] = Cardinality(inflightTags'[d])
    <2>1. /\ inflightTags'[d] = IF d = c THEN inflightTags[d] \cup {tagOf[m]} ELSE inflightTags[d]
          /\ inflight'[d] = IF d = c THEN inflight[d] + 1 ELSE inflight[d]
      BY <1>4 DEF TypeOK
    <2>2. IsFiniteSet(inflightTags[c])
      BY TagsFinite DEF TypeOK
    <2>3. Cardinality(inflightTags[c] \cup {tagOf[m]}) = Cardinality(inflightTags[c]) + 1
      BY <1>2, <2>2, FS_AddElement
    <2> QED BY <1>8, <2>1, <2>3 DEF Counted
  <1> QED BY <1>6, <1>7, <1>8 DEF Counted, m

\* A consumer that is unregistered is left with nothing.
LEMMA LeaveAll ==
  ASSUME TypeOK, Lifecycle, PendingIsRegistered, NEW c \in Consumers, UnregisterConsumer(c)
  PROVE  /\ \A d \in Consumers : Held(d)' = IF d = c THEN {} ELSE Held(d)
         /\ Counted => Counted'
  <1>1. /\ pendingMessages' = [pendingMessages EXCEPT ![c] = [t \in Tags |-> None]]
        /\ inflightTags' = [inflightTags EXCEPT ![c] = @ \ {tagOf[m] : m \in Held(c)}]
        /\ inflight' = [inflight EXCEPT ![c] = @ - Cardinality(Held(c))]
    BY DEF UnregisterConsumer
  <1>2. \A d \in Consumers, u \in Tags :
          pendingMessages'[d][u] = IF d = c THEN None ELSE pendingMessages[d][u]
    BY <1>1 DEF TypeOK
  <1>3. \A d \in Consumers : Held(d)' = IF d = c THEN {} ELSE Held(d)
    <2>1. Held(c)' = {}
      BY <1>2, NoneAssumption DEF Held
    <2>2. ASSUME NEW d \in Consumers, d # c PROVE Held(d)' = Held(d)
      BY <1>2, <2>2 DEF Held
    <2> QED BY <2>1, <2>2
  <1>4. /\ inflightTags'[c] = {}
        /\ \A d \in Consumers : d # c => inflightTags'[d] = inflightTags[d]
    BY <1>1, HeldTags DEF TypeOK
  <1>5. ASSUME Counted, NEW d \in Consumers PROVE inflight'[d] = Cardinality(inflightTags'[d])
    <2>1. CASE d = c
      <3>1. inflight[c] = Cardinality(Held(c)) /\ Cardinality(Held(c)) \in Nat
        BY <1>5, HeldTags, HeldType DEF Counted
      <3>2. inflight'[c] = inflight[c] - Cardinality(Held(c))
        BY <1>1 DEF TypeOK
      <3>3. inflight'[c] = 0
        BY <3>1, <3>2, SMT
      <3> QED BY <2>1, <3>3, <1>4, FS_EmptySet
    <2>2. CASE d # c
      BY <1>1, <1>4, <1>5, <2>2 DEF Counted, TypeOK
    <2> QED BY <2>1, <2>2
  <1> QED BY <1>3, <1>5 DEF Counted

-----------------------------------------------------------------------------
(* Where the messages are. *)

\* The messages move only if the queue, the books or the nacks change.
LEMMA PlacesKept ==
  ASSUME TypeOK, OnePlace, messages' = messages, settled' = settled,
         \A m \in Msgs : stage[m] = "sent" => stage'[m] = "sent",
         \A d \in Consumers : Held(d)' = Held(d) /\ Nacked(d)' = Nacked(d),
         \A d \in Consumers : handler'[d].op = "ack" => handler'[d].msg \in Held(d)
  PROVE  OnePlace'
  <1>1. \A d \in Consumers : Has(d)' = Has(d)
    BY DEF Has
  <1>2. settled \subseteq Msgs
    BY DEF TypeOK
  <1> QED BY <1>1, <1>2 DEF OnePlace

\* What the handler of c is set to decides what it is requeueing.
LEMMA HandlerSet ==
  ASSUME TypeOK, NEW c \in Consumers, NEW h, handler' = [handler EXCEPT ![c] = h]
  PROVE  /\ handler'[c] = h
         /\ \A d \in Consumers : d # c => handler'[d] = handler[d] /\ Nacked(d)' = Nacked(d)
         /\ h.op # "requeue" => Nacked(c)' = {}
         /\ h.op = "requeue" /\ h.msg \in Msgs => Nacked(c)' = {h.msg}
  <1>1. handler'[c] = h /\ \A d \in Consumers : d # c => handler'[d] = handler[d]
    BY DEF TypeOK
  <1> QED BY <1>1 DEF Nacked

\* A handler that is not requeueing has nothing to requeue.
LEMMA NackedOf ==
  ASSUME TypeOK, NEW c \in Consumers
  PROVE  /\ handler[c].op # "requeue" => Nacked(c) = {}
         /\ handler[c].op = "requeue" => handler[c].msg \in Msgs /\ Nacked(c) = {handler[c].msg}
  <1>1. handler[c].op = "requeue" => handler[c].msg \in Msgs
    BY DEF TypeOK, Handlers
  <1> QED BY <1>1 DEF Nacked

\* The steps that leave every message where it is.
LEMMA PlacesKeptStep ==
  ASSUME TypeOK, Lifecycle, PendingIsRegistered, LiveTagsDistinct, OnePlace, Counted,
         \/ UNCHANGED vars
         \/ \E m \in Msgs : PublishTag(m)
         \/ DispatchWait \/ DispatchFull \/ DispatchPark \/ DeliverOk
         \/ \E c \in Consumers : RegisterConsumer(c)
         \/ \E c \in Consumers : NackSignal(c)
         \/ \E c \in Consumers, m \in Msgs : AckLookup(c, m)
  PROVE  OnePlace' /\ Counted'
  <1>1. UNCHANGED <<messages, settled, inflight, inflightTags, pendingMessages>>
    BY DEF vars, publishVars, consumerVars, dispatchVars, sessionVars, clientVars, PublishTag,
           DispatchWait, DispatchFull, DispatchPark, DeliverOk, RegisterConsumer, NackSignal, AckLookup
  <1>2. \A d \in Consumers : Held(d)' = Held(d)
    BY <1>1 DEF Held
  <1>3. Counted'
    BY <1>1 DEF Counted
  <1>4. \A m \in Msgs : stage[m] = "sent" => stage'[m] = "sent"
    <2>1. ASSUME NEW m \in Msgs, PublishTag(m)
          PROVE  \A n \in Msgs : stage[n] = "sent" => stage'[n] = "sent"
      BY <2>1 DEF PublishTag, TypeOK
    <2>2. stage' = stage \/ \E m \in Msgs : PublishTag(m)
      BY DEF vars, publishVars, DispatchWait, DispatchFull, DispatchPark, DeliverOk,
             RegisterConsumer, NackSignal, AckLookup
    <2> QED BY <2>1, <2>2
  <1>5. ASSUME handler' = handler PROVE OnePlace'
    <2>1. \A d \in Consumers : Nacked(d)' = Nacked(d)
      BY <1>5 DEF Nacked
    <2>2. \A d \in Consumers : handler'[d].op = "ack" => handler'[d].msg \in Held(d)
      BY <1>5 DEF OnePlace
    <2> QED BY <1>1, <1>2, <1>4, <2>1, <2>2, PlacesKept
  <1>6. ASSUME NEW c \in Consumers, NEW h, handler' = [handler EXCEPT ![c] = h],
               handler[c].op # "requeue", h.op # "requeue", h.op = "ack" => h.msg \in Held(c)
        PROVE  OnePlace'
    <2>1. ASSUME NEW d \in Consumers PROVE Nacked(d)' = Nacked(d)
      <3>1. CASE d = c
        <4>1. Nacked(c)' = {}
          BY <1>6, HandlerSet
        <4>2. Nacked(c) = {}
          BY <1>6, NackedOf
        <4> QED BY <3>1, <4>1, <4>2
      <3>2. CASE d # c
        BY <1>6, <3>2, HandlerSet
      <3> QED BY <3>1, <3>2
    <2>2. \A d \in Consumers : handler'[d].op = "ack" => handler'[d].msg \in Held(d)
      BY <1>6, HandlerSet, SMT DEF OnePlace
    <2> QED BY <1>1, <1>2, <1>4, <2>1, <2>2, PlacesKept
  <1>7. ASSUME NEW c \in Consumers, NackSignal(c) PROVE OnePlace'
    <2>1. handler' = [handler EXCEPT ![c] = Idle] /\ handler[c].op = "signal"
      BY <1>7 DEF NackSignal
    <2>2. Idle.op # "requeue" /\ Idle.op # "ack"
      BY DEF Idle
    <2> QED BY <1>6, <2>1, <2>2
  <1>8. ASSUME NEW c \in Consumers, NEW m \in Msgs, AckLookup(c, m) PROVE OnePlace'
    <2>1. /\ handler' = [handler EXCEPT ![c] = [op |-> "ack", msg |-> m]]
          /\ handler[c] = Idle /\ tagOf[m] \in inflightTags[c] /\ m \in received[c]
      BY <1>8 DEF AckLookup, Answers
    <2>2. m \in Held(c)
      <3>1. InPlay(m)
        BY <2>1 DEF InPlay
      <3> QED BY <2>1, <3>1, TagOfOne
    <2> DEFINE h == [op |-> "ack", msg |-> m]
    <2>3. handler[c].op # "requeue" /\ h.op # "requeue" /\ h.msg \in Held(c)
      BY <2>1, <2>2, SMT DEF Idle
    <2>4. handler' = [handler EXCEPT ![c] = h]
      BY <2>1
    <2> HIDE DEF h
    <2> QED BY <1>6, <2>3, <2>4
  <1>9. \/ handler' = handler
        \/ \E c \in Consumers : NackSignal(c)
        \/ \E c \in Consumers, m \in Msgs : AckLookup(c, m)
    BY DEF vars, PublishTag, DispatchWait, DispatchFull, DispatchPark, DeliverOk, RegisterConsumer
  <1> QED BY <1>3, <1>5, <1>7, <1>8, <1>9

\* enqueue: the message was nowhere before.
LEMMA EnqueueMoves ==
  ASSUME TypeOK, Lifecycle, OnePlace, Counted, NEW m \in Msgs, Enqueue(m)
  PROVE  OnePlace' /\ Counted'
  <1>1. /\ messages' = Append(messages, m) /\ stage[m] = "tagged"
        /\ stage' = [stage EXCEPT ![m] = "queued"]
        /\ UNCHANGED <<inflight, inflightTags, pendingMessages, handler, settled>>
    BY DEF Enqueue, consumerVars, clientVars
  <1>2. messages \in Seq(Msgs) /\ settled \subseteq Msgs
    BY DEF TypeOK
  <1>3. m \notin Range(messages) /\ m \notin settled
    BY <1>1 DEF Lifecycle, OnePlace
  <1>4. \A d \in Consumers : m \notin Has(d)
    <2>1. ASSUME NEW d \in Consumers, m \in Held(d) PROVE FALSE
      BY <1>1, <2>1, NoneAssumption, SMT DEF Held, Lifecycle
    <2>2. ASSUME NEW d \in Consumers, m \in Nacked(d) PROVE FALSE
      BY <1>1, <2>2 DEF Nacked, Lifecycle
    <2> QED BY <2>1, <2>2 DEF Has
  <1>5. Range(messages') = Range(messages) \cup {m} /\ IsInjective(messages')
    BY <1>1, <1>2, <1>3, AppendRange, InjectiveAppend DEF OnePlace
  <1>6. \A d \in Consumers : Held(d)' = Held(d) /\ Nacked(d)' = Nacked(d)
    BY <1>1 DEF Held, Nacked
  <1>7. \A d \in Consumers : Has(d)' = Has(d)
    BY <1>6 DEF Has
  <1>8. \A n \in Msgs : n # m => stage'[n] = stage[n]
    BY <1>1 DEF TypeOK
  <1>9. OnePlace'
    BY <1>1, <1>2, <1>3, <1>4, <1>5, <1>6, <1>7, <1>8, SMT DEF OnePlace
  <1> QED BY <1>1, <1>9 DEF Counted

\* dispatchLoop: the head of the queue goes to one consumer.
LEMMA TakeMoves ==
  ASSUME TypeOK, TypeOK', Lifecycle, PendingIsRegistered, LiveTagsDistinct, OnePlace, Counted,
         NEW c \in Consumers, DispatchTake(c)
  PROVE  OnePlace' /\ Counted'
  <1> DEFINE m == Head(messages)
  <1>1. /\ messages # <<>> /\ messages' = Tail(messages)
        /\ stage' = [stage EXCEPT ![m] = "sent"] /\ UNCHANGED <<handler, settled>>
    BY DEF DispatchTake, clientVars
  <1>2. messages \in Seq(Msgs) /\ settled \subseteq Msgs
    BY DEF TypeOK
  <1>3. /\ IsInjective(messages') /\ Range(messages') = Range(messages) \ {m}
        /\ m \in Range(messages) /\ m \in Msgs
    BY <1>1, <1>2, TailRange, InjectiveTail, SMT DEF OnePlace
  <1>4. Counted' /\ \A d \in Consumers : Held(d)' = IF d = c THEN Held(d) \cup {m} ELSE Held(d)
    BY TakeOne
  <1>5. \A d \in Consumers : Nacked(d)' = Nacked(d)
    BY <1>1 DEF Nacked
  <1> HIDE DEF m
  <1>6. \A d \in Consumers : Has(d)' = IF d = c THEN Has(d) \cup {m} ELSE Has(d)
    BY <1>4, <1>5 DEF Has
  <1>7. m \notin settled /\ \A d \in Consumers : m \notin Has(d) /\ m \notin Nacked(d)
    BY <1>3 DEF OnePlace, Has
  <1>8. \A n \in Msgs : stage[n] = "sent" => stage'[n] = "sent"
    BY <1>1 DEF TypeOK
  <1>9. \A d, e \in Consumers : d # e => Has(d)' \cap Has(e)' = {}
    BY <1>6, <1>7, SMT DEF OnePlace
  <1>10. \A d \in Consumers : Has(d)' \cap Range(messages') = {} /\ Held(d)' \cap Nacked(d)' = {}
    BY <1>3, <1>4, <1>5, <1>6, <1>7, SMT DEF OnePlace
  <1>11. \A n \in settled :
           n \notin Range(messages') /\ stage'[n] = "sent" /\ \A d \in Consumers : n \notin Has(d)'
    BY <1>2, <1>3, <1>6, <1>7, <1>8, SMT DEF OnePlace
  <1>12. \A d \in Consumers : handler'[d].op = "ack" => handler'[d].msg \in Held(d)'
    BY <1>1, <1>4 DEF OnePlace
  <1> QED BY <1>1, <1>3, <1>4, <1>9, <1>10, <1>11, <1>12 DEF OnePlace

\* unregisterConsumer: what the consumer had goes back to the queue.
LEMMA LeaveMoves ==
  ASSUME TypeOK, Lifecycle, PendingIsRegistered, OnePlace, Counted,
         NEW c \in Consumers, UnregisterConsumer(c)
  PROVE  OnePlace' /\ Counted'
  <1>1. PICK s \in Orders(Held(c)) : messages' = s \o messages
    BY DEF UnregisterConsumer
  <1>2. handler[c] = Idle /\ UNCHANGED <<handler, stage, settled>>
    BY DEF UnregisterConsumer, publishVars
  <1>3. messages \in Seq(Msgs) /\ settled \subseteq Msgs
    BY DEF TypeOK
  <1>4. s \in Seq(Held(c)) /\ Range(s) = Held(c) /\ IsInjective(s)
    BY HeldType, OrderOf
  <1>5. s \in Seq(Msgs)
    BY <1>4, HeldType, SMT
  <1>6. Range(messages') = Held(c) \cup Range(messages)
    BY <1>1, <1>3, <1>4, <1>5, ConcatRange, SMT
  <1>7. IsInjective(messages')
    <2>1. Held(c) \cap Range(messages) = {} /\ IsInjective(messages)
      BY DEF OnePlace, Has
    <2> QED BY <1>1, <1>3, <1>4, <1>5, <2>1, InjectiveConcat
  <1>8. Counted' /\ \A d \in Consumers : Held(d)' = IF d = c THEN {} ELSE Held(d)
    BY LeaveAll
  <1>9. \A d \in Consumers : Nacked(d)' = Nacked(d)
    BY <1>2 DEF Nacked
  <1>10. Nacked(c) = {}
    BY <1>2, NackedOf, SMT DEF Idle
  <1>11. Has(c)' = {} /\ \A d \in Consumers : d # c => Has(d)' = Has(d)
    BY <1>8, <1>9, <1>10 DEF Has
  <1>12. \A d \in Consumers : Has(d)' \cap Range(messages') = {} /\ Held(d)' \cap Nacked(d)' = {}
    <2>1. \A d \in Consumers : d # c => Has(d) \cap Held(c) = {}
      BY DEF OnePlace, Has
    <2> QED BY <1>6, <1>8, <1>9, <1>11, <2>1, SMT DEF OnePlace
  <1>13. \A d, e \in Consumers : d # e => Has(d)' \cap Has(e)' = {}
    BY <1>11 DEF OnePlace
  <1>14. \A n \in settled :
           n \notin Range(messages') /\ stage'[n] = "sent" /\ \A d \in Consumers : n \notin Has(d)'
    BY <1>2, <1>6, <1>11 DEF OnePlace, Has
  <1>15. \A d \in Consumers : handler'[d].op = "ack" => handler'[d].msg \in Held(d)'
    BY <1>2, <1>8, SMT DEF OnePlace, Idle
  <1> QED BY <1>2, <1>7, <1>8, <1>12, <1>13, <1>14, <1>15 DEF OnePlace

\* Broker.Ack: the only consumer found with the tag is the one that was asked.
LEMMA AckIs ==
  ASSUME TypeOK, Lifecycle, PendingIsRegistered, LiveTagsDistinct, OnePlace,
         NEW c \in Consumers, Ack(c)
  PROVE  /\ handler[c].op = "ack" /\ handler[c].msg \in Held(c) /\ stage[handler[c].msg] = "sent"
         /\ Release(c, tagOf[handler[c].msg])
         /\ settled' = settled \cup {handler[c].msg}
         /\ handler' = [handler EXCEPT ![c] = Idle]
         /\ UNCHANGED <<messages, stage, tagOf, consumers>>
  <1> DEFINE m == handler[c].msg
             holders == {d \in consumers : tagOf[m] \in inflightTags[d]}
  <1>1. /\ handler[c].op = "ack" /\ handler' = [handler EXCEPT ![c] = Idle]
        /\ UNCHANGED <<messages, stage, tagOf, consumers>>
        /\ \/ \E d \in holders : Release(d, tagOf[m]) /\ settled' = settled \cup {m}
           \/ holders = {}
    BY DEF Ack, publishVars, sessionVars
  <1>2. m \in Held(c) /\ m \in Msgs /\ stage[m] = "sent"
    BY <1>1, HeldType DEF OnePlace, Lifecycle
  <1>3. c \in consumers /\ tagOf[m] \in inflightTags[c]
    <2>1. tagOf[m] \in inflightTags[c]
      BY <1>2, HeldTags
    <2> QED BY <2>1 DEF PendingIsRegistered
  <1>4. InPlay(m)
    BY <1>2, <1>3 DEF InPlay, Stored
  <1>5. ASSUME NEW d \in holders PROVE d = c
    <2>1. d \in Consumers /\ tagOf[m] \in inflightTags[d]
      BY DEF TypeOK
    <2> HIDE DEF m, holders
    <2>2. m \in Held(d)
      BY <1>2, <1>4, <2>1, TagOfOne
    <2> QED BY <1>2, <2>1, <2>2 DEF OnePlace, Has
  <1>6. c \in holders
    BY <1>3
  <1> HIDE DEF m, holders
  <1>7. Release(c, tagOf[m]) /\ settled' = settled \cup {m}
    BY <1>1, <1>5, <1>6
  <1> QED BY <1>1, <1>2, <1>7 DEF m

\* HandleNack: the message found under the tag is the one that was refused.
LEMMA NackIs ==
  ASSUME TypeOK, Lifecycle, PendingIsRegistered, LiveTagsDistinct,
         NEW c \in Consumers, NEW m \in Msgs, NEW reply, NackTake(c, m, reply)
  PROVE  /\ m \in Held(c) /\ stage[m] = "sent" /\ handler[c] = Idle
         /\ Release(c, tagOf[m])
         /\ \/ handler' = [handler EXCEPT ![c] = [op |-> "requeue", msg |-> m]]
               /\ settled' = settled
            \/ handler' = [handler EXCEPT ![c] = [op |-> "signal", msg |-> None]]
               /\ settled' = settled \cup {m}
         /\ UNCHANGED <<messages, stage, tagOf, consumers>>
  <1> DEFINE held == pendingMessages[c][tagOf[m]]
  <1>1. /\ m \in received[c] /\ handler[c] = Idle /\ held # None /\ Release(c, tagOf[m])
        /\ \/ handler' = [handler EXCEPT ![c] = [op |-> "requeue", msg |-> held]]
              /\ settled' = settled
           \/ handler' = [handler EXCEPT ![c] = [op |-> "signal", msg |-> None]]
              /\ settled' = settled \cup {m}
        /\ UNCHANGED <<messages, stage, tagOf, consumers>>
    BY DEF NackTake, Answers, publishVars, sessionVars
  <1>2. tagOf[m] \in inflightTags[c]
    BY <1>1, SMT DEF PendingIsRegistered, TypeOK
  <1>3. InPlay(m)
    BY <1>1 DEF InPlay
  <1>4. m \in Held(c) /\ held = m
    BY <1>2, <1>3, TagOfOne
  <1>5. stage[m] = "sent"
    BY <1>1 DEF Lifecycle
  <1> QED BY <1>1, <1>4, <1>5

\* A message leaves a consumer's books: to be settled, or requeued by the nack.
LEMMA ReleaseMoves ==
  ASSUME TypeOK, TypeOK', Lifecycle, PendingIsRegistered, OnePlace, Counted,
         NEW c \in Consumers, NEW m \in Held(c), stage[m] = "sent", Release(c, tagOf[m]),
         handler[c].op # "requeue", NEW h, handler' = [handler EXCEPT ![c] = h], h.op # "ack",
         \/ h.op = "requeue" /\ h.msg = m /\ settled' = settled
         \/ h.op # "requeue" /\ settled' = settled \cup {m},
         UNCHANGED <<messages, stage>>
  PROVE  OnePlace' /\ Counted'
  <1>1. m \in Msgs /\ settled \subseteq Msgs
    BY HeldType DEF TypeOK
  <1>2. Counted' /\ \A d \in Consumers : Held(d)' = IF d = c THEN Held(d) \ {m} ELSE Held(d)
    BY ReleaseOne
  <1>3. /\ handler'[c] = h
        /\ \A d \in Consumers : d # c => handler'[d] = handler[d] /\ Nacked(d)' = Nacked(d)
        /\ h.op # "requeue" => Nacked(c)' = {}
        /\ h.op = "requeue" => Nacked(c)' = {m}
    <2>1. ASSUME h.op = "requeue" PROVE Nacked(c)' = {m}
      <3>1. h.msg = m
        BY <2>1
      <3>2. h.msg \in Msgs
        BY <1>1, <3>1
      <3>3. Nacked(c)' = {h.msg}
        BY <2>1, <3>2, HandlerSet
      <3> QED BY <3>1, <3>3
    <2> QED BY <2>1, HandlerSet
  <1>4. Nacked(c) = {}
    BY NackedOf
  <1>5. \A d \in Consumers : d # c => Has(d)' = Has(d)
    BY <1>2, <1>3 DEF Has
  <1>6. /\ Has(c)' \subseteq Has(c) /\ Held(c)' \cap Nacked(c)' = {}
        /\ h.op # "requeue" => m \notin Has(c)'
    BY <1>2, <1>3, <1>4 DEF Has
  <1>7. m \notin Range(messages) /\ \A d \in Consumers : d # c => m \notin Has(d)
    BY DEF OnePlace, Has
  <1>8. \A d \in Consumers : Has(d)' \subseteq Has(d) /\ Held(d)' \cap Nacked(d)' = {}
    BY <1>2, <1>3, <1>5, <1>6 DEF OnePlace
  <1>9. \A n \in settled' : n \notin Range(messages) /\ \A d \in Consumers : n \notin Has(d)'
    <2>1. \A n \in settled : n \notin Range(messages) /\ \A d \in Consumers : n \notin Has(d)'
      BY <1>8 DEF OnePlace
    <2>2. h.op # "requeue" => \A d \in Consumers : m \notin Has(d)'
      BY <1>6, <1>7, <1>8
    <2> QED BY <1>7, <2>1, <2>2
  <1>10. \A n \in settled' : stage[n] = "sent"
    BY DEF OnePlace
  <1>11. \A d \in Consumers : handler'[d].op = "ack" => handler'[d].msg \in Held(d)'
    BY <1>2, <1>3 DEF OnePlace
  <1>12. \A d, e \in Consumers : d # e => Has(d)' \cap Has(e)' = {}
    BY <1>8 DEF OnePlace
  <1>13. \A d \in Consumers : Has(d)' \cap Range(messages) = {}
    BY <1>8 DEF OnePlace
  <1> QED BY <1>2, <1>8, <1>9, <1>10, <1>11, <1>12, <1>13 DEF OnePlace

\* HandleNack's requeue: the message goes back to the head of the queue.
LEMMA RequeueMoves ==
  ASSUME TypeOK, Lifecycle, OnePlace, Counted, NEW c \in Consumers, NackRequeue(c)
  PROVE  OnePlace' /\ Counted'
  <1> DEFINE m == handler[c].msg
  <1>1. /\ handler[c].op = "requeue" /\ messages' = <<m>> \o messages
        /\ handler' = [handler EXCEPT ![c] = Idle]
        /\ UNCHANGED <<stage, inflight, inflightTags, pendingMessages, settled>>
    BY DEF NackRequeue, Prepend, publishVars, consumerVars, clientVars
  <1>2. messages \in Seq(Msgs) /\ settled \subseteq Msgs
    BY DEF TypeOK
  <1>3. m \in Msgs /\ Nacked(c) = {m}
    BY <1>1, NackedOf
  <1>4. m \notin Range(messages) /\ m \notin settled /\ m \notin Held(c)
        /\ \A d \in Consumers : d # c => m \notin Has(d)
    BY <1>3 DEF OnePlace, Has
  <1> HIDE DEF m
  <1>5. Range(messages') = {m} \cup Range(messages)
    BY <1>1, <1>2, <1>3, PrependRange
  <1>6. IsInjective(messages')
    <2> DEFINE s == <<m>>
    <2>1. s \in Seq(Msgs) /\ IsInjective(s) /\ Range(s) = {m}
      BY <1>3, SMT DEF IsInjective, Range
    <2>2. messages' = s \o messages /\ Range(s) \cap Range(messages) = {} /\ IsInjective(messages)
      BY <1>1, <1>4, <2>1 DEF OnePlace
    <2> HIDE DEF s
    <2> QED BY <1>2, <2>1, <2>2, InjectiveConcat
  <1>7. \A d \in Consumers : Held(d)' = Held(d)
    BY <1>1 DEF Held
  <1>8. /\ handler'[c] = Idle /\ Nacked(c)' = {}
        /\ \A d \in Consumers : d # c => handler'[d] = handler[d] /\ Nacked(d)' = Nacked(d)
    <2>1. Idle.op # "requeue"
      BY DEF Idle
    <2> QED BY <1>1, <2>1, HandlerSet
  <1>9. Has(c)' = Held(c) /\ \A d \in Consumers : d # c => Has(d)' = Has(d)
    BY <1>7, <1>8 DEF Has
  <1>10. \A d \in Consumers : Has(d)' \subseteq Has(d) /\ m \notin Has(d)'
    BY <1>4, <1>9 DEF Has
  <1>11. \A d \in Consumers : Has(d)' \cap Range(messages') = {} /\ Held(d)' \cap Nacked(d)' = {}
    BY <1>5, <1>7, <1>8, <1>10, SMT DEF OnePlace
  <1>12. \A d, e \in Consumers : d # e => Has(d)' \cap Has(e)' = {}
    BY <1>10 DEF OnePlace
  <1>13. \A n \in settled :
           n \notin Range(messages') /\ stage'[n] = "sent" /\ \A d \in Consumers : n \notin Has(d)'
    BY <1>1, <1>4, <1>5, <1>10 DEF OnePlace
  <1>14. \A d \in Consumers : handler'[d].op = "ack" => handler'[d].msg \in Held(d)'
    BY <1>7, <1>8, SMT DEF OnePlace, Idle
  <1>15. Counted'
    BY <1>1 DEF Counted
  <1> QED BY <1>1, <1>6, <1>11, <1>12, <1>13, <1>14, <1>15 DEF OnePlace

\* While no connection breaks, every step keeps each message in one place.
LEMMA OnePlaceStep ==
  ASSUME Fragile = {}, TypeOK, TypeOK', Lifecycle, PendingIsRegistered, LiveTagsDistinct,
         OnePlace, Counted, [Next]_vars
  PROVE  OnePlace' /\ Counted'
  <1>1. ASSUME NEW c \in Consumers, Ack(c) PROVE OnePlace' /\ Counted'
    <2> DEFINE m == handler[c].msg
    <2>1. /\ handler[c].op = "ack" /\ m \in Held(c) /\ stage[m] = "sent"
          /\ Release(c, tagOf[m]) /\ settled' = settled \cup {m}
          /\ handler' = [handler EXCEPT ![c] = Idle] /\ UNCHANGED <<messages, stage>>
      BY <1>1, AckIs
    <2>2. Idle.op # "ack" /\ Idle.op # "requeue"
      BY DEF Idle
    <2> HIDE DEF m
    <2>3. handler[c].op # "requeue"
      BY <2>1
    <2> QED BY <2>1, <2>2, <2>3, ReleaseMoves
  <1>2. ASSUME NEW c \in Consumers, NEW m \in Msgs, NEW reply, NackTake(c, m, reply)
        PROVE  OnePlace' /\ Counted'
    <2>1. /\ m \in Held(c) /\ stage[m] = "sent" /\ handler[c] = Idle /\ Release(c, tagOf[m])
          /\ UNCHANGED <<messages, stage>>
      BY <1>2, NackIs
    <2>2. handler[c].op # "requeue"
      BY <2>1, SMT DEF Idle
    <2>3. PICK h : /\ handler' = [handler EXCEPT ![c] = h] /\ h.op # "ack"
                   /\ \/ h.op = "requeue" /\ h.msg = m /\ settled' = settled
                      \/ h.op # "requeue" /\ settled' = settled \cup {m}
      <3> DEFINE r == [op |-> "requeue", msg |-> m]
                 s == [op |-> "signal", msg |-> None]
      <3>1. \/ handler' = [handler EXCEPT ![c] = r] /\ settled' = settled
            \/ handler' = [handler EXCEPT ![c] = s] /\ settled' = settled \cup {m}
        BY <1>2, NackIs
      <3>2. r.op = "requeue" /\ r.msg = m /\ r.op # "ack" /\ s.op # "requeue" /\ s.op # "ack"
        OBVIOUS
      <3> HIDE DEF r, s
      <3> QED BY <3>1, <3>2
    <2> QED BY <2>1, <2>2, <2>3, ReleaseMoves
  <1>3. ASSUME DeliverErr \/ \E c \in Consumers : Break(c) PROVE FALSE
    BY <1>3 DEF DeliverErr, Break
  <1> QED BY <1>1, <1>2, <1>3, PlacesKeptStep, EnqueueMoves, TakeMoves, LeaveMoves, RequeueMoves
          DEF Next, Publish, Dispatch, Handle

\* What makes the exact promises inductive, as long as no connection breaks
\* and no tag in play is drawn again.
THEOREM OnePlaceCorrect ==
  ASSUME Fragile = {}
  PROVE  Spec /\ []LiveTagsDistinct => [](OnePlace /\ Counted)
  <1>1. Init => OnePlace /\ Counted
    <2> SUFFICES ASSUME Init PROVE OnePlace /\ Counted
      OBVIOUS
    <2>1. /\ messages = <<>> /\ settled = {} /\ \A c \in Consumers : handler[c].op = "idle"
          /\ \A c \in Consumers : inflight[c] = 0 /\ inflightTags[c] = {}
          /\ \A c \in Consumers, t \in Tags : pendingMessages[c][t] = None
      BY DEF Init, Idle
    <2>2. \A c \in Consumers : Held(c) = {} /\ Nacked(c) = {}
      BY <2>1, NoneAssumption DEF Held, Nacked
    <2>3. IsInjective(messages) /\ Range(messages) = {}
      BY <2>1, SMT DEF IsInjective, Range
    <2>4. OnePlace
      BY <2>1, <2>2, <2>3 DEF OnePlace, Has
    <2> QED BY <2>1, <2>4, FS_EmptySet DEF Counted
  <1>2. /\ TypeOK /\ TypeOK' /\ Lifecycle /\ PendingIsRegistered /\ LiveTagsDistinct
        /\ OnePlace /\ Counted /\ [Next]_vars
        => OnePlace' /\ Counted'
    BY OnePlaceStep
  <1> QED BY <1>1, <1>2, TypeCorrect, PendingIsRegisteredCorrect, PTL DEF Spec

\* A set whose elements are all the same has at most one.
LEMMA AtMostOne ==
  ASSUME NEW S, \A x, y \in S : x = y
  PROVE  Cardinality(S) \in {0, 1} /\ (S = {} => Cardinality(S) = 0)
  <1>1. CASE S = {}
    BY <1>1, FS_EmptySet
  <1>2. CASE S # {}
    <2>1. PICK x \in S : TRUE
      BY <1>2
    <2>2. S = {x}
      BY <2>1
    <2>3. Cardinality({x}) = 1
      BY FS_Singleton
    <2> QED BY <1>2, <2>2, <2>3
  <1> QED BY <1>1, <1>2

\* Redelivery is exact for any number of messages and consumers: while no
\* connection breaks and no tag in play is drawn again, whatever acks, nacks
\* and channel closes race with dispatchLoop leaves one copy of an unsettled
\* message and none of a settled one.
THEOREM ExactlyOneCopyCorrect ==
  ASSUME Fragile = {}
  PROVE  Spec /\ []LiveTagsDistinct => []ExactlyOneCopy
  <1>1. TypeOK /\ OnePlace => ExactlyOneCopy
    <2> SUFFICES ASSUME TypeOK, OnePlace, NEW m \in Msgs
                 PROVE  Copies(m) <= IF m \in settled THEN 0 ELSE 1
      BY DEF ExactlyOneCopy
    <2> DEFINE Q == {i \in DOMAIN messages : messages[i] = m}
               P == {c \in Consumers : m \in Held(c)}
               R == {c \in Consumers : handler[c].op = "requeue" /\ handler[c].msg = m}
    <2>1. \A i, j \in Q : i = j
      BY DEF OnePlace, IsInjective
    <2>2. P = {c \in Consumers : m \in Held(c)} /\ R = {c \in Consumers : m \in Nacked(c)}
      BY DEF Nacked
    <2>3. \A c, d \in P \cup R : c = d
      BY <2>2 DEF OnePlace, Has
    <2>4. P = {} \/ R = {}
      BY <2>2, <2>3, SMT DEF OnePlace
    <2>5. Q = {} \/ (P = {} /\ R = {})
      <3>1. Q # {} => m \in Range(messages)
        BY DEF Range
      <3> QED BY <2>2, <3>1 DEF OnePlace, Has
    <2>6. m \in settled => Q = {} /\ P = {} /\ R = {}
      <3>1. Q # {} => m \in Range(messages)
        BY DEF Range
      <3> QED BY <2>2, <3>1 DEF OnePlace, Has
    <2>7. Copies(m) = Cardinality(Q) + Cardinality(P) + Cardinality(R)
      BY DEF Copies
    <2> HIDE DEF Q, P, R
    <2>8. /\ Cardinality(Q) \in {0, 1} /\ (Q = {} => Cardinality(Q) = 0)
          /\ Cardinality(P) \in {0, 1} /\ (P = {} => Cardinality(P) = 0)
          /\ Cardinality(R) \in {0, 1} /\ (R = {} => Cardinality(R) = 0)
      BY <2>1, <2>3, AtMostOne, SMT
    <2> QED BY <2>4, <2>5, <2>6, <2>7, <2>8, SMT
  <1> QED BY <1>1, TypeCorrect, OnePlaceCorrect, PTL

\* Every answer frees the slot its delivery took, for any prefetch: while no
\* connection breaks and no tag in play is drawn again, Consumer.inflight is
\* the number of unanswered deliveries.
THEOREM InflightExactCorrect ==
  ASSUME Fragile = {}
  PROVE  Spec /\ []LiveTagsDistinct => []InflightExact
  <1>1. TypeOK /\ Counted => InflightExact
    BY DEF TypeOK, Counted, InflightExact
  <1> QED BY <1>1, TypeCorrect, OnePlaceCorrect, PTL

-----------------------------------------------------------------------------
(* Queue implements Delivery. *)

\* Who owns a message, by where it is.
OwnerFacts ==
  \A m \in Msgs :
    /\ m \in settled => Owner(m) = "settled"
    /\ \A c \in Consumers : m \in Held(c) => Owner(m) = c
    /\ m \notin settled /\ (\A c \in Consumers : m \notin Held(c)) =>
         Owner(m) = IF stage[m] \in {"queued", "sent"} THEN "broker" ELSE "nobody"

\* A message that is settled is settled; one in the books of a consumer is its
\* own; any other one that was enqueued is with the broker.
LEMMA OwnerIs == TypeOK /\ Lifecycle /\ OnePlace => OwnerFacts
  <1> SUFFICES ASSUME TypeOK, Lifecycle, OnePlace, NEW m \in Msgs
               PROVE  /\ m \in settled => Owner(m) = "settled"
                      /\ \A c \in Consumers : m \in Held(c) => Owner(m) = c
                      /\ m \notin settled /\ (\A c \in Consumers : m \notin Held(c)) =>
                           Owner(m) = IF stage[m] \in {"queued", "sent"} THEN "broker"
                                      ELSE "nobody"
    BY DEF OwnerFacts
  <1>1. Holders(m) = {c \in Consumers : m \in Held(c)}
    BY HeldAtTag DEF Holders
  <1>2. ASSUME NEW c \in Consumers, m \in Held(c) PROVE Owner(m) = c
    <2>1. Holders(m) = {c}
      BY <1>1, <1>2, SMT DEF OnePlace, Has
    <2>2. m \notin settled
      BY <1>2 DEF OnePlace, Has
    <2>3. (CHOOSE d \in Holders(m) : TRUE) = c
      BY <2>1
    <2> QED BY <2>1, <2>2, <2>3 DEF Owner
  <1>3. ASSUME m \in settled PROVE Owner(m) = "settled"
    BY <1>3 DEF Owner
  <1>4. ASSUME m \notin settled, \A c \in Consumers : m \notin Held(c)
        PROVE  Owner(m) = IF stage[m] \in {"queued", "sent"} THEN "broker" ELSE "nobody"
    <2>1. Holders(m) = {}
      BY <1>1, <1>4
    <2> QED BY <1>4, <2>1 DEF Owner
  <1> QED BY <1>2, <1>3, <1>4

\* A consumer owns what is in its books.
LEMMA OwnedIsHeld ==
  ASSUME OwnerFacts, NEW c \in Consumers
  PROVE  {m \in Msgs : Owner(m) = c} = Held(c)
  <1>1. Held(c) \subseteq {m \in Msgs : Owner(m) = c}
    BY HeldType DEF OwnerFacts
  <1>2. ASSUME NEW m \in Msgs, Owner(m) = c PROVE m \in Held(c)
    <2>1. Owner(m) \notin {"nobody", "broker", "settled"}
      BY <1>2, OwnersAssumption
    <2>2. PICK d \in Consumers : m \in Held(d)
      BY <2>1 DEF OwnerFacts
    <2> QED BY <1>2, <2>2 DEF OwnerFacts
  <1> QED BY <1>1, <1>2

\* A message that stays where it is keeps its owner.
LEMMA OwnerKept ==
  ASSUME OwnerFacts, OwnerFacts', NEW m \in Msgs, m \in settled' <=> m \in settled,
         \A c \in Consumers : m \in Held(c)' <=> m \in Held(c),
         stage'[m] \in {"queued", "sent"} <=> stage[m] \in {"queued", "sent"}
  PROVE  Owner(m)' = Owner(m)
  <1>1. CASE m \in settled
    BY <1>1 DEF OwnerFacts
  <1>2. ASSUME NEW c \in Consumers, m \in Held(c) PROVE Owner(m)' = Owner(m)
    BY <1>2 DEF OwnerFacts
  <1>3. CASE m \notin settled /\ \A c \in Consumers : m \notin Held(c)
    <2>1. Owner(m) = IF stage[m] \in {"queued", "sent"} THEN "broker" ELSE "nobody"
      BY <1>3 DEF OwnerFacts
    <2>2. Owner(m)' = IF stage'[m] \in {"queued", "sent"} THEN "broker" ELSE "nobody"
      BY <1>3 DEF OwnerFacts
    <2> QED BY <2>1, <2>2
  <1> QED BY <1>1, <1>2, <1>3

\* The steps of a queue that its clients do not see.
LEMMA HiddenStep ==
  ASSUME OwnerFacts, OwnerFacts', UNCHANGED <<settled, pendingMessages>>,
         \A m \in Msgs : stage'[m] \in {"queued", "sent"} <=> stage[m] \in {"queued", "sent"}
  PROVE  [D!Next]_([m \in Msgs |-> Owner(m)])
  <1>1. \A c \in Consumers : Held(c)' = Held(c)
    BY DEF Held
  <1>2. ASSUME NEW m \in Msgs PROVE Owner(m)' = Owner(m)
    BY <1>1, OwnerKept
  <1> QED BY <1>2

\* enqueue is Accept.
LEMMA EnqueueAccepts ==
  ASSUME OwnerFacts, OwnerFacts', TypeOK, Lifecycle, OnePlace, NEW m \in Msgs, Enqueue(m)
  PROVE  D!Accept(m)
  <1>1. /\ stage[m] = "tagged" /\ stage' = [stage EXCEPT ![m] = "queued"]
        /\ UNCHANGED <<settled, pendingMessages>>
    BY DEF Enqueue, consumerVars, clientVars
  <1>2. \A c \in Consumers : Held(c)' = Held(c)
    BY <1>1 DEF Held
  <1>3. m \notin settled /\ \A c \in Consumers : m \notin Held(c)
    BY <1>1, NoneAssumption DEF OnePlace, Held, Lifecycle
  <1>4. Owner(m) = "nobody"
    BY <1>1, <1>3 DEF OwnerFacts
  <1>5. stage'[m] = "queued" /\ \A n \in Msgs : n # m => stage'[n] = stage[n]
    BY <1>1 DEF TypeOK
  <1>6. Owner(m)' = "broker"
    BY <1>1, <1>2, <1>3, <1>5 DEF OwnerFacts
  <1>7. \A n \in Msgs : n # m => Owner(n)' = Owner(n)
    BY <1>1, <1>2, <1>5, OwnerKept
  <1> QED BY <1>4, <1>6, <1>7 DEF D!Accept

\* A dispatch is Give: the consumer has a free slot.
LEMMA TakeGives ==
  ASSUME OwnerFacts, OwnerFacts', TypeOK, TypeOK', Lifecycle, PendingIsRegistered,
         LiveTagsDistinct, OnePlace, Counted, NEW c \in Consumers, DispatchTake(c)
  PROVE  Head(messages) \in Msgs /\ D!Give(Head(messages), c)
  <1> SUFFICES ASSUME NEW m, m = Head(messages) PROVE m \in Msgs /\ D!Give(m, c)
    OBVIOUS
  <1>1. /\ messages # <<>> /\ stage' = [stage EXCEPT ![m] = "sent"] /\ settled' = settled
        /\ inflight[c] < Prefetch
    BY DEF DispatchTake, clientVars, Free
  <1>2. m \in Range(messages) /\ m \in Msgs
    BY <1>1, TailRange, SMT DEF TypeOK
  <1>3. \A d \in Consumers : Held(d)' = IF d = c THEN Held(d) \cup {m} ELSE Held(d)
    BY TakeOne
  <1>4. m \notin settled /\ stage[m] \in {"queued", "sent"} /\ \A d \in Consumers : m \notin Held(d)
    BY <1>2 DEF OnePlace, Has, Lifecycle
  <1>5. Owner(m) = "broker"
    BY <1>2, <1>4 DEF OwnerFacts
  <1>6. Owner(m)' = c
    BY <1>2, <1>3 DEF OwnerFacts
  <1>7. \A n \in Msgs : n # m => stage'[n] = stage[n]
    BY <1>1 DEF TypeOK
  <1>8. \A n \in Msgs : n # m => Owner(n)' = Owner(n)
    <2>1. \A n \in Msgs, d \in Consumers : n # m => (n \in Held(d)' <=> n \in Held(d))
      BY <1>3
    <2> QED BY <1>1, <1>7, <2>1, OwnerKept
  <1>9. D!Owned(c) = Held(c)
    <2>1. D!Owned(c) = {n \in Msgs : Owner(n) = c}
      BY DEF D!Owned
    <2> QED BY <2>1, OwnedIsHeld
  <1>10. D!Cardinality(D!Owned(c)) < Prefetch
    <2>1. Cardinality(Held(c)) = inflight[c]
      BY HeldTags DEF Counted
    <2>2. D!Cardinality(D!Owned(c)) = Cardinality(D!Owned(c))
      BY Zenon DEF D!Cardinality, Cardinality
    <2> QED BY <1>1, <1>9, <2>1, <2>2
  <1>11. D!Give(m, c)
    BY <1>2, <1>5, <1>6, <1>8, <1>10 DEF D!Give
  <1> QED BY <1>2, <1>11

\* unregisterConsumer is Leave.
LEMMA UnregisterLeaves ==
  ASSUME OwnerFacts, OwnerFacts', TypeOK, Lifecycle, PendingIsRegistered, OnePlace,
         NEW c \in Consumers, UnregisterConsumer(c)
  PROVE  D!Leave(c)
  <1>1. stage' = stage /\ settled' = settled
    BY DEF UnregisterConsumer, publishVars
  <1>2. \A d \in Consumers : Held(d)' = IF d = c THEN {} ELSE Held(d)
    BY LeaveAll
  <1>3. ASSUME NEW n \in Msgs PROVE Owner(n)' = IF Owner(n) = c THEN "broker" ELSE Owner(n)
    <2>1. Owner(n) = c <=> n \in Held(c)
      BY OwnedIsHeld
    <2>2. CASE n \in Held(c)
      <3>1. n \notin settled /\ \A d \in Consumers : n \notin Held(d)'
        BY <1>2, <2>2, SMT DEF OnePlace, Has
      <3>2. stage[n] = "sent"
        BY <2>2, HeldAtTag, NoneAssumption, SMT DEF Lifecycle, TypeOK
      <3>3. Owner(n)' = "broker"
        BY <1>1, <3>1, <3>2 DEF OwnerFacts
      <3> QED BY <2>1, <2>2, <3>3
    <2>3. CASE n \notin Held(c)
      <3>1. \A d \in Consumers : n \in Held(d)' <=> n \in Held(d)
        BY <1>2, <2>3
      <3>2. Owner(n)' = Owner(n)
        BY <1>1, <3>1, OwnerKept
      <3> QED BY <2>1, <2>3, <3>2
    <2> QED BY <2>2, <2>3
  <1> QED BY <1>3 DEF D!Leave

\* A message that leaves a consumer's books is settled or returned.
LEMMA ReleaseReturns ==
  ASSUME OwnerFacts, OwnerFacts', TypeOK, TypeOK', Lifecycle, PendingIsRegistered, OnePlace,
         NEW c \in Consumers, NEW m \in Held(c), Release(c, tagOf[m]), stage' = stage
  PROVE  /\ m \in Msgs
         /\ settled' = settled \cup {m} => D!Settle(m, c)
         /\ settled' = settled => D!Return(m, c)
  <1>1. m \in Msgs /\ Owner(m) = c
    BY HeldType DEF OwnerFacts
  <1>2. \A d \in Consumers : Held(d)' = IF d = c THEN Held(d) \ {m} ELSE Held(d)
    BY ReleaseOne
  <1>3. m \notin settled /\ \A d \in Consumers : m \notin Held(d)'
    BY <1>2, SMT DEF OnePlace, Has
  <1>4. stage[m] = "sent"
    BY <1>1, HeldAtTag, NoneAssumption, SMT DEF Lifecycle, TypeOK
  <1>5. \A n \in Msgs, d \in Consumers : n # m => (n \in Held(d)' <=> n \in Held(d))
    BY <1>2
  <1>6. ASSUME settled' = settled \cup {m} PROVE D!Settle(m, c)
    <2>1. Owner(m)' = "settled"
      BY <1>1, <1>6 DEF OwnerFacts
    <2>2. \A n \in Msgs : n # m => Owner(n)' = Owner(n)
      BY <1>5, <1>6, OwnerKept
    <2> QED BY <1>1, <2>1, <2>2 DEF D!Settle
  <1>7. ASSUME settled' = settled PROVE D!Return(m, c)
    <2>1. Owner(m)' = "broker"
      BY <1>1, <1>3, <1>4, <1>7 DEF OwnerFacts
    <2>2. \A n \in Msgs : n # m => Owner(n)' = Owner(n)
      BY <1>5, <1>7, OwnerKept
    <2> QED BY <1>1, <2>1, <2>2 DEF D!Return
  <1> QED BY <1>1, <1>6, <1>7

\* Every step of a queue is a step of Delivery, or hidden.
LEMMA DeliveryStep ==
  ASSUME Fragile = {}, OwnerFacts, OwnerFacts', TypeOK, TypeOK', Lifecycle, PendingIsRegistered,
         LiveTagsDistinct, OnePlace, Counted, [Next]_vars
  PROVE  [D!Next]_([m \in Msgs |-> Owner(m)])
  <1> DEFINE goal == [D!Next]_([m \in Msgs |-> Owner(m)])
  <1>1. ASSUME UNCHANGED <<settled, pendingMessages, stage>> PROVE goal
    BY <1>1, HiddenStep
  <1>2. ASSUME NEW m \in Msgs, PublishTag(m) PROVE goal
    <2>1. UNCHANGED <<settled, pendingMessages>>
      BY <1>2 DEF PublishTag, consumerVars, clientVars
    <2>2. \A n \in Msgs : stage'[n] \in {"queued", "sent"} <=> stage[n] \in {"queued", "sent"}
      BY <1>2 DEF PublishTag, TypeOK
    <2> QED BY <2>1, <2>2, HiddenStep
  <1>3. ASSUME NEW m \in Msgs, Enqueue(m) PROVE goal
    BY <1>3, EnqueueAccepts DEF D!Next
  <1>4. ASSUME NEW c \in Consumers, DispatchTake(c) PROVE goal
    BY <1>4, TakeGives DEF D!Next
  <1>5. ASSUME NEW c \in Consumers, UnregisterConsumer(c) PROVE goal
    BY <1>5, UnregisterLeaves DEF D!Next
  <1>6. ASSUME NEW c \in Consumers, Ack(c) PROVE goal
    <2> DEFINE m == handler[c].msg
    <2>1. /\ m \in Held(c) /\ Release(c, tagOf[m]) /\ stage' = stage
          /\ settled' = settled \cup {m}
      BY <1>6, AckIs
    <2> HIDE DEF m
    <2>2. m \in Msgs /\ D!Settle(m, c)
      BY <2>1, ReleaseReturns
    <2> QED BY <2>2 DEF D!Next
  <1>7. ASSUME NEW c \in Consumers, NEW m \in Msgs, NEW reply, NackTake(c, m, reply) PROVE goal
    <2>1. /\ m \in Held(c) /\ Release(c, tagOf[m]) /\ stage' = stage
          /\ settled' = settled \/ settled' = settled \cup {m}
      BY <1>7, NackIs
    <2>2. D!Return(m, c) \/ D!Settle(m, c)
      BY <2>1, ReleaseReturns
    <2> QED BY <2>2 DEF D!Next
  <1>8. ASSUME DeliverErr \/ \E c \in Consumers : Break(c) PROVE FALSE
    BY <1>8 DEF DeliverErr, Break
  <1>9. ASSUME UNCHANGED vars PROVE goal
    BY <1>1, <1>9 DEF vars, publishVars, consumerVars, clientVars
  <1>10. ASSUME DispatchWait \/ DispatchFull \/ DispatchPark \/ DeliverOk PROVE goal
    BY <1>1, <1>10 DEF DispatchWait, DispatchFull, DispatchPark, DeliverOk, publishVars,
                       consumerVars, clientVars
  <1>11. ASSUME NEW c \in Consumers, RegisterConsumer(c) \/ NackRequeue(c) \/ NackSignal(c)
         PROVE  goal
    BY <1>1, <1>11 DEF RegisterConsumer, NackRequeue, NackSignal, publishVars, consumerVars,
                       clientVars
  <1>12. ASSUME NEW c \in Consumers, NEW m \in Msgs, AckLookup(c, m) PROVE goal
    BY <1>1, <1>12 DEF AckLookup, publishVars, consumerVars
  <1> HIDE DEF goal
  <1>13. ASSUME Publish PROVE goal
    BY <1>2, <1>3, <1>13 DEF Publish
  <1>14. ASSUME Dispatch PROVE goal
    BY <1>4, <1>8, <1>10, <1>14 DEF Dispatch
  <1>15. ASSUME NEW c \in Consumers, Handle(c) PROVE goal
    BY <1>5, <1>6, <1>7, <1>8, <1>11, <1>12, <1>15 DEF Handle
  <1>16. goal
    BY <1>9, <1>13, <1>14, <1>15 DEF Next
  <1> QED BY <1>16 DEF goal

\* A queue keeps the promise of Delivery, for any number of messages and
\* consumers and any prefetch: while no connection breaks and no tag in play
\* is drawn again, every message has one owner, changes hands only by enqueue,
\* dispatch, ack, nack and channel.close, and no consumer owns more than its
\* prefetch.
THEOREM ImplementsDeliveryCorrect ==
  ASSUME Fragile = {}
  PROVE  Spec /\ []LiveTagsDistinct => ImplementsDelivery
  <1>1. Init => D!Init
    <2> SUFFICES ASSUME Init PROVE D!Init
      OBVIOUS
    <2>1. \A m \in Msgs : Holders(m) = {}
      BY NoneAssumption, TagModAssumption, SMT DEF Init, Holders, Tags
    <2>2. \A m \in Msgs : Owner(m) = "nobody"
      BY <2>1 DEF Init, Owner
    <2> QED BY <2>2 DEF D!Init
  <1>2. /\ OwnerFacts /\ OwnerFacts' /\ TypeOK /\ TypeOK' /\ Lifecycle /\ PendingIsRegistered
        /\ LiveTagsDistinct /\ OnePlace /\ Counted /\ [Next]_vars
        => [D!Next]_([m \in Msgs |-> Owner(m)])
    BY DeliveryStep
  <1> QED BY <1>1, <1>2, OwnerIs, TypeCorrect, PendingIsRegisteredCorrect, OnePlaceCorrect, PTL
          DEF Spec, ImplementsDelivery, D!Spec

-----------------------------------------------------------------------------
(* Until the tags have all been drawn once, none is drawn again. *)

Published == {m \in Msgs : stage[m] # "unpublished"}

\* The tags are drawn in order from 1, and only what was published is in play.
TagsDrawn ==
  /\ nextTag = IF Cardinality(Published) + 1 = TagMod THEN 0 ELSE Cardinality(Published) + 1
  /\ \A m \in Published : tagOf[m] \in 1 .. Cardinality(Published)
  /\ \A m, n \in Published : tagOf[m] = tagOf[n] => m = n
  /\ dmsg # None => dpc = "writing"

\* q.nextTag++ in Broker.Publish draws a tag that no earlier message has.
LEMMA DrawTag ==
  ASSUME Cardinality(Msgs) < TagMod, TypeOK, TagsDrawn, NEW m \in Msgs, PublishTag(m)
  PROVE  TagsDrawn'
  <1> DEFINE k == Cardinality(Published)
  <1>1. /\ stage[m] = "unpublished" /\ stage' = [stage EXCEPT ![m] = "tagged"]
        /\ tagOf' = [tagOf EXCEPT ![m] = nextTag] /\ nextTag' = TagAfter(nextTag)
        /\ UNCHANGED <<dmsg, dpc>>
    BY DEF PublishTag, dispatchVars
  <1>2. Published \subseteq Msgs /\ m \notin Published /\ Published' = Published \cup {m}
    BY <1>1 DEF Published, TypeOK
  <1>3. IsFiniteSet(Published) /\ IsFiniteSet(Published \cup {m}) /\ Published \cup {m} \subseteq Msgs
    BY <1>2, FiniteAssumption, FS_Subset
  <1>4. k \in Nat /\ Cardinality(Published') = k + 1
    BY <1>2, <1>3, FS_CardinalityType, FS_AddElement
  <1>5. k + 1 < TagMod
    <2>1. Cardinality(Published \cup {m}) <= Cardinality(Msgs) /\ Cardinality(Msgs) \in Nat
      BY <1>3, FiniteAssumption, FS_Subset, FS_CardinalityType
    <2>2. k + 1 <= Cardinality(Msgs)
      BY <1>2, <1>4, <2>1
    <2> HIDE DEF k
    <2> QED BY <1>4, <2>1, <2>2, TagModAssumption, SMT
  <1>6. nextTag = k + 1
    <2>1. nextTag = IF k + 1 = TagMod THEN 0 ELSE k + 1
      BY DEF TagsDrawn
    <2> HIDE DEF k
    <2> QED BY <1>4, <1>5, <2>1, TagModAssumption, SMT
  <1>7. /\ \A n \in Published : tagOf[n] \in 1 .. k
        /\ \A n, p \in Published : tagOf[n] = tagOf[p] => n = p
    BY DEF TagsDrawn
  <1>8. tagOf'[m] = k + 1 /\ \A n \in Published : tagOf'[n] = tagOf[n]
    BY <1>1, <1>2, <1>6 DEF TypeOK
  <1> HIDE DEF k
  <1>9. nextTag' = IF (k + 1) + 1 = TagMod THEN 0 ELSE (k + 1) + 1
    BY <1>1, <1>4, <1>5, <1>6, TagModAssumption, SMT DEF TagAfter
  <1>10. \A n \in Published' : tagOf'[n] \in 1 .. k + 1
    <2>1. \A i \in 1 .. k : i \in 1 .. k + 1
      BY <1>4, SMT
    <2>2. k + 1 \in 1 .. k + 1
      BY <1>4, SMT
    <2> QED BY <1>2, <1>7, <1>8, <2>1, <2>2
  <1>11. \A n, p \in Published' : tagOf'[n] = tagOf'[p] => n = p
    <2>1. k + 1 \notin 1 .. k
      BY <1>4, SMT
    <2> QED BY <1>2, <1>7, <1>8, <2>1, SMT
  <1> QED BY <1>1, <1>4, <1>9, <1>10, <1>11 DEF TagsDrawn

\* The other steps draw no tag.
LEMMA TagsDrawnStep ==
  ASSUME Cardinality(Msgs) < TagMod, TypeOK, Lifecycle, TagsDrawn, [Next]_vars
  PROVE  TagsDrawn'
  <1>1. ASSUME nextTag' = nextTag, tagOf' = tagOf, Published' = Published,
               dmsg' # None => dpc' = "writing"
        PROVE  TagsDrawn'
    BY <1>1 DEF TagsDrawn
  <1>2. ASSUME nextTag' = nextTag, tagOf' = tagOf, stage' = stage,
               UNCHANGED dispatchVars \/ dmsg' = None \/ Signal
        PROVE  TagsDrawn'
    <2>1. Published' = Published
      BY <1>2 DEF Published
    <2>2. dmsg' # None => dpc' = "writing"
      BY <1>2 DEF TagsDrawn, dispatchVars, Signal, SignalTo
    <2> QED BY <1>1, <1>2, <2>1, <2>2
  <1>3. ASSUME NEW m \in Msgs, PublishTag(m) PROVE TagsDrawn'
    BY <1>3, DrawTag
  <1>4. ASSUME NEW m \in Msgs, Enqueue(m) PROVE TagsDrawn'
    <2>1. /\ nextTag' = nextTag /\ tagOf' = tagOf /\ Signal
          /\ stage[m] = "tagged" /\ stage' = [stage EXCEPT ![m] = "queued"]
      BY <1>4 DEF Enqueue
    <2>2. Published' = Published
      BY <2>1 DEF Published, TypeOK
    <2>3. dmsg' # None => dpc' = "writing"
      BY <2>1 DEF TagsDrawn, Signal, SignalTo
    <2> QED BY <1>1, <2>1, <2>2, <2>3
  <1>5. ASSUME NEW c \in Consumers, DispatchTake(c) PROVE TagsDrawn'
    <2> DEFINE m == Head(messages)
    <2>1. /\ nextTag' = nextTag /\ tagOf' = tagOf /\ dpc' = "writing" /\ messages # <<>>
          /\ stage' = [stage EXCEPT ![m] = "sent"]
      BY <1>5 DEF DispatchTake
    <2>2. m \in Msgs /\ stage[m] \in {"queued", "sent"}
      BY <2>1, TailRange, SMT DEF TypeOK, Lifecycle
    <2> HIDE DEF m
    <2>3. Published' = Published
      BY <2>1, <2>2 DEF Published, TypeOK
    <2> QED BY <1>1, <2>1, <2>3
  <1>6. ASSUME UNCHANGED vars PROVE TagsDrawn'
    BY <1>2, <1>6 DEF vars, publishVars
  <1>7. ASSUME DispatchWait \/ DispatchFull \/ DispatchPark PROVE TagsDrawn'
    <2>1. /\ nextTag' = nextTag /\ tagOf' = tagOf /\ stage' = stage
          /\ dmsg' = dmsg /\ dpc # "writing"
      BY <1>7 DEF DispatchWait, DispatchFull, DispatchPark, publishVars
    <2>2. dmsg' = None
      BY <2>1 DEF TagsDrawn
    <2> QED BY <1>2, <2>1, <2>2
  <1>8. ASSUME DeliverOk \/ DeliverErr PROVE TagsDrawn'
    BY <1>2, <1>8 DEF DeliverOk, DeliverErr, publishVars
  <1>9. ASSUME NEW c \in Consumers,
               \/ RegisterConsumer(c) \/ Break(c) \/ UnregisterConsumer(c) \/ NackRequeue(c)
               \/ NackSignal(c)
        PROVE  TagsDrawn'
    BY <1>2, <1>9 DEF RegisterConsumer, Break, UnregisterConsumer, NackRequeue, NackSignal,
                      publishVars
  <1>10. ASSUME NEW c \in Consumers, Ack(c) PROVE TagsDrawn'
    BY <1>2, <1>10 DEF Ack, publishVars
  <1>11. ASSUME NEW c \in Consumers, NEW m \in Msgs,
                AckLookup(c, m) \/ \E reply \in {"requeue", "drop"} : NackTake(c, m, reply)
         PROVE  TagsDrawn'
    BY <1>2, <1>11 DEF AckLookup, NackTake, publishVars
  <1>12. ASSUME Publish PROVE TagsDrawn'
    BY <1>3, <1>4, <1>12 DEF Publish
  <1>13. ASSUME Dispatch PROVE TagsDrawn'
    BY <1>5, <1>7, <1>8, <1>13 DEF Dispatch
  <1>14. ASSUME NEW c \in Consumers, Handle(c) PROVE TagsDrawn'
    BY <1>9, <1>10, <1>11, <1>14 DEF Handle
  <1> QED BY <1>6, <1>12, <1>13, <1>14 DEF Next

\* Fewer messages than tags: no tag is ever drawn twice, so nobody's answer is
\* taken for the answer to another delivery.
THEOREM TagsSuffice ==
  ASSUME Cardinality(Msgs) < TagMod
  PROVE  Spec => []LiveTagsDistinct
  <1>1. Init => TagsDrawn
    <2> SUFFICES ASSUME Init PROVE TagsDrawn
      OBVIOUS
    <2>1. Published = {} /\ nextTag = 1 /\ dmsg = None
      BY DEF Init, Published
    <2>2. Cardinality(Published) = 0
      BY <2>1, FS_EmptySet
    <2> QED BY <2>1, <2>2, TagModAssumption, SMT DEF TagsDrawn
  <1>2. TypeOK /\ Lifecycle /\ TagsDrawn /\ [Next]_vars => TagsDrawn'
    BY TagsDrawnStep
  <1>3. TypeOK /\ Lifecycle /\ TagsDrawn => LiveTagsDistinct
    <2> SUFFICES ASSUME TypeOK, Lifecycle, TagsDrawn PROVE LiveTagsDistinct
      OBVIOUS
    <2>1. ASSUME NEW m \in Msgs, Stored(m) PROVE stage[m] \in {"queued", "sent"}
      <3>1. CASE m \in Range(messages)
        BY <3>1 DEF Lifecycle
      <3>2. ASSUME NEW c \in consumers, m \in Held(c) PROVE stage[m] = "sent"
        BY <3>2, NoneAssumption, SMT DEF Held, Lifecycle, TypeOK
      <3>3. ASSUME NEW c \in Consumers, handler[c].op = "requeue", handler[c].msg = m
            PROVE  stage[m] = "sent"
        BY <3>3 DEF Lifecycle
      <3> QED BY <2>1, <3>1, <3>2, <3>3 DEF Stored
    <2>2. ASSUME NEW m \in Msgs, NEW c \in Consumers, handler[c].msg = m PROVE stage[m] = "sent"
      <3>1. handler[c].op \in {"ack", "requeue"}
        BY <2>2, NoneAssumption DEF TypeOK, Handlers
      <3> QED BY <2>2, <3>1 DEF Lifecycle
    <2>3. ASSUME NEW m \in Msgs, dmsg = m PROVE stage[m] = "sent"
      BY <2>3, NoneAssumption DEF TagsDrawn, Lifecycle
    <2>4. ASSUME NEW m \in Msgs, InPlay(m) PROVE m \in Published
      BY <2>1, <2>2, <2>3, <2>4 DEF InPlay, Published, Lifecycle
    <2> QED BY <2>4 DEF LiveTagsDistinct, TagsDrawn
  <1> QED BY <1>1, <1>2, <1>3, TypeCorrect, PendingIsRegisteredCorrect, PTL DEF Spec

\* At-least-once without a condition on the run: a queue that is sent fewer
\* messages than there are tags loses none of them, whatever connections
\* break, channels close, writes fail and acks or nacks race with the dispatcher.
THEOREM FewMessagesNoLoss ==
  ASSUME Cardinality(Msgs) < TagMod
  PROVE  Spec => []NoLoss
  BY NoLossCorrect, TagsSuffice, PTL DEF NoLossUnlessTagClash

\* The exact promises without a condition on the run: while no connection
\* breaks, a queue that is sent fewer messages than there are tags keeps one
\* copy of each, counts exactly, and implements Delivery.
THEOREM FewMessagesExact ==
  ASSUME Fragile = {}, Cardinality(Msgs) < TagMod
  PROVE  Spec => []ExactlyOneCopy /\ []InflightExact /\ ImplementsDelivery
  <1>1. Spec => []LiveTagsDistinct
    BY TagsSuffice
  <1>2. Spec /\ []LiveTagsDistinct => []ExactlyOneCopy
    BY ExactlyOneCopyCorrect
  <1>3. Spec /\ []LiveTagsDistinct => []InflightExact
    BY InflightExactCorrect
  <1>4. Spec /\ []LiveTagsDistinct => ImplementsDelivery
    BY ImplementsDeliveryCorrect
  <1> QED BY <1>1, <1>2, <1>3, <1>4, PTL
=============================================================================
