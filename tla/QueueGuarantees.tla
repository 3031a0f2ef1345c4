-------------------------- MODULE QueueGuarantees ---------------------------
(***************************************************************************)
(* What a queue guarantees whatever connections break, for every number of *)
(* messages and consumers, every prefetch and every tag width: the types,  *)
(* the consumers' books, the prefetch limit, no message lost, and first    *)
(* dispatch in the order of arrival.                                       *)
(***************************************************************************)
EXTENDS Queue, FiniteSetTheorems, SequenceTheorems, TLAPS

\* A leaf is Zenon's unless it names another prover.
USE Zenon

-----------------------------------------------------------------------------
(* The operations on q.messages, as sets of messages. *)

\* What append adds to the messages of a queue.
LEMMA AppendRange ==
  ASSUME NEW S, NEW s \in Seq(S), NEW m \in S
  PROVE  /\ Append(s, m) \in Seq(S)
         /\ Range(Append(s, m)) = Range(s) \cup {m}
  <1>1. Append(s, m) \in Seq(S) /\ Len(Append(s, m)) = Len(s) + 1
    BY AppendProperties
  <1>2. /\ \A i \in 1 .. Len(s) : Append(s, m)[i] = s[i]
        /\ Append(s, m)[Len(s) + 1] = m
    BY AppendProperties, SMT
  <1>3. DOMAIN s = 1 .. Len(s) /\ DOMAIN Append(s, m) = 1 .. Len(s) + 1 /\ Len(s) \in Nat
    BY <1>1, LenProperties
  <1> QED BY <1>1, <1>2, <1>3, SMT DEF Range

\* What concatenation, and so append([]Message{msg}, q.messages...), holds.
LEMMA ConcatRange ==
  ASSUME NEW S, NEW s \in Seq(S), NEW t \in Seq(S)
  PROVE  /\ s \o t \in Seq(S)
         /\ Range(s \o t) = Range(s) \cup Range(t)
  <1>1. s \o t \in Seq(S) /\ Len(s \o t) = Len(s) + Len(t)
    BY ConcatProperties
  <1>2. \A i \in 1 .. Len(s) + Len(t) :
          (s \o t)[i] = IF i <= Len(s) THEN s[i] ELSE t[i - Len(s)]
    BY ConcatProperties
  <1>3. /\ Len(s) \in Nat /\ Len(t) \in Nat
        /\ DOMAIN s = 1 .. Len(s) /\ DOMAIN t = 1 .. Len(t)
        /\ DOMAIN (s \o t) = 1 .. Len(s) + Len(t)
    BY <1>1, LenProperties
  <1>4. Range(s \o t) \subseteq Range(s) \cup Range(t)
    BY <1>2, <1>3, SMT DEF Range
  <1>5. Range(s) \subseteq Range(s \o t)
    BY <1>2, <1>3, SMT DEF Range
  <1>6. ASSUME NEW i \in 1 .. Len(t)
        PROVE  t[i] \in Range(s \o t)
    <2>1. Len(s) + i \in 1 .. Len(s) + Len(t) /\ ~(Len(s) + i <= Len(s))
      BY <1>3, SMT
    <2>2. (s \o t)[Len(s) + i] = t[i]
      BY <2>1, <1>2, <1>3, SMT
    <2> QED BY <2>1, <2>2, <1>3 DEF Range
  <1> QED BY <1>1, <1>3, <1>4, <1>5, <1>6 DEF Range

\* What a message put back at the head adds to a queue.
LEMMA PrependRange ==
  ASSUME NEW S, NEW s \in Seq(S), NEW m \in S
  PROVE  /\ <<m>> \o s \in Seq(S)
         /\ Range(<<m>> \o s) = {m} \cup Range(s)
  <1> DEFINE h == <<m>>
  <1>1. h \in Seq(S) /\ Range(h) = {m}
    BY SMT DEF Range
  <1> HIDE DEF h
  <1>2. h \o s \in Seq(S) /\ Range(h \o s) = {m} \cup Range(s)
    BY <1>1, ConcatRange, SMT
  <1> QED BY <1>2 DEF h

\* What is left after the head is taken.
LEMMA TailRange ==
  ASSUME NEW S, NEW s \in Seq(S), s # <<>>
  PROVE  /\ Head(s) \in Range(s)
         /\ Tail(s) \in Seq(S)
         /\ Range(s) = {Head(s)} \cup Range(Tail(s))
  <1>1. /\ Tail(s) \in Seq(S) /\ Len(Tail(s)) = Len(s) - 1
        /\ \A i \in 1 .. Len(Tail(s)) : Tail(s)[i] = s[i + 1]
    BY HeadTailProperties
  <1>2. Len(s) \in Nat \ {0} /\ DOMAIN s = 1 .. Len(s)
    BY EmptySeq, LenProperties
  <1>3. DOMAIN Tail(s) = 1 .. Len(s) - 1
    BY <1>1, LenProperties
  <1>4. Head(s) = s[1]
    BY SMT
  <1>5. Range(Tail(s)) \subseteq Range(s)
    BY <1>1, <1>2, <1>3, SMT DEF Range
  <1>6. ASSUME NEW i \in 1 .. Len(s)
        PROVE  s[i] \in {Head(s)} \cup Range(Tail(s))
    <2>1. CASE i = 1
      BY <2>1, <1>4
    <2>2. CASE i # 1
      <3>1. i - 1 \in 1 .. Len(s) - 1
        BY <2>2, <1>2, SMT
      <3>2. Tail(s)[i - 1] = s[i]
        BY <3>1, <1>1, <1>2, SMT
      <3> QED BY <3>1, <3>2, <1>3 DEF Range
    <2> QED BY <2>1, <2>2
  <1> QED BY <1>1, <1>2, <1>4, <1>5, <1>6, SMT DEF Range

\* An order of a finite set is a sequence that has each element once.
LEMMA OrderOf ==
  ASSUME NEW S, IsFiniteSet(S), NEW s \in Orders(S)
  PROVE  s \in Seq(S) /\ Range(s) = S /\ IsInjective(s)
  <1> DEFINE n == Cardinality(S)
  <1>1. n \in Nat
    BY FS_CardinalityType
  <1>2. s \in Injection(1 .. n, S) /\ s \in Surjection(1 .. n, S)
    BY DEF Orders, Bijection
  <1>3. s \in [1 .. n -> S] /\ IsInjective(s)
    BY <1>2 DEF Injection
  <1>4. s \in Seq(S)
    BY <1>1, <1>3, SMT
  <1>5. \A x \in S : \E i \in 1 .. n : s[i] = x
    BY <1>2 DEF Surjection
  <1> QED BY <1>3, <1>4, <1>5 DEF Range

-----------------------------------------------------------------------------
(* The type invariant. *)

\* Release keeps the three fields of a consumer well typed.
LEMMA ReleaseType ==
  ASSUME TypeOK, NEW c \in Consumers, NEW t \in Tags, Release(c, t)
  PROVE  /\ inflight' \in [Consumers -> Int]
         /\ inflightTags' \in [Consumers -> SUBSET Tags]
         /\ pendingMessages' \in [Consumers -> [Tags -> Msgs \cup {None}]]
  BY SMT DEF TypeOK, Release

\* The messages in a consumer's map are finitely many messages.
LEMMA HeldType ==
  ASSUME NEW c \in Consumers
  PROVE  Held(c) \subseteq Msgs /\ IsFiniteSet(Held(c)) /\ Cardinality(Held(c)) \in Nat
  <1>1. Held(c) \subseteq Msgs
    BY DEF Held
  <1> QED BY <1>1, FiniteAssumption, FS_Subset, FS_CardinalityType

\* The variables of Queue keep their types through every publish, dispatch and
\* session step: in particular dispatchLoop has a consumer and a message
\* whenever it writes, and nextTag stays a tag across the wrap.
THEOREM TypeCorrect == Spec => []TypeOK
  <1>1. Init => TypeOK
    BY TagModAssumption, SMT
       DEF Init, TypeOK, Tags, Stages, Points, Sessions, Handlers, Idle
  <1>2. TypeOK /\ [Next]_vars => TypeOK'
    <2> SUFFICES ASSUME TypeOK, [Next]_vars PROVE TypeOK'
      OBVIOUS
    <2> USE DEF TypeOK
    <2>1. CASE UNCHANGED vars
      BY <2>1 DEF vars, publishVars, consumerVars, dispatchVars, sessionVars, clientVars
    <2>2. ASSUME NEW m \in Msgs, PublishTag(m) PROVE TypeOK'
      BY <2>2, TagModAssumption, SMT
         DEF PublishTag, TagAfter, Tags, Stages, consumerVars, dispatchVars,
             sessionVars, clientVars
    <2>3. ASSUME NEW m \in Msgs, Enqueue(m) PROVE TypeOK'
      <3>1. messages' \in Seq(Msgs) /\ arrivals' \in Seq(Msgs)
        BY <2>3, SMT DEF Enqueue
      <3> QED BY <2>3, <3>1 DEF Enqueue, Signal, SignalTo, Points, Stages, consumerVars,
                               sessionVars, clientVars
    <2>4. ASSUME NEW c \in Consumers, RegisterConsumer(c) PROVE TypeOK'
      BY <2>4 DEF RegisterConsumer, Signal, SignalTo, Points, Sessions, publishVars, consumerVars,
                  clientVars
    <2>5. ASSUME NEW c \in Consumers, Break(c) PROVE TypeOK'
      BY <2>5 DEF Break, Sessions, publishVars, consumerVars, dispatchVars, clientVars
    <2>6. ASSUME NEW c \in Consumers, UnregisterConsumer(c) PROVE TypeOK'
      <3>1. messages' \in Seq(Msgs)
        <4>1. PICK requeued \in Orders(Held(c)) : messages' = requeued \o messages
          BY <2>6 DEF UnregisterConsumer
        <4>2. requeued \in Seq(Msgs)
          BY HeldType, OrderOf, SeqMonotonic
        <4> QED BY <4>1, <4>2, ConcatProperties
      <3>2. inflight' \in [Consumers -> Int]
        BY <2>6, HeldType, SMT DEF UnregisterConsumer
      <3> QED BY <2>6, <3>1, <3>2
              DEF UnregisterConsumer, Signal, SignalTo, Points, Sessions, publishVars
    <2>7. CASE DispatchWait \/ DispatchFull \/ DispatchPark
      BY <2>7 DEF DispatchWait, DispatchFull, DispatchPark, Points, publishVars, consumerVars,
                  sessionVars, clientVars
    <2>8. ASSUME NEW c \in Consumers, DispatchTake(c) PROVE TypeOK'
      <3>1. Head(messages) \in Msgs /\ Tail(messages) \in Seq(Msgs)
        BY <2>8, HeadTailProperties DEF DispatchTake
      <3> QED BY <2>8, <3>1, SMT DEF DispatchTake, Points, Stages, sessionVars, clientVars
    <2>9. CASE DeliverOk
      BY <2>9 DEF DeliverOk, Points, publishVars, consumerVars, sessionVars
    <2>10. CASE DeliverErr
      <3>1. dcons \in Consumers /\ dmsg \in Msgs
        BY <2>10 DEF DeliverErr
      <3>2. messages' \in Seq(Msgs)
        BY <2>10, <3>1, SMT DEF DeliverErr, Prepend
      <3> QED BY <2>10, <3>1, <3>2, ReleaseType
              DEF DeliverErr, Points, publishVars, sessionVars, clientVars
    <2>11. ASSUME NEW c \in Consumers, NEW m \in Msgs, AckLookup(c, m) PROVE TypeOK'
      BY <2>11 DEF AckLookup, Answers, Handlers, publishVars, consumerVars, dispatchVars,
                   sessionVars
    <2>12. ASSUME NEW c \in Consumers, Ack(c) PROVE TypeOK'
      <3>0. /\ handler' \in [Consumers -> Handlers]
            /\ handler[c].msg \in Msgs
        BY <2>12 DEF Ack, Handlers, Idle
      <3>1. CASE UNCHANGED <<consumerVars, dispatchVars, settled>>
        BY <2>12, <3>0, <3>1 DEF Ack, publishVars, consumerVars, dispatchVars, sessionVars
      <3>2. ASSUME NEW d \in consumers, tagOf[handler[c].msg] \in inflightTags[d],
                   Release(d, tagOf[handler[c].msg]), Signal,
                   settled' = settled \cup {handler[c].msg}
            PROVE  TypeOK'
        BY <2>12, <3>0, <3>2, ReleaseType
           DEF Ack, Signal, SignalTo, Points, publishVars, sessionVars
      <3> QED BY <2>12, <3>1, <3>2 DEF Ack
    <2>13. ASSUME NEW c \in Consumers, NEW m \in Msgs, NEW reply \in {"requeue", "drop"},
                  NackTake(c, m, reply)
           PROVE  TypeOK'
      <3> DEFINE held == pendingMessages[c][tagOf[m]]
      <3>1. held \in Msgs /\ Release(c, tagOf[m])
        BY <2>13, SMT DEF NackTake
      <3>2. handler' \in [Consumers -> Handlers] /\ settled' \subseteq Msgs
        <4>1. CASE reply = "requeue"
          <5>1. handler' = [handler EXCEPT ![c] = [op |-> "requeue", msg |-> held]]
            BY <2>13, <4>1 DEF NackTake
          <5>2. settled' = settled
            BY <2>13, <4>1 DEF NackTake
          <5> QED BY <3>1, <5>1, <5>2 DEF Handlers
        <4>2. CASE reply = "drop"
          <5>1. handler' = [handler EXCEPT ![c] = [op |-> "signal", msg |-> None]]
            BY <2>13, <4>2 DEF NackTake
          <5>2. settled' = settled \cup {m}
            BY <2>13, <4>2 DEF NackTake
          <5> QED BY <5>1, <5>2 DEF Handlers
        <4> QED BY <4>1, <4>2
      <3>3. received' \in [Consumers -> SUBSET Msgs]
        BY <2>13, SMT DEF NackTake, Answers
      <3> HIDE DEF held
      <3> QED BY <2>13, <3>1, <3>2, <3>3, ReleaseType
              DEF NackTake, publishVars, dispatchVars, sessionVars
    <2>14. ASSUME NEW c \in Consumers, NackRequeue(c) PROVE TypeOK'
      <3>1. handler[c].msg \in Msgs /\ handler' \in [Consumers -> Handlers]
        BY <2>14 DEF NackRequeue, Handlers, Idle
      <3>2. messages' \in Seq(Msgs)
        BY <2>14, <3>1, SMT DEF NackRequeue, Prepend
      <3> QED BY <2>14, <3>1, <3>2
              DEF NackRequeue, Signal, SignalTo, Points, publishVars, consumerVars, sessionVars,
                  clientVars
    <2>15. ASSUME NEW c \in Consumers, NackSignal(c) PROVE TypeOK'
      BY <2>15 DEF NackSignal, Signal, SignalTo, Points, Handlers, Idle, publishVars,
                   consumerVars, sessionVars, clientVars
    <2> HIDE DEF TypeOK
    <2> QED BY <2>1, <2>2, <2>3, <2>4, <2>5, <2>6, <2>7, <2>8, <2>9, <2>10, <2>11, <2>12,
               <2>13, <2>14, <2>15 DEF Next, Publish, Dispatch, Handle
  <1> QED BY <1>1, <1>2, PTL DEF Spec

-----------------------------------------------------------------------------
(* The books of the consumers: Lifecycle and PendingIsRegistered hold      *)
(* whatever the tags do.                                                   *)


\* Exactly one entry of one consumer goes when it is released.
LEMMA ReleaseEffect ==
  ASSUME TypeOK, NEW c \in Consumers, NEW t \in Tags, Release(c, t)
  PROVE  /\ \A d \in Consumers, u \in Tags :
              pendingMessages'[d][u] = IF d = c /\ u = t THEN None ELSE pendingMessages[d][u]
         /\ \A d \in Consumers :
              inflightTags'[d] = IF d = c THEN inflightTags[d] \ {t} ELSE inflightTags[d]
  BY DEF TypeOK, Release

\* So the two maps of every consumer still agree, and nothing new is pending.
LEMMA ReleaseBooks ==
  ASSUME TypeOK, TypeOK', PendingIsRegistered, consumers' = consumers,
         NEW c \in Consumers, NEW t \in Tags, Release(c, t)
  PROVE  PendingIsRegistered'
  <1>1. ASSUME NEW d \in Consumers
        PROVE  /\ inflightTags'[d] = {u \in Tags : pendingMessages'[d][u] # None}
               /\ d \notin consumers' => inflightTags'[d] = {}
    <2>1. /\ \A u \in Tags : pendingMessages'[d][u] =
               IF d = c /\ u = t THEN None ELSE pendingMessages[d][u]
          /\ inflightTags'[d] = IF d = c THEN inflightTags[d] \ {t} ELSE inflightTags[d]
      BY ReleaseEffect, SMT
    <2>2. /\ inflightTags[d] = {u \in Tags : pendingMessages[d][u] # None}
          /\ d \notin consumers => inflightTags[d] = {}
      BY DEF PendingIsRegistered
    <2>3. CASE d = c
      BY <2>1, <2>2, <2>3
    <2>4. CASE d # c
      BY <2>1, <2>2, <2>4
    <2> QED BY <2>3, <2>4
  <1> QED BY <1>1 DEF PendingIsRegistered

\* A client answers what it has received, and receives nothing by answering.
LEMMA AnswersEffect ==
  ASSUME TypeOK, NEW c \in Consumers, NEW m \in Msgs, Answers(c, m)
  PROVE  m \in received[c] /\ \A d \in Consumers : received'[d] \subseteq received[d]
  <1>1. CASE received' = [received EXCEPT ![c] = @ \ {m}]
    BY <1>1 DEF Answers, TypeOK
  <1>2. CASE received' = received
    BY <1>2 DEF Answers
  <1> QED BY <1>1, <1>2 DEF Answers

\* A step that leaves the sessions and the consumers' maps alone.
LEMMA SameBooks ==
  ASSUME PendingIsRegistered, UNCHANGED <<inflightTags, pendingMessages>>,
         consumers \subseteq consumers'
  PROVE  PendingIsRegistered'
  BY DEF PendingIsRegistered

\* A step that leaves the sessions and the stages alone, and adds to the queue,
\* the maps and the clients nothing that was not sent before.
LEMMA LifecycleKept ==
  ASSUME Lifecycle, UNCHANGED <<stage, tagOf, consumers, session>>,
         \A m \in Range(messages') : m \in Range(messages) \/ stage[m] = "sent",
         \A d \in Consumers, t \in Tags :
           pendingMessages'[d][t] # None => pendingMessages'[d][t] = pendingMessages[d][t],
         \A d \in Consumers :
           /\ handler'[d] # Idle => Running(d)
           /\ handler'[d].op \in {"ack", "requeue"} => stage[handler'[d].msg] = "sent",
         \A d \in Consumers : received'[d] \subseteq received[d],
         dpc' = "writing" => dpc = "writing" /\ dmsg' = dmsg
  PROVE  Lifecycle'
  <1>1. /\ consumers' = {c \in Consumers : Running(c)'}
        /\ \A c \in Consumers : handler'[c] # Idle => Running(c)'
    BY DEF Lifecycle, Running
  <1>2. \A m \in Range(messages') : stage'[m] \in {"queued", "sent"}
    BY DEF Lifecycle
  <1>3. \A c \in Consumers, t \in Tags : pendingMessages'[c][t] # None =>
          /\ tagOf'[pendingMessages'[c][t]] = t
          /\ stage'[pendingMessages'[c][t]] = "sent"
    BY SMT DEF Lifecycle
  <1>4. /\ \A c \in Consumers : handler'[c].op \in {"ack", "requeue"} =>
            stage'[handler'[c].msg] = "sent"
        /\ \A c \in Consumers : \A m \in received'[c] : stage'[m] = "sent"
        /\ dpc' = "writing" => stage'[dmsg'] = "sent"
    BY DEF Lifecycle
  <1> QED BY <1>1, <1>2, <1>3, <1>4 DEF Lifecycle

\* A session's goroutine that goes on to h leaves the others where they are.
LEMMA HandlerMoves ==
  ASSUME TypeOK, Lifecycle, NEW c \in Consumers, NEW h,
         handler' = [handler EXCEPT ![c] = h],
         h # Idle => Running(c),
         h.op \in {"ack", "requeue"} => stage[h.msg] = "sent"
  PROVE  \A d \in Consumers :
           /\ handler'[d] # Idle => Running(d)
           /\ handler'[d].op \in {"ack", "requeue"} => stage[handler'[d].msg] = "sent"
  <1> SUFFICES ASSUME NEW d \in Consumers
               PROVE  /\ handler'[d] # Idle => Running(d)
                      /\ handler'[d].op \in {"ack", "requeue"} => stage[handler'[d].msg] = "sent"
    OBVIOUS
  <1>1. handler'[d] = IF d = c THEN h ELSE handler[d]
    BY DEF TypeOK
  <1>2. /\ handler[d] # Idle => Running(d)
        /\ handler[d].op \in {"ack", "requeue"} => stage[handler[d].msg] = "sent"
    BY DEF Lifecycle
  <1> QED BY <1>1, <1>2

\* Every step keeps the consumers' maps in agreement and the sessions, tags and
\* stages in the relation the argument needs.
LEMMA BooksStep ==
  ASSUME TypeOK, TypeOK', Lifecycle, PendingIsRegistered, [Next]_vars
  PROVE  Lifecycle' /\ PendingIsRegistered'
  <1>1. CASE UNCHANGED vars
    BY <1>1, SMT DEF vars, publishVars, consumerVars, dispatchVars, sessionVars, clientVars,
                Lifecycle, PendingIsRegistered, Running
  <1>2. ASSUME NEW m \in Msgs, PublishTag(m) PROVE Lifecycle' /\ PendingIsRegistered'
    <2>1. UNCHANGED <<messages, pendingMessages, inflightTags, handler, received, dpc, dmsg,
                      consumers, session>>
      BY <1>2 DEF PublishTag, consumerVars, dispatchVars, sessionVars, clientVars
    <2>2. stage[m] = "unpublished"
      BY <1>2 DEF PublishTag
    <2>3. \A n \in Msgs : n # m => stage'[n] = stage[n] /\ tagOf'[n] = tagOf[n]
      BY <1>2 DEF PublishTag, TypeOK
    <2>4. Range(messages) \subseteq Msgs
      BY SMT DEF TypeOK, Range
    <2>5. /\ consumers' = {c \in Consumers : Running(c)'}
          /\ \A c \in Consumers : handler'[c] # Idle => Running(c)'
      BY <2>1 DEF Lifecycle, Running
    <2>6. \A n \in Range(messages') : stage'[n] \in {"queued", "sent"}
      BY <2>1, <2>2, <2>3, <2>4 DEF Lifecycle
    <2>7. \A c \in Consumers, t \in Tags : pendingMessages'[c][t] # None =>
            /\ tagOf'[pendingMessages'[c][t]] = t
            /\ stage'[pendingMessages'[c][t]] = "sent"
      BY <2>1, <2>2, <2>3, SMT DEF Lifecycle, TypeOK
    <2>8. \A c \in Consumers : handler'[c].op \in {"ack", "requeue"} =>
            stage'[handler'[c].msg] = "sent"
      <3>1. \A c \in Consumers : handler[c].op \in {"ack", "requeue"} =>
              handler[c].msg \in Msgs /\ stage[handler[c].msg] = "sent"
        BY DEF Lifecycle, TypeOK, Handlers
      <3> QED BY <2>1, <2>2, <2>3, <3>1
    <2>9. \A c \in Consumers : \A n \in received'[c] : stage'[n] = "sent"
      <3>1. \A c \in Consumers : \A n \in received[c] : n \in Msgs /\ stage[n] = "sent"
        BY DEF Lifecycle, TypeOK
      <3> QED BY <2>1, <2>2, <2>3, <3>1
    <2>10. dpc' = "writing" => stage'[dmsg'] = "sent"
      BY <2>1, <2>2, <2>3 DEF Lifecycle, TypeOK
    <2>11. Lifecycle'
      BY <2>5, <2>6, <2>7, <2>8, <2>9, <2>10 DEF Lifecycle
    <2> QED BY <2>1, <2>11, SameBooks
  <1>3. ASSUME NEW m \in Msgs, Enqueue(m) PROVE Lifecycle' /\ PendingIsRegistered'
    <2>1. UNCHANGED <<tagOf, pendingMessages, inflightTags, handler, received, dmsg,
                      consumers, session>>
      BY <1>3 DEF Enqueue, Signal, consumerVars, sessionVars, clientVars
    <2>2. stage[m] = "tagged" /\ stage' = [stage EXCEPT ![m] = "queued"]
      BY <1>3 DEF Enqueue
    <2>3. Range(messages') = Range(messages) \cup {m}
      BY <1>3, AppendRange, SMT DEF Enqueue, TypeOK
    <2>4. dpc' = "writing" => dpc = "writing"
      BY <1>3 DEF Enqueue, Signal, SignalTo
    <2>5. Range(messages) \subseteq Msgs
      BY SMT DEF TypeOK, Range
    <2>6. Lifecycle'
      BY <2>1, <2>2, <2>3, <2>4, <2>5, SMT DEF Lifecycle, TypeOK, Running, Handlers
    <2> QED BY <2>1, <2>6, SameBooks
  <1>4. ASSUME NEW c \in Consumers, RegisterConsumer(c) PROVE Lifecycle' /\ PendingIsRegistered'
    <2>1. UNCHANGED <<messages, stage, tagOf, pendingMessages, inflightTags, handler, received,
                      dmsg>>
      BY <1>4 DEF RegisterConsumer, Signal, publishVars, consumerVars, clientVars
    <2>2. /\ session[c] = "new" /\ session' = [session EXCEPT ![c] = "open"]
          /\ consumers' = consumers \cup {c}
          /\ dpc' = "writing" => dpc = "writing"
      BY <1>4 DEF RegisterConsumer, Signal, SignalTo
    <2>3. Lifecycle'
      BY <2>1, <2>2, SMT DEF Lifecycle, TypeOK, Running
    <2> QED BY <2>1, <2>2, <2>3, SameBooks
  <1>5. ASSUME NEW c \in Consumers, Break(c) PROVE Lifecycle' /\ PendingIsRegistered'
    <2>1. UNCHANGED <<messages, stage, tagOf, pendingMessages, inflightTags, handler, received,
                      dpc, dmsg, consumers>>
      BY <1>5 DEF Break, publishVars, consumerVars, dispatchVars, clientVars
    <2>2. session[c] = "open" /\ session' = [session EXCEPT ![c] = "broken"]
      BY <1>5 DEF Break
    <2>3. Lifecycle'
      BY <2>1, <2>2, SMT DEF Lifecycle, TypeOK, Running
    <2> QED BY <2>1, <2>3, SameBooks
  <1>6. ASSUME NEW c \in Consumers, UnregisterConsumer(c)
        PROVE  Lifecycle' /\ PendingIsRegistered'
    <2>1. UNCHANGED <<stage, tagOf, handler, dmsg>>
      BY <1>6 DEF UnregisterConsumer, Signal, publishVars
    <2>2. /\ handler[c] = Idle /\ Running(c)
          /\ session' = [session EXCEPT ![c] = "closed"]
          /\ consumers' = consumers \ {c}
          /\ pendingMessages' = [pendingMessages EXCEPT ![c] = [t \in Tags |-> None]]
          /\ inflightTags' = [inflightTags EXCEPT ![c] = @ \ {tagOf[m] : m \in Held(c)}]
          /\ received' = [received EXCEPT ![c] = {}]
          /\ dpc' = "writing" => dpc = "writing"
      BY <1>6 DEF UnregisterConsumer, Signal, SignalTo
    <2>3. ASSUME NEW m \in Held(c) PROVE stage[m] = "sent"
      <3>1. PICK t \in Tags : pendingMessages[c][t] = m
        BY DEF Held
      <3>2. m # None
        BY NoneAssumption DEF Held
      <3> QED BY <3>1, <3>2 DEF Lifecycle
    <2>4. PICK requeued \in Orders(Held(c)) : messages' = requeued \o messages
      BY <1>6 DEF UnregisterConsumer
    <2>5. Range(messages') = Held(c) \cup Range(messages)
      <3>1. requeued \in Seq(Held(c)) /\ Range(requeued) = Held(c)
        BY HeldType, OrderOf
      <3>2. requeued \in Seq(Msgs) /\ messages \in Seq(Msgs)
        BY <3>1, HeldType, SeqMonotonic DEF TypeOK
      <3> QED BY <2>4, <3>1, <3>2, ConcatRange, SMT
    <2>6. inflightTags'[c] = {}
      <3>1. \A t \in inflightTags[c] : \E m \in Held(c) : tagOf[m] = t
        BY NoneAssumption, SMT DEF Held, PendingIsRegistered, Lifecycle, TypeOK
      <3>2. inflightTags'[c] = inflightTags[c] \ {tagOf[m] : m \in Held(c)}
        BY <2>2 DEF TypeOK
      <3> QED BY <3>1, <3>2
    <2>7. Lifecycle'
      <3>1. /\ consumers' = {d \in Consumers : Running(d)'}
            /\ \A d \in Consumers : handler'[d] # Idle => Running(d)'
        BY <2>1, <2>2, SMT DEF Lifecycle, Running, TypeOK
      <3>2. \A m \in Range(messages') : stage'[m] \in {"queued", "sent"}
        BY <2>1, <2>3, <2>5 DEF Lifecycle
      <3>3. \A d \in Consumers, t \in Tags : pendingMessages'[d][t] # None =>
              /\ tagOf'[pendingMessages'[d][t]] = t
              /\ stage'[pendingMessages'[d][t]] = "sent"
        BY <2>1, <2>2, SMT DEF Lifecycle, TypeOK
      <3>4. /\ \A d \in Consumers : handler'[d].op \in {"ack", "requeue"} =>
                stage'[handler'[d].msg] = "sent"
            /\ \A d \in Consumers : \A m \in received'[d] : stage'[m] = "sent"
            /\ dpc' = "writing" => stage'[dmsg'] = "sent"
        BY <2>1, <2>2 DEF Lifecycle, TypeOK
      <3> QED BY <3>1, <3>2, <3>3, <3>4 DEF Lifecycle
    <2>8. PendingIsRegistered'
      <3>1. ASSUME NEW d \in Consumers
            PROVE  /\ inflightTags'[d] = {t \in Tags : pendingMessages'[d][t] # None}
                   /\ d \notin consumers' => inflightTags'[d] = {}
        <4>1. CASE d = c
          BY <2>2, <2>6, <4>1 DEF TypeOK
        <4>2. CASE d # c
          BY <2>2, <4>2 DEF TypeOK, PendingIsRegistered
        <4> QED BY <4>1, <4>2
      <3> QED BY <3>1 DEF PendingIsRegistered
    <2> QED BY <2>7, <2>8
  <1>7. CASE DispatchWait \/ DispatchFull \/ DispatchPark
    <2>1. /\ UNCHANGED <<messages, stage, tagOf, pendingMessages, inflightTags, consumers,
                         session, handler, received, dmsg>>
          /\ dpc' # "writing"
      BY <1>7 DEF DispatchWait, DispatchFull, DispatchPark, publishVars, consumerVars,
                  sessionVars, clientVars
    <2>2. Lifecycle'
      BY <2>1 DEF Lifecycle, Running
    <2> QED BY <2>1, <2>2, SameBooks
  <1>8. ASSUME NEW c \in Consumers, DispatchTake(c) PROVE Lifecycle' /\ PendingIsRegistered'
    <2> DEFINE m == Head(messages)
    <2>1. /\ UNCHANGED <<tagOf, consumers, session, handler, received>>
          /\ c \in consumers
          /\ inflightTags' = [inflightTags EXCEPT ![c] = @ \cup {tagOf[m]}]
          /\ pendingMessages' = [pendingMessages EXCEPT ![c][tagOf[m]] = m]
          /\ stage' = [stage EXCEPT ![m] = "sent"]
          /\ messages' = Tail(messages) /\ messages # <<>>
          /\ dmsg' = m
      BY <1>8 DEF DispatchTake, sessionVars, clientVars
    <2>2. m \in Msgs /\ Range(messages') \subseteq Range(messages)
      BY <2>1, TailRange, HeadTailProperties, SMT DEF TypeOK
    <2>3. \A n \in Msgs : stage'[n] = IF n = m THEN "sent" ELSE stage[n]
      BY <2>1, <2>2 DEF TypeOK
    <2>4. \A d \in Consumers, t \in Tags : pendingMessages'[d][t] =
            IF d = c /\ t = tagOf[m] THEN m ELSE pendingMessages[d][t]
      BY <2>1, <2>2, SMT DEF TypeOK
    <2>5. Range(messages) \subseteq Msgs
      BY SMT DEF TypeOK, Range
    <2> HIDE DEF m
    <2>6. Lifecycle'
      <3>1. /\ consumers' = {d \in Consumers : Running(d)'}
            /\ \A d \in Consumers : handler'[d] # Idle => Running(d)'
        BY <2>1 DEF Lifecycle, Running
      <3>2. \A n \in Range(messages') : stage'[n] \in {"queued", "sent"}
        BY <2>2, <2>3, <2>5 DEF Lifecycle
      <3>3. \A d \in Consumers, t \in Tags : pendingMessages'[d][t] # None =>
              /\ tagOf'[pendingMessages'[d][t]] = t
              /\ stage'[pendingMessages'[d][t]] = "sent"
        <4>1. \A d \in Consumers, t \in Tags : pendingMessages[d][t] # None =>
                /\ pendingMessages[d][t] \in Msgs
                /\ tagOf[pendingMessages[d][t]] = t
                /\ stage[pendingMessages[d][t]] = "sent"
          BY SMT DEF Lifecycle, TypeOK
        <4>2. tagOf' = tagOf
          BY <2>1
        <4> QED BY <2>2, <2>3, <2>4, <4>1, <4>2, SMT
      <3>4. /\ \A d \in Consumers : handler'[d].op \in {"ack", "requeue"} =>
                stage'[handler'[d].msg] = "sent"
            /\ \A d \in Consumers : \A n \in received'[d] : stage'[n] = "sent"
            /\ dpc' = "writing" => stage'[dmsg'] = "sent"
        BY <2>1, <2>2, <2>3 DEF Lifecycle, TypeOK, Handlers
      <3> QED BY <3>1, <3>2, <3>3, <3>4 DEF Lifecycle
    <2>7. PendingIsRegistered'
      <3>1. ASSUME NEW d \in Consumers
            PROVE  /\ inflightTags'[d] = {t \in Tags : pendingMessages'[d][t] # None}
                   /\ d \notin consumers' => inflightTags'[d] = {}
        <4>1. /\ inflightTags[d] = {t \in Tags : pendingMessages[d][t] # None}
              /\ d \notin consumers => inflightTags[d] = {}
          BY DEF PendingIsRegistered
        <4>2. tagOf[m] \in Tags /\ m # None
          BY <2>2, NoneAssumption DEF TypeOK
        <4>3. CASE d = c
          BY <2>1, <2>4, <4>1, <4>2, <4>3 DEF TypeOK
        <4>4. CASE d # c
          BY <2>1, <2>4, <4>1, <4>4 DEF TypeOK
        <4> QED BY <4>3, <4>4
      <3> QED BY <3>1 DEF PendingIsRegistered
    <2> QED BY <2>6, <2>7
  <1>9. CASE DeliverOk
    <2>1. /\ UNCHANGED <<messages, stage, tagOf, pendingMessages, inflightTags, consumers,
                         session, handler>>
          /\ dpc' = "run" /\ dpc = "writing" /\ dcons \in Consumers /\ dmsg \in Msgs
      BY <1>9 DEF DeliverOk, TypeOK, publishVars, consumerVars, sessionVars
    <2>2. \A c \in Consumers : received'[c] \subseteq received[c] \cup {dmsg}
      BY <1>9, <2>1 DEF DeliverOk, TypeOK
    <2>3. Lifecycle'
      BY <2>1, <2>2 DEF Lifecycle, Running
    <2> QED BY <2>1, <2>3, SameBooks
  <1>10. CASE DeliverErr
    <2>1. /\ UNCHANGED <<stage, tagOf, consumers, session, handler, received>>
          /\ dpc' = "run" /\ dpc = "writing" /\ dcons \in Consumers /\ dmsg \in Msgs
          /\ tagOf[dmsg] \in Tags /\ Release(dcons, tagOf[dmsg])
          /\ messages' = <<dmsg>> \o messages
      BY <1>10 DEF DeliverErr, Prepend, TypeOK, publishVars, sessionVars, clientVars
    <2>2. Range(messages') = {dmsg} \cup Range(messages)
      BY <2>1, PrependRange, SMT DEF TypeOK
    <2>3. \A d \in Consumers, t \in Tags :
            pendingMessages'[d][t] # None => pendingMessages'[d][t] = pendingMessages[d][t]
      BY <2>1, ReleaseEffect, SMT
    <2>4. stage[dmsg] = "sent"
      BY <2>1 DEF Lifecycle
    <2>5. \A d \in Consumers :
            /\ handler'[d] # Idle => Running(d)
            /\ handler'[d].op \in {"ack", "requeue"} => stage[handler'[d].msg] = "sent"
      BY <2>1 DEF Lifecycle
    <2>6. Lifecycle'
      BY <2>1, <2>2, <2>3, <2>4, <2>5, LifecycleKept
    <2> QED BY <2>1, <2>6, ReleaseBooks
  <1>11. ASSUME NEW c \in Consumers, NEW m \in Msgs, AckLookup(c, m)
         PROVE  Lifecycle' /\ PendingIsRegistered'
    <2>1. /\ UNCHANGED <<messages, stage, tagOf, pendingMessages, inflightTags, consumers,
                         session, dpc, dmsg>>
          /\ Running(c) /\ m \in received[c]
          /\ handler' = [handler EXCEPT ![c] = [op |-> "ack", msg |-> m]]
      BY <1>11 DEF AckLookup, Answers, publishVars, consumerVars, dispatchVars, sessionVars
    <2>2. \A d \in Consumers : received'[d] \subseteq received[d]
      BY <1>11, AnswersEffect DEF AckLookup
    <2>3. stage[m] = "sent"
      BY <2>1 DEF Lifecycle
    <2>4. \A d \in Consumers :
            /\ handler'[d] # Idle => Running(d)
            /\ handler'[d].op \in {"ack", "requeue"} => stage[handler'[d].msg] = "sent"
      BY <2>1, <2>3, HandlerMoves
    <2>5. Lifecycle'
      BY <2>1, <2>2, <2>4, LifecycleKept
    <2> QED BY <2>1, <2>5, SameBooks
  <1>12. ASSUME NEW c \in Consumers, Ack(c) PROVE Lifecycle' /\ PendingIsRegistered'
    <2>1. /\ UNCHANGED <<messages, stage, tagOf, consumers, session, received>>
          /\ handler' = [handler EXCEPT ![c] = Idle]
          /\ handler[c].msg \in Msgs
      BY <1>12 DEF Ack, publishVars, sessionVars, TypeOK, Handlers
    <2>2. \A d \in Consumers :
            /\ handler'[d] # Idle => Running(d)
            /\ handler'[d].op \in {"ack", "requeue"} => stage[handler'[d].msg] = "sent"
      <3>1. Idle.op = "idle"
        BY DEF Idle
      <3> QED BY <2>1, <3>1, HandlerMoves
    <2>3. CASE UNCHANGED <<consumerVars, dispatchVars, settled>>
      <3>1. UNCHANGED <<pendingMessages, inflightTags, dpc, dmsg>>
        BY <2>3 DEF consumerVars, dispatchVars
      <3>2. Lifecycle'
        BY <2>1, <2>2, <3>1, LifecycleKept
      <3> QED BY <2>1, <3>1, <3>2, SameBooks
    <2>4. ASSUME NEW d \in consumers, Release(d, tagOf[handler[c].msg]), Signal
          PROVE  Lifecycle' /\ PendingIsRegistered'
      <3> DEFINE tag == tagOf[handler[c].msg]
      <3>1. d \in Consumers /\ tag \in Tags /\ Release(d, tag)
        BY <2>1, <2>4 DEF TypeOK
      <3> HIDE DEF tag
      <3>2. dmsg' = dmsg /\ (dpc' = "writing" => dpc = "writing")
        BY <2>4 DEF Signal, SignalTo
      <3>3. \A e \in Consumers, t \in Tags :
              pendingMessages'[e][t] # None => pendingMessages'[e][t] = pendingMessages[e][t]
        BY <3>1, ReleaseEffect, SMT
      <3>4. Lifecycle'
        BY <2>1, <2>2, <3>2, <3>3, LifecycleKept
      <3> QED BY <2>1, <3>1, <3>4, ReleaseBooks
    <2> QED BY <1>12, <2>3, <2>4 DEF Ack
  <1>13. ASSUME NEW c \in Consumers, NEW m \in Msgs, NEW reply \in {"requeue", "drop"},
                NackTake(c, m, reply)
         PROVE  Lifecycle' /\ PendingIsRegistered'
    <2> DEFINE held == pendingMessages[c][tagOf[m]]
    <2>1. /\ UNCHANGED <<messages, stage, tagOf, consumers, session, dpc, dmsg>>
          /\ Running(c) /\ held # None
          /\ tagOf[m] \in Tags /\ Release(c, tagOf[m])
      BY <1>13 DEF NackTake, publishVars, dispatchVars, sessionVars, TypeOK
    <2>2. \A d \in Consumers : received'[d] \subseteq received[d]
      BY <1>13, AnswersEffect DEF NackTake
    <2>3. \A d \in Consumers, t \in Tags :
            pendingMessages'[d][t] # None => pendingMessages'[d][t] = pendingMessages[d][t]
      BY <2>1, ReleaseEffect, SMT
    <2>4. stage[held] = "sent"
      BY <2>1 DEF Lifecycle
    <2>5. PICK h \in {[op |-> "requeue", msg |-> held], [op |-> "signal", msg |-> None]} :
            handler' = [handler EXCEPT ![c] = h]
      BY <1>13 DEF NackTake
    <2>6. h.op \in {"ack", "requeue"} => stage[h.msg] = "sent"
      BY <2>4, <2>5, SMT
    <2> HIDE DEF held
    <2>7. \A d \in Consumers :
            /\ handler'[d] # Idle => Running(d)
            /\ handler'[d].op \in {"ack", "requeue"} => stage[handler'[d].msg] = "sent"
      BY <2>1, <2>5, <2>6, HandlerMoves
    <2>8. Lifecycle'
      BY <2>1, <2>2, <2>3, <2>7, LifecycleKept
    <2> QED BY <2>1, <2>8, ReleaseBooks
  <1>14. ASSUME NEW c \in Consumers, NackRequeue(c) PROVE Lifecycle' /\ PendingIsRegistered'
    <2>1. /\ UNCHANGED <<stage, tagOf, pendingMessages, inflightTags, consumers, session,
                         received, dmsg>>
          /\ dpc' = "writing" => dpc = "writing"
          /\ handler' = [handler EXCEPT ![c] = Idle]
          /\ handler[c].op = "requeue" /\ handler[c].msg \in Msgs
          /\ messages' = <<handler[c].msg>> \o messages
      BY <1>14 DEF NackRequeue, Prepend, Signal, SignalTo, publishVars, consumerVars,
                   sessionVars, clientVars, TypeOK, Handlers
    <2>2. Range(messages') = {handler[c].msg} \cup Range(messages)
      <3>1. messages \in Seq(Msgs)
        BY DEF TypeOK
      <3> QED BY <2>1, <3>1, PrependRange
    <2>3. stage[handler[c].msg] = "sent"
      BY <2>1 DEF Lifecycle
    <2>4. Idle.op = "idle"
      BY DEF Idle
    <2>5. \A d \in Consumers :
            /\ handler'[d] # Idle => Running(d)
            /\ handler'[d].op \in {"ack", "requeue"} => stage[handler'[d].msg] = "sent"
      BY <2>1, <2>4, HandlerMoves
    <2>6. Lifecycle'
      BY <2>1, <2>2, <2>3, <2>5, LifecycleKept
    <2> QED BY <2>1, <2>6, SameBooks
  <1>15. ASSUME NEW c \in Consumers, NackSignal(c) PROVE Lifecycle' /\ PendingIsRegistered'
    <2>1. /\ UNCHANGED <<messages, stage, tagOf, pendingMessages, inflightTags, consumers,
                         session, received, dmsg>>
          /\ dpc' = "writing" => dpc = "writing"
          /\ handler' = [handler EXCEPT ![c] = Idle]
      BY <1>15 DEF NackSignal, Signal, SignalTo, publishVars, consumerVars, sessionVars,
                   clientVars
    <2>2. Idle.op = "idle"
      BY DEF Idle
    <2>3. \A d \in Consumers :
            /\ handler'[d] # Idle => Running(d)
            /\ handler'[d].op \in {"ack", "requeue"} => stage[handler'[d].msg] = "sent"
      BY <2>1, <2>2, HandlerMoves
    <2>4. Lifecycle'
      BY <2>1, <2>3, LifecycleKept
    <2> QED BY <2>1, <2>4, SameBooks
  <1> QED BY <1>1, <1>2, <1>3, <1>4, <1>5, <1>6, <1>7, <1>8, <1>9, <1>10, <1>11, <1>12,
             <1>13, <1>14, <1>15 DEF Next, Publish, Dispatch, Handle

\* Nothing stays pending at a consumer once it is unregistered, even when the
\* dispatcher was writing to it, and the maps HandleAck and HandleNack read
\* never disagree.
THEOREM PendingIsRegisteredCorrect == Spec => [](Lifecycle /\ PendingIsRegistered)
  <1>1. Init => Lifecycle /\ PendingIsRegistered
    BY SMT DEF Init, Lifecycle, PendingIsRegistered, Running, Idle, Range
  <1>2. TypeOK /\ TypeOK' /\ Lifecycle /\ PendingIsRegistered /\ [Next]_vars
          => Lifecycle' /\ PendingIsRegistered'
    BY BooksStep
  <1> QED BY <1>1, <1>2, TypeCorrect, PTL DEF Spec

-----------------------------------------------------------------------------
(* The prefetch limit, for every session that is open.                     *)

\* A consumer starts with no deliveries, and dispatchLoop never writes to one
\* that is not registered yet.
StartsEmpty ==
  /\ \A c \in Consumers : session[c] = "new" => inflight[c] = 0
  /\ dpc = "writing" => session[dcons] # "new"

\* The tags a consumer holds are finitely many.
LEMMA TagsFinite ==
  ASSUME NEW T \in SUBSET Tags
  PROVE  IsFiniteSet(T) /\ Cardinality(T) \in Nat
  <1>1. IsFiniteSet(Tags)
    BY TagModAssumption, FS_Interval, SMT DEF Tags
  <1> QED BY <1>1, FS_Subset, FS_CardinalityType

\* Recording one more tag raises the number of tags by at most one.
LEMMA AddTag ==
  ASSUME NEW T \in SUBSET Tags, NEW t
  PROVE  /\ Cardinality(T \cup {t}) \in Nat
         /\ Cardinality(T \cup {t}) <= Cardinality(T) + 1
  <1>1. IsFiniteSet(T) /\ Cardinality(T) \in Nat
    BY TagsFinite
  <1>2. Cardinality(T \cup {t}) = IF t \in T THEN Cardinality(T) ELSE Cardinality(T) + 1
    BY <1>1, FS_AddElement
  <1>3. CASE t \in T
    BY <1>1, <1>2, <1>3, SMT
  <1>4. CASE t \notin T
    BY <1>1, <1>2, <1>4, SMT
  <1> QED BY <1>3, <1>4

\* Releasing a tag that is held frees a slot in the count and in the maps.
LEMMA ReleasePrefetch ==
  ASSUME TypeOK, PrefetchRespected, NEW c \in Consumers, NEW t \in inflightTags[c],
         Release(c, t), session' = session
  PROVE  PrefetchRespected'
  <1> SUFFICES ASSUME NEW d \in Consumers, session'[d] = "open"
               PROVE  Cardinality(inflightTags'[d]) <= inflight'[d] /\ inflight'[d] <= Prefetch
    BY DEF PrefetchRespected
  <1>1. /\ inflightTags'[d] = IF d = c THEN inflightTags[d] \ {t} ELSE inflightTags[d]
        /\ inflight'[d] = IF d = c THEN inflight[d] - 1 ELSE inflight[d]
    BY DEF Release, TypeOK
  <1>2. Cardinality(inflightTags[d]) <= inflight[d] /\ inflight[d] <= Prefetch
    BY DEF PrefetchRespected
  <1>3. /\ IsFiniteSet(inflightTags[d]) /\ Cardinality(inflightTags[d]) \in Nat
        /\ inflight[d] \in Int /\ Prefetch \in Nat
    BY TagsFinite, PrefetchAssumption DEF TypeOK
  <1>4. d = c => Cardinality(inflightTags[d] \ {t}) = Cardinality(inflightTags[d]) - 1
    BY <1>3, FS_RemoveElement
  <1> QED BY <1>1, <1>2, <1>3, <1>4, SMT

\* Every step of the broker keeps the prefetch limit.
LEMMA PrefetchStep ==
  ASSUME TypeOK, Lifecycle, PendingIsRegistered, StartsEmpty, PrefetchRespected, [Next]_vars
  PROVE  StartsEmpty' /\ PrefetchRespected'
  <1>1. ASSUME UNCHANGED <<inflight, inflightTags, session>>,
               dpc' = "writing" => dpc = "writing" /\ dcons' = dcons
        PROVE  StartsEmpty' /\ PrefetchRespected'
    BY <1>1 DEF StartsEmpty, PrefetchRespected
  <1>2. CASE \/ UNCHANGED vars \/ DispatchWait \/ DispatchFull \/ DispatchPark \/ DeliverOk
             \/ \E m \in Msgs : PublishTag(m) \/ Enqueue(m)
             \/ \E c \in Consumers, m \in Msgs : AckLookup(c, m)
    BY <1>1, <1>2 DEF vars, consumerVars, dispatchVars, sessionVars, DispatchWait, DispatchFull,
         DispatchPark, DeliverOk, PublishTag, Enqueue, AckLookup, Signal, SignalTo
  <1>3. ASSUME NEW c \in Consumers, RegisterConsumer(c) PROVE StartsEmpty' /\ PrefetchRespected'
    <2>1. /\ UNCHANGED <<inflight, inflightTags, dcons>>
          /\ dpc' = "writing" => dpc = "writing"
          /\ session[c] = "new" /\ session' = [session EXCEPT ![c] = "open"]
      BY <1>3 DEF RegisterConsumer, consumerVars, Signal, SignalTo
    <2>2. inflightTags[c] = {} /\ inflight[c] = 0
      BY <2>1 DEF PendingIsRegistered, Lifecycle, Running, StartsEmpty
    <2>3. Cardinality({}) = 0
      BY FS_EmptySet
    <2>4. ASSUME NEW d \in Consumers, session'[d] = "open"
          PROVE  Cardinality(inflightTags'[d]) <= inflight'[d] /\ inflight'[d] <= Prefetch
      <3>1. CASE d = c
        BY <2>1, <2>2, <2>3, <3>1, PrefetchAssumption, SMT
      <3>2. CASE d # c
        <4>1. session[d] = "open"
          BY <2>1, <2>4, <3>2 DEF TypeOK
        <4> QED BY <2>1, <4>1 DEF PrefetchRespected
      <3> QED BY <3>1, <3>2
    <2>5. StartsEmpty'
      BY <2>1 DEF StartsEmpty, TypeOK
    <2> QED BY <2>4, <2>5 DEF PrefetchRespected
  <1>4. ASSUME NEW c \in Consumers, Break(c) PROVE StartsEmpty' /\ PrefetchRespected'
    BY <1>4 DEF Break, consumerVars, dispatchVars, StartsEmpty, PrefetchRespected, TypeOK
  <1>5. ASSUME NEW c \in Consumers, UnregisterConsumer(c)
        PROVE  StartsEmpty' /\ PrefetchRespected'
    <2>1. /\ \A d \in Consumers : d # c =>
              /\ inflight'[d] = inflight[d] /\ inflightTags'[d] = inflightTags[d]
              /\ session'[d] = session[d]
          /\ session'[c] = "closed" /\ dcons' = dcons
          /\ dpc' = "writing" => dpc = "writing"
      BY <1>5 DEF UnregisterConsumer, Signal, SignalTo, TypeOK
    <2> QED BY <2>1 DEF StartsEmpty, PrefetchRespected, TypeOK
  <1>6. ASSUME NEW c \in Consumers, DispatchTake(c) PROVE StartsEmpty' /\ PrefetchRespected'
    <2> DEFINE t == tagOf[Head(messages)]
    <2>1. Head(messages) \in Msgs
      BY <1>6, HeadTailProperties DEF DispatchTake, TypeOK
    <2>2. /\ t \in Tags /\ inflight[c] < Prefetch /\ c \in consumers
          /\ inflight' = [inflight EXCEPT ![c] = @ + 1]
          /\ inflightTags' = [inflightTags EXCEPT ![c] = @ \cup {t}]
          /\ session' = session /\ dcons' = c
      BY <1>6, <2>1 DEF DispatchTake, Free, sessionVars, TypeOK
    <2> HIDE DEF t
    <2>3. StartsEmpty'
      BY <2>2 DEF StartsEmpty, Lifecycle, Running, TypeOK
    <2>4. ASSUME NEW d \in Consumers, session'[d] = "open"
          PROVE  Cardinality(inflightTags'[d]) <= inflight'[d] /\ inflight'[d] <= Prefetch
      <3>1. Cardinality(inflightTags[d]) <= inflight[d] /\ inflight[d] <= Prefetch
        BY <2>2, <2>4 DEF PrefetchRespected
      <3>2. /\ IsFiniteSet(inflightTags[d]) /\ Cardinality(inflightTags[d]) \in Nat
            /\ inflight[d] \in Int /\ Prefetch \in Nat
        BY TagsFinite, PrefetchAssumption DEF TypeOK
      <3>3. /\ Cardinality(inflightTags[d] \cup {t}) \in Nat
            /\ Cardinality(inflightTags[d] \cup {t}) <= Cardinality(inflightTags[d]) + 1
        BY AddTag DEF TypeOK
      <3>5. CASE d = c
        <4>1. inflightTags'[d] = inflightTags[d] \cup {t} /\ inflight'[d] = inflight[d] + 1
          BY <2>2, <3>5 DEF TypeOK
        <4>2. Cardinality(inflightTags'[d]) <= inflight[d] + 1
          BY <3>1, <3>2, <3>3, <4>1, SMT
        <4>3. inflight[d] + 1 <= Prefetch
          BY <2>2, <3>2, <3>5, SMT
        <4> QED BY <4>1, <4>2, <4>3
      <3>6. CASE d # c
        BY <2>2, <3>1, <3>6 DEF TypeOK
      <3> QED BY <3>5, <3>6
    <2> QED BY <2>3, <2>4 DEF PrefetchRespected
  <1>7. CASE DeliverErr
    <2>1. /\ dcons \in Consumers /\ tagOf[dmsg] \in Tags /\ Release(dcons, tagOf[dmsg])
          /\ session[dcons] \notin {"open", "new"} /\ session' = session /\ dpc' = "run"
      BY <1>7 DEF DeliverErr, StartsEmpty, sessionVars, TypeOK
    <2>2. \A d \in Consumers : d # dcons =>
            inflight'[d] = inflight[d] /\ inflightTags'[d] = inflightTags[d]
      BY <2>1 DEF Release, TypeOK
    <2> QED BY <2>1, <2>2 DEF StartsEmpty, PrefetchRespected
  <1>8. ASSUME NEW c \in Consumers, Ack(c) PROVE StartsEmpty' /\ PrefetchRespected'
    <2>1. session' = session
      BY <1>8 DEF Ack, sessionVars
    <2>2. CASE UNCHANGED <<consumerVars, dispatchVars, settled>>
      BY <1>1, <2>1, <2>2 DEF consumerVars, dispatchVars
    <2>3. ASSUME NEW d \in consumers, tagOf[handler[c].msg] \in inflightTags[d],
                 Release(d, tagOf[handler[c].msg]), Signal
          PROVE  StartsEmpty' /\ PrefetchRespected'
      <3>1. d \in Consumers /\ session[d] # "new"
        BY DEF TypeOK, Lifecycle, Running
      <3>2. /\ \A e \in Consumers : e # d => inflight'[e] = inflight[e]
            /\ dcons' = dcons /\ (dpc' = "writing" => dpc = "writing")
        BY <2>3, <3>1 DEF Release, Signal, SignalTo, TypeOK
      <3>3. StartsEmpty'
        BY <2>1, <3>1, <3>2 DEF StartsEmpty
      <3> QED BY <2>1, <2>3, <3>1, <3>3, ReleasePrefetch
    <2> QED BY <1>8, <2>2, <2>3 DEF Ack
  <1>9. ASSUME NEW c \in Consumers, NEW m \in Msgs, NEW reply \in {"requeue", "drop"},
               NackTake(c, m, reply)
        PROVE  StartsEmpty' /\ PrefetchRespected'
    <2>1. /\ UNCHANGED <<session, dpc, dcons>> /\ session[c] # "new"
          /\ tagOf[m] \in Tags /\ Release(c, tagOf[m])
          /\ pendingMessages[c][tagOf[m]] # None
      BY <1>9 DEF NackTake, Running, dispatchVars, sessionVars, TypeOK
    <2>2. tagOf[m] \in inflightTags[c]
      BY <2>1, SMT DEF PendingIsRegistered
    <2>3. \A e \in Consumers : e # c => inflight'[e] = inflight[e]
      BY <2>1 DEF Release, TypeOK
    <2>4. StartsEmpty'
      BY <2>1, <2>3 DEF StartsEmpty
    <2> QED BY <2>1, <2>2, <2>4, ReleasePrefetch
  <1>10. CASE Publish
    BY <1>2, <1>10 DEF Publish
  <1>11. CASE Dispatch
    BY <1>2, <1>6, <1>7, <1>11 DEF Dispatch
  <1>12. ASSUME NEW c \in Consumers, Handle(c) PROVE StartsEmpty' /\ PrefetchRespected'
    <2>1. CASE RegisterConsumer(c) \/ Break(c) \/ UnregisterConsumer(c) \/ Ack(c)
      BY <1>3, <1>4, <1>5, <1>8, <2>1
    <2>2. CASE NackRequeue(c) \/ NackSignal(c)
      BY <1>1, <2>2 DEF NackRequeue, NackSignal, consumerVars, sessionVars, Signal, SignalTo
    <2>3. CASE \E m \in Msgs : AckLookup(c, m)
      BY <1>2, <2>3
    <2>4. CASE \E m \in Msgs : \E reply \in {"requeue", "drop"} : NackTake(c, m, reply)
      BY <1>9, <2>4
    <2> QED BY <1>12, <2>1, <2>2, <2>3, <2>4 DEF Handle
  <1> QED BY <1>2, <1>10, <1>11, <1>12 DEF Next

\* For every prefetch: a client on a working connection never holds more
\* unanswered deliveries than its prefetch, whatever was duplicated or nacked
\* while selectConsumer was choosing.
THEOREM PrefetchCorrect == Spec => []PrefetchRespected
  <1>1. Init => StartsEmpty /\ PrefetchRespected
    BY DEF Init, StartsEmpty, PrefetchRespected
  <1>2. TypeOK /\ Lifecycle /\ PendingIsRegistered /\ StartsEmpty /\ PrefetchRespected
          /\ [Next]_vars => StartsEmpty' /\ PrefetchRespected'
    BY PrefetchStep
  <1> QED BY <1>1, <1>2, TypeCorrect, PendingIsRegisteredCorrect, PTL DEF Spec

-----------------------------------------------------------------------------
(* No message is lost.  A step can only make the broker forget a message   *)
(* by overwriting or deleting a map entry under its tag, and when the tags *)
(* in play are distinct that entry is the message the step means.          *)


\* A message is held under its own tag.
LEMMA HeldAtTag ==
  ASSUME TypeOK, Lifecycle, NEW c \in Consumers, NEW n \in Msgs
  PROVE  n \in Held(c) <=> pendingMessages[c][tagOf[n]] = n
  <1>1. ASSUME n \in Held(c) PROVE pendingMessages[c][tagOf[n]] = n
    <2>1. PICK t \in Tags : pendingMessages[c][t] = n
      BY <1>1 DEF Held
    <2>2. tagOf[n] = t
      BY <2>1, NoneAssumption DEF Lifecycle
    <2> QED BY <2>1, <2>2
  <1>2. ASSUME pendingMessages[c][tagOf[n]] = n PROVE n \in Held(c)
    BY <1>2 DEF Held, TypeOK
  <1> QED BY <1>1, <1>2

\* A step that takes nothing away from the queue, the consumers or the nacks.
LEMMA StoredKept ==
  ASSUME NEW n \in Msgs, Stored(n),
         Range(messages) \subseteq Range(messages'), consumers \subseteq consumers',
         pendingMessages' = pendingMessages,
         \A c \in Consumers : handler[c].op = "requeue" => handler'[c] = handler[c]
  PROVE  Stored(n)'
  BY DEF Stored, Held

\* A session's goroutine that was idle had no nack to finish.
LEMMA OthersKeepNack ==
  ASSUME TypeOK, NEW c \in Consumers, NEW h,
         handler[c] = Idle, handler' = [handler EXCEPT ![c] = h]
  PROVE  \A d \in Consumers : handler[d].op = "requeue" => handler'[d] = handler[d]
  <1>1. handler[c].op # "requeue"
    BY SMT DEF Idle
  <1>2. \A d \in Consumers : d # c => handler'[d] = handler[d]
    BY DEF TypeOK
  <1> QED BY <1>1, <1>2

\* A release forgets no message but the one under the released tag.
LEMMA StoredReleased ==
  ASSUME TypeOK, TypeOK', Lifecycle, Lifecycle', LiveTagsDistinct,
         NEW c \in Consumers, NEW m \in Msgs, InPlay(m), Release(c, tagOf[m]),
         NEW n \in Msgs, Stored(n), n # m,
         Range(messages) \subseteq Range(messages'), consumers' = consumers, tagOf' = tagOf,
         \A d \in Consumers : handler[d].op = "requeue" => handler'[d] = handler[d]
  PROVE  Stored(n)'
  <1>1. CASE n \in Range(messages)
    BY <1>1 DEF Stored
  <1>2. CASE \E d \in Consumers : handler[d].op = "requeue" /\ handler[d].msg = n
    BY <1>2 DEF Stored
  <1>3. ASSUME NEW d \in consumers, n \in Held(d) PROVE Stored(n)'
    <2>1. d \in Consumers /\ tagOf[m] \in Tags /\ tagOf[n] \in Tags
      BY DEF TypeOK
    <2>2. tagOf[n] # tagOf[m]
      BY DEF LiveTagsDistinct, InPlay
    <2>3. pendingMessages[d][tagOf[n]] = n
      BY <1>3, <2>1, HeldAtTag
    <2>4. pendingMessages'[d][tagOf[n]] = n
      BY <2>1, <2>2, <2>3, ReleaseEffect, SMT
    <2> QED BY <2>1, <2>4 DEF Stored, Held
  <1> QED BY <1>1, <1>2, <1>3 DEF Stored

\* What a client settled stays settled.
LEMMA SettledGrows ==
  ASSUME [Next]_vars
  PROVE  settled \subseteq settled'
  BY DEF Next, Publish, Dispatch, Handle, PublishTag, Enqueue, RegisterConsumer, Break,
         UnregisterConsumer, DispatchWait, DispatchFull, DispatchPark, DispatchTake, DeliverOk,
         DeliverErr, AckLookup, Ack, NackTake, NackRequeue, NackSignal, vars, clientVars

\* The heart of NoLoss: an unsettled message stays stored through every step.
LEMMA StoredStep ==
  ASSUME TypeOK, TypeOK', Lifecycle, Lifecycle', PendingIsRegistered, LiveTagsDistinct,
         [Next]_vars, NEW n \in Msgs, n \notin settled',
         stage[n] \in {"queued", "sent"} => Stored(n),
         stage'[n] \in {"queued", "sent"}
  PROVE  Stored(n)'
  <1>1. CASE UNCHANGED vars
    BY <1>1 DEF vars, publishVars, consumerVars, sessionVars, Stored, Held
  <1>2. ASSUME NEW m \in Msgs, PublishTag(m) PROVE Stored(n)'
    <2>1. n # m /\ stage'[n] = stage[n]
      BY <1>2 DEF PublishTag, TypeOK
    <2> QED BY <1>2, <2>1, StoredKept DEF PublishTag, consumerVars, sessionVars
  <1>3. ASSUME NEW m \in Msgs, Enqueue(m) PROVE Stored(n)'
    <2>1. Range(messages') = Range(messages) \cup {m}
      BY <1>3, AppendRange, SMT DEF Enqueue, TypeOK
    <2>2. CASE n = m
      BY <2>1, <2>2 DEF Stored
    <2>3. CASE n # m
      <3>1. stage'[n] = stage[n]
        BY <1>3, <2>3 DEF Enqueue, TypeOK
      <3> QED BY <1>3, <2>1, <3>1, StoredKept DEF Enqueue, consumerVars, sessionVars
    <2> QED BY <2>2, <2>3
  <1>4. ASSUME NEW c \in Consumers, RegisterConsumer(c) PROVE Stored(n)'
    BY <1>4, StoredKept DEF RegisterConsumer, publishVars, consumerVars
  <1>5. ASSUME NEW c \in Consumers, Break(c) PROVE Stored(n)'
    BY <1>5, StoredKept DEF Break, publishVars, consumerVars
  <1>6. ASSUME NEW c \in Consumers, UnregisterConsumer(c) PROVE Stored(n)'
    <2>1. PICK requeued \in Orders(Held(c)) : messages' = requeued \o messages
      BY <1>6 DEF UnregisterConsumer
    <2>2. Range(messages') = Held(c) \cup Range(messages)
      <3>1. requeued \in Seq(Held(c)) /\ Range(requeued) = Held(c)
        BY HeldType, OrderOf
      <3>2. requeued \in Seq(Msgs) /\ messages \in Seq(Msgs)
        BY <3>1, HeldType, SeqMonotonic DEF TypeOK
      <3> QED BY <2>1, <3>1, <3>2, ConcatRange, SMT
    <2>3. Stored(n)
      BY <1>6 DEF UnregisterConsumer, publishVars
    <2>4. /\ handler' = handler /\ consumers' = consumers \ {c}
          /\ pendingMessages' = [pendingMessages EXCEPT ![c] = [t \in Tags |-> None]]
      BY <1>6 DEF UnregisterConsumer
    <2>5. ASSUME NEW d \in consumers, d # c, n \in Held(d) PROVE Stored(n)'
      <3>1. pendingMessages'[d] = pendingMessages[d] /\ d \in consumers'
        BY <2>4, <2>5 DEF TypeOK
      <3> QED BY <2>5, <3>1 DEF Stored, Held
    <2> QED BY <2>2, <2>3, <2>4, <2>5 DEF Stored
  <1>7. CASE DispatchWait \/ DispatchFull \/ DispatchPark \/ DeliverOk
    BY <1>7, StoredKept DEF DispatchWait, DispatchFull, DispatchPark, DeliverOk, publishVars,
                            consumerVars, sessionVars
  <1>8. ASSUME NEW c \in Consumers, DispatchTake(c) PROVE Stored(n)'
    <2> DEFINE m == Head(messages)
    <2>1. /\ UNCHANGED <<tagOf, consumers, handler>>
          /\ c \in consumers /\ messages # <<>> /\ messages' = Tail(messages)
          /\ pendingMessages' = [pendingMessages EXCEPT ![c][tagOf[m]] = m]
          /\ stage' = [stage EXCEPT ![m] = "sent"]
      BY <1>8 DEF DispatchTake, sessionVars
    <2>2. m \in Range(messages) /\ Range(messages) = {m} \cup Range(messages')
      BY <2>1, TailRange DEF TypeOK
    <2>3. m \in Msgs
      BY <2>1, HeadTailProperties DEF TypeOK
    <2>4. \A d \in Consumers, t \in Tags : pendingMessages'[d][t] =
            IF d = c /\ t = tagOf[m] THEN m ELSE pendingMessages[d][t]
      BY <2>1, <2>3 DEF TypeOK
    <2> HIDE DEF m
    <2>5. CASE n = m
      BY <2>1, <2>3, <2>4, <2>5 DEF Stored, Held, TypeOK
    <2>6. CASE n # m
      <3>1. Stored(n)
        BY <2>1, <2>3, <2>6 DEF TypeOK
      <3>2. tagOf[n] # tagOf[m]
        BY <2>2, <2>3, <2>6, <3>1 DEF LiveTagsDistinct, InPlay, Stored
      <3>3. ASSUME NEW d \in consumers, n \in Held(d) PROVE Stored(n)'
        <4>1. d \in Consumers /\ tagOf[n] \in Tags
          BY DEF TypeOK
        <4>2. pendingMessages'[d][tagOf[n]] = n
          BY <2>4, <3>2, <3>3, <4>1, HeldAtTag, SMT
        <4> QED BY <2>1, <4>1, <4>2 DEF Stored, Held
      <3> QED BY <2>1, <2>2, <2>6, <3>1, <3>3 DEF Stored
    <2> QED BY <2>5, <2>6
  <1>9. CASE DeliverErr
    <2>1. /\ dpc = "writing" /\ dcons \in Consumers /\ dmsg \in Msgs
          /\ Release(dcons, tagOf[dmsg]) /\ messages' = <<dmsg>> \o messages
          /\ UNCHANGED <<stage, tagOf, consumers, handler>>
      BY <1>9 DEF DeliverErr, Prepend, TypeOK, publishVars, sessionVars
    <2>2. Range(messages') = {dmsg} \cup Range(messages)
      BY <2>1, PrependRange, SMT DEF TypeOK
    <2>3. InPlay(dmsg)
      BY DEF InPlay
    <2>4. CASE n = dmsg
      BY <2>2, <2>4 DEF Stored
    <2>5. CASE n # dmsg
      BY <2>1, <2>2, <2>3, <2>5, StoredReleased
    <2> QED BY <2>4, <2>5
  <1>10. ASSUME NEW c \in Consumers, NEW m \in Msgs, AckLookup(c, m) PROVE Stored(n)'
    <2>1. \A d \in Consumers : handler[d].op = "requeue" => handler'[d] = handler[d]
      <3>1. /\ handler[c] = Idle
            /\ handler' = [handler EXCEPT ![c] = [op |-> "ack", msg |-> m]]
        BY <1>10 DEF AckLookup
      <3> QED BY <3>1, OthersKeepNack
    <2> QED BY <1>10, <2>1, StoredKept DEF AckLookup, publishVars, consumerVars, sessionVars
  <1>11. ASSUME NEW c \in Consumers, Ack(c) PROVE Stored(n)'
    <2> DEFINE m == handler[c].msg
    <2>1. /\ UNCHANGED <<messages, stage, tagOf, consumers>>
          /\ handler[c].op = "ack" /\ handler' = [handler EXCEPT ![c] = Idle]
      BY <1>11 DEF Ack, publishVars, sessionVars
    <2>2. m \in Msgs /\ InPlay(m)
      BY <2>1 DEF InPlay, TypeOK, Handlers
    <2>3. \A d \in Consumers : handler[d].op = "requeue" => handler'[d] = handler[d]
      BY <2>1 DEF TypeOK
    <2>4. Stored(n)
      BY <2>1
    <2>5. CASE UNCHANGED <<consumerVars, dispatchVars, settled>>
      BY <2>1, <2>3, <2>4, <2>5, StoredKept DEF consumerVars
    <2>6. ASSUME NEW d \in consumers, Release(d, tagOf[m]), settled' = settled \cup {m}
          PROVE  Stored(n)'
      <3>1. n # m /\ d \in Consumers
        BY <2>6 DEF TypeOK
      <3> HIDE DEF m
      <3> QED BY <2>1, <2>2, <2>3, <2>4, <2>6, <3>1, StoredReleased
    <2> QED BY <1>11, <2>5, <2>6 DEF Ack
  <1>12. ASSUME NEW c \in Consumers, NEW m \in Msgs, NEW reply \in {"requeue", "drop"},
                NackTake(c, m, reply)
         PROVE  Stored(n)'
    <2> DEFINE held == pendingMessages[c][tagOf[m]]
    <2>1. /\ UNCHANGED <<messages, stage, tagOf, consumers>>
          /\ Running(c) /\ handler[c] = Idle /\ held # None /\ tagOf[m] \in Tags
          /\ Release(c, tagOf[m]) /\ m \in received[c]
      BY <1>12 DEF NackTake, Answers, publishVars, sessionVars, TypeOK
    <2>2. InPlay(m)
      BY <2>1 DEF InPlay
    <2>3. held \in Msgs /\ tagOf[held] = tagOf[m] /\ c \in consumers
      <3>1. held \in Msgs
        <4>1. pendingMessages[c] \in [Tags -> Msgs \cup {None}]
          BY DEF TypeOK
        <4> QED BY <2>1, <4>1
      <3>2. tagOf[held] = tagOf[m]
        BY <2>1 DEF Lifecycle
      <3>3. c \in consumers
        BY <2>1 DEF Lifecycle
      <3> QED BY <3>1, <3>2, <3>3
    <2>4. InPlay(held)
      BY <2>1, <2>3 DEF InPlay, Stored, Held
    <2>5. held = m
      BY <2>2, <2>3, <2>4 DEF LiveTagsDistinct
    <2> HIDE DEF held
    <2>6. PICK h \in {[op |-> "requeue", msg |-> held], [op |-> "signal", msg |-> None]} :
            /\ handler' = [handler EXCEPT ![c] = h]
            /\ h.op = "signal" => m \in settled'
      BY <1>12 DEF NackTake, held
    <2>7. \A d \in Consumers : handler[d].op = "requeue" => handler'[d] = handler[d]
      BY <2>1, <2>6, OthersKeepNack
    <2>8. CASE n = m
      <3>1. h = [op |-> "requeue", msg |-> m]
        <4>1. h.op # "signal"
          BY <2>6, <2>8
        <4>2. h # [op |-> "signal", msg |-> None]
          BY <4>1, SMT
        <4> QED BY <2>5, <2>6, <4>2
      <3>2. handler'[c].op = "requeue" /\ handler'[c].msg = m
        BY <2>6, <3>1 DEF TypeOK
      <3> QED BY <2>8, <3>2 DEF Stored
    <2>9. CASE n # m
      BY <2>1, <2>2, <2>7, <2>9, StoredReleased
    <2> QED BY <2>8, <2>9
  <1>13. ASSUME NEW c \in Consumers, NackRequeue(c) PROVE Stored(n)'
    <2> DEFINE m == handler[c].msg
    <2>1. /\ UNCHANGED <<stage, pendingMessages, consumers>>
          /\ handler[c].op = "requeue" /\ m \in Msgs
          /\ handler' = [handler EXCEPT ![c] = Idle]
          /\ messages' = <<m>> \o messages
      BY <1>13 DEF NackRequeue, Prepend, publishVars, consumerVars, sessionVars, TypeOK, Handlers
    <2>2. Range(messages') = {m} \cup Range(messages)
      <3> HIDE DEF m
      <3>1. messages \in Seq(Msgs)
        BY DEF TypeOK
      <3> QED BY <2>1, <3>1, PrependRange
    <2>3. \A d \in Consumers : d # c => handler'[d] = handler[d]
      BY <2>1 DEF TypeOK
    <2> QED BY <2>1, <2>2, <2>3 DEF Stored, Held
  <1>14. ASSUME NEW c \in Consumers, NackSignal(c) PROVE Stored(n)'
    <2>1. \A d \in Consumers : handler[d].op = "requeue" => handler'[d] = handler[d]
      BY <1>14 DEF NackSignal, TypeOK
    <2> QED BY <1>14, <2>1, StoredKept DEF NackSignal, publishVars, consumerVars, sessionVars
  <1> QED BY <1>1, <1>2, <1>3, <1>4, <1>5, <1>6, <1>7, <1>8, <1>9, <1>10, <1>11, <1>12,
             <1>13, <1>14 DEF Next, Publish, Dispatch, Handle

\* At-least-once for queues, consumers and tags of any size: unless the uint16
\* wrap gives a message the tag of another one still in play, no disconnect,
\* failed write, ack or nack makes the broker forget an unsettled message.
THEOREM NoLossCorrect == Spec => NoLossUnlessTagClash
  <1>1. Init => NoLoss
    BY DEF Init, NoLoss
  <1>2. /\ TypeOK /\ TypeOK' /\ Lifecycle /\ Lifecycle' /\ PendingIsRegistered
        /\ LiveTagsDistinct /\ NoLoss /\ [Next]_vars
        => NoLoss'
    <2> SUFFICES ASSUME TypeOK, TypeOK', Lifecycle, Lifecycle', PendingIsRegistered,
                        LiveTagsDistinct, NoLoss, [Next]_vars,
                        NEW n \in Msgs, stage'[n] \in {"queued", "sent"}, n \notin settled'
                 PROVE  Stored(n)'
      BY DEF NoLoss
    <2>1. n \notin settled
      BY SettledGrows
    <2>2. stage[n] \in {"queued", "sent"} => Stored(n)
      BY <2>1 DEF NoLoss
    <2> QED BY <2>2, StoredStep
  <1> QED BY <1>1, <1>2, TypeCorrect, PendingIsRegisteredCorrect, PTL
          DEF Spec, NoLossUnlessTagClash

-----------------------------------------------------------------------------
(* First dispatch in the order of arrival.  Everything put back at the head *)
(* was sent before, and only the oldest message never sent becomes sent.    *)

\* Each message arrives once, and has arrived when it is queued or sent.
Arrived ==
  /\ \A m \in Msgs : stage[m] \in {"queued", "sent"} <=> m \in Range(arrivals)
  /\ \A i, j \in DOMAIN arrivals : arrivals[i] = arrivals[j] => i = j

\* The first k messages of the queue were sent before, and the others are what
\* arrived after the first j.
FreshTail(k, j) ==
  /\ k \in 0 .. Len(messages) /\ j \in 0 .. Len(arrivals)
  /\ Len(messages) - k = Len(arrivals) - j
  /\ \A i \in 1 .. k : stage[messages[i]] # "queued"
  /\ \A i \in 1 .. Len(arrivals) : stage[arrivals[i]] = "queued" <=> i > j
  /\ \A i \in 1 .. Len(messages) - k : messages[k + i] = arrivals[j + i]

\* Two sequences have the same tail when they agree there position by position.
LEMMA SameTail ==
  ASSUME NEW s \in Seq(Msgs), NEW r \in Seq(Msgs), NEW k \in 0 .. Len(s), NEW j \in 0 .. Len(r)
  PROVE  SubSeq(s, k + 1, Len(s)) = SubSeq(r, j + 1, Len(r)) <=>
           /\ Len(s) - k = Len(r) - j
           /\ \A i \in 1 .. Len(s) - k : s[k + i] = r[j + i]
  <1> DEFINE p == SubSeq(s, k + 1, Len(s))
             q == SubSeq(r, j + 1, Len(r))
  <1>1. Len(s) \in Nat /\ Len(r) \in Nat /\ k \in Nat /\ j \in Nat /\ k <= Len(s) /\ j <= Len(r)
    BY LenProperties, SMT
  <1>2. /\ \A i \in k + 1 .. Len(s) : s[i] \in Msgs
        /\ \A i \in j + 1 .. Len(r) : r[i] \in Msgs
    BY <1>1, ElementOfSeq, SMT
  <1>3. /\ p \in Seq(Msgs)
        /\ Len(p) = IF k + 1 <= Len(s) THEN Len(s) - (k + 1) + 1 ELSE 0
        /\ \A i \in 1 .. Len(s) - (k + 1) + 1 : p[i] = s[k + 1 + i - 1]
    <2>1. k + 1 \in Int /\ Len(s) \in Int
      BY <1>1, SMT
    <2> QED BY <1>2, <2>1, SubSeqProperties, SMT
  <1>4. /\ q \in Seq(Msgs)
        /\ Len(q) = IF j + 1 <= Len(r) THEN Len(r) - (j + 1) + 1 ELSE 0
        /\ \A i \in 1 .. Len(r) - (j + 1) + 1 : q[i] = r[j + 1 + i - 1]
    <2>1. j + 1 \in Int /\ Len(r) \in Int
      BY <1>1, SMT
    <2> QED BY <1>2, <2>1, SubSeqProperties, SMT
  <1> HIDE DEF p, q
  <1>5. /\ Len(p) = Len(s) - k /\ \A i \in 1 .. Len(s) - k : p[i] = s[k + i]
        /\ Len(q) = Len(r) - j /\ \A i \in 1 .. Len(r) - j : q[i] = r[j + i]
    BY <1>1, <1>3, <1>4, SMT
  <1>6. p = q <=> Len(p) = Len(q) /\ \A i \in 1 .. Len(p) : p[i] = q[i]
    BY <1>3, <1>4, SeqEqual
  <1>7. p = q <=> Len(s) - k = Len(r) - j /\ \A i \in 1 .. Len(s) - k : s[k + i] = r[j + i]
    <2>1. Len(p) = Len(q) <=> Len(s) - k = Len(r) - j
      BY <1>5
    <2>2. ASSUME Len(p) = Len(q)
          PROVE  (\A i \in 1 .. Len(p) : p[i] = q[i])
                   <=> (\A i \in 1 .. Len(s) - k : s[k + i] = r[j + i])
      <3>1. 1 .. Len(p) = 1 .. Len(s) - k /\ 1 .. Len(r) - j = 1 .. Len(s) - k
        BY <1>5, <2>2
      <3>2. \A i \in 1 .. Len(s) - k : p[i] = s[k + i] /\ q[i] = r[j + i]
        BY <1>5, <3>1
      <3> QED BY <3>1, <3>2
    <2> QED BY <1>6, <2>1, <2>2
  <1> QED BY <1>7 DEF p, q

InOrder == \E k, j \in Nat : FreshTail(k, j)

LEMMA OrderIs == TypeOK => (InOrder <=> FirstDispatchInOrder)
  <1> SUFFICES ASSUME TypeOK PROVE InOrder <=> FirstDispatchInOrder
    OBVIOUS
  <1>1. messages \in Seq(Msgs) /\ arrivals \in Seq(Msgs)
    BY DEF TypeOK
  <1>2. Len(messages) \in Nat /\ Len(arrivals) \in Nat
    BY <1>1, LenProperties
  <1>3. ASSUME NEW k \in 0 .. Len(messages), NEW j \in 0 .. Len(arrivals)
        PROVE  /\ k \in Nat /\ j \in Nat
               /\ FreshTail(k, j) <=>
                    /\ \A i \in 1 .. k : ~Fresh(messages[i])
                    /\ \A i \in 1 .. Len(arrivals) : Fresh(arrivals[i]) <=> i > j
                    /\ SubSeq(messages, k + 1, Len(messages)) =
                         SubSeq(arrivals, j + 1, Len(arrivals))
    <2>1. SubSeq(messages, k + 1, Len(messages)) = SubSeq(arrivals, j + 1, Len(arrivals)) <=>
            /\ Len(messages) - k = Len(arrivals) - j
            /\ \A i \in 1 .. Len(messages) - k : messages[k + i] = arrivals[j + i]
      BY <1>1, SameTail
    <2>2. k \in Nat /\ j \in Nat
      BY <1>2, SMT
    <2> QED BY <2>1, <2>2 DEF FreshTail, Fresh
  <1>4. ASSUME NEW k \in Nat, NEW j \in Nat, FreshTail(k, j)
        PROVE  k \in 0 .. Len(messages) /\ j \in 0 .. Len(arrivals)
    BY <1>4 DEF FreshTail
  <1> QED BY <1>3, <1>4 DEF FirstDispatchInOrder, InOrder

\* Nothing moves in the queue and nothing is dispatched.
LEMMA OrderKept ==
  ASSUME NEW k, NEW j, FreshTail(k, j), TypeOK, messages' = messages, arrivals' = arrivals,
         \A m \in Msgs : stage'[m] = "queued" <=> stage[m] = "queued"
  PROVE  FreshTail(k, j)'
  <1>1. /\ \A i \in 1 .. Len(messages) : messages[i] \in Msgs
        /\ \A i \in 1 .. Len(arrivals) : arrivals[i] \in Msgs
        /\ Len(messages) \in Nat /\ Len(arrivals) \in Nat
    BY ElementOfSeq, LenProperties DEF TypeOK
  <1>2. \A i \in 1 .. k : messages[i] \in Msgs
    BY <1>1, SMT DEF FreshTail
  <1>3. \A i \in 1 .. k : stage'[messages[i]] # "queued"
    BY <1>2 DEF FreshTail
  <1>4. \A i \in 1 .. Len(arrivals) : stage'[arrivals[i]] = "queued" <=> i > j
    BY <1>1 DEF FreshTail
  <1> QED BY <1>3, <1>4 DEF FreshTail

\* What was sent before goes to the head.
LEMMA OrderRequeued ==
  ASSUME NEW k \in Nat, NEW j \in Nat, FreshTail(k, j), TypeOK, NEW s \in Seq(Msgs),
         messages' = s \o messages, arrivals' = arrivals, stage' = stage,
         \A i \in 1 .. Len(s) : stage[s[i]] = "sent"
  PROVE  FreshTail(Len(s) + k, j)'
  <1>1. /\ Len(s) \in Nat /\ Len(messages) \in Nat /\ Len(arrivals) \in Nat
        /\ messages \in Seq(Msgs)
    BY LenProperties DEF TypeOK
  <1>2. /\ Len(messages') = Len(s) + Len(messages)
        /\ \A i \in 1 .. Len(s) + Len(messages) :
             messages'[i] = IF i <= Len(s) THEN s[i] ELSE messages[i - Len(s)]
    BY <1>1, ConcatProperties
  <1>3. /\ k <= Len(messages) /\ Len(messages) - k = Len(arrivals) - j
        /\ \A i \in 1 .. k : stage[messages[i]] # "queued"
        /\ \A i \in 1 .. Len(messages) - k : messages[k + i] = arrivals[j + i]
        /\ j \in 0 .. Len(arrivals)
        /\ \A i \in 1 .. Len(arrivals) : stage[arrivals[i]] = "queued" <=> i > j
    BY SMT DEF FreshTail
  <1>4. ASSUME NEW i \in 1 .. Len(s) + k PROVE stage[messages'[i]] # "queued"
    <2>1. CASE i <= Len(s)
      <3>1. i \in 1 .. Len(s) /\ messages'[i] = s[i]
        BY <1>1, <1>2, <1>3, <2>1, SMT
      <3> QED BY <3>1
    <2>2. CASE ~(i <= Len(s))
      <3>1. i - Len(s) \in 1 .. k /\ messages'[i] = messages[i - Len(s)]
        BY <1>1, <1>2, <1>3, <2>2, SMT
      <3> QED BY <3>1, <1>3
    <2> QED BY <2>1, <2>2
  <1>5. ASSUME NEW i \in 1 .. Len(messages) - k
        PROVE  messages'[Len(s) + k + i] = arrivals[j + i]
    <2>1. messages'[Len(s) + k + i] = messages[k + i]
      BY <1>1, <1>2, <1>3, SMT
    <2> QED BY <1>3, <2>1
  <1>6. /\ Len(s) + k \in 0 .. Len(messages')
        /\ Len(messages') - (Len(s) + k) = Len(messages) - k
    BY <1>1, <1>2, <1>3, SMT
  <1> QED BY <1>3, <1>4, <1>5, <1>6 DEF FreshTail

\* What is at each place after an append.
LEMMA AppendAt ==
  ASSUME NEW s \in Seq(Msgs), NEW m \in Msgs
  PROVE  /\ Len(Append(s, m)) = Len(s) + 1 /\ Append(s, m)[Len(s) + 1] = m
         /\ \A i \in 1 .. Len(s) : Append(s, m)[i] = s[i]
  BY SMT

\* A message arrives: it is the last of those never sent.
LEMMA OrderEnqueue ==
  ASSUME NEW k \in Nat, NEW j \in Nat, FreshTail(k, j), TypeOK, Arrived, Lifecycle,
         NEW m \in Msgs, Enqueue(m)
  PROVE  FreshTail(k, j)' /\ Arrived'
  <1>1. /\ messages \in Seq(Msgs) /\ arrivals \in Seq(Msgs)
        /\ messages' = Append(messages, m) /\ arrivals' = Append(arrivals, m)
        /\ stage[m] = "tagged" /\ stage' = [stage EXCEPT ![m] = "queued"]
    BY DEF Enqueue, TypeOK
  <1>2. \A n \in Msgs : stage'[n] = IF n = m THEN "queued" ELSE stage[n]
    BY <1>1 DEF TypeOK
  <1>3. /\ Len(messages') = Len(messages) + 1 /\ messages'[Len(messages) + 1] = m
        /\ \A i \in 1 .. Len(messages) : messages'[i] = messages[i]
    BY <1>1, AppendAt
  <1>4. /\ Len(arrivals') = Len(arrivals) + 1 /\ arrivals'[Len(arrivals) + 1] = m
        /\ \A i \in 1 .. Len(arrivals) : arrivals'[i] = arrivals[i]
    BY <1>1, AppendAt
  <1>5. Len(messages) \in Nat /\ Len(arrivals) \in Nat
    BY <1>1, LenProperties
  <1>6. /\ \A i \in 1 .. Len(messages) : messages[i] \in Msgs /\ messages[i] # m
        /\ \A i \in 1 .. Len(arrivals) : arrivals[i] \in Msgs /\ arrivals[i] # m
    <2>1. /\ \A i \in 1 .. Len(messages) : messages[i] \in Msgs /\ messages[i] \in Range(messages)
          /\ \A i \in 1 .. Len(arrivals) : arrivals[i] \in Msgs /\ arrivals[i] \in Range(arrivals)
      BY <1>1, ElementOfSeq, LenProperties DEF Range
    <2>2. m \notin Range(messages) /\ m \notin Range(arrivals)
      BY <1>1 DEF Lifecycle, Arrived
    <2> QED BY <2>1, <2>2
  <1>7. /\ k <= Len(messages) /\ Len(messages) - k = Len(arrivals) - j
        /\ \A i \in 1 .. k : stage[messages[i]] # "queued"
        /\ \A i \in 1 .. Len(messages) - k : messages[k + i] = arrivals[j + i]
        /\ j <= Len(arrivals)
        /\ \A i \in 1 .. Len(arrivals) : stage[arrivals[i]] = "queued" <=> i > j
    BY SMT DEF FreshTail
  <1>8. k <= Len(messages) /\ j <= Len(arrivals) /\ Len(messages) - k = Len(arrivals) - j
    BY <1>7
  <1>9. Len(messages') = Len(messages) + 1 /\ Len(arrivals') = Len(arrivals) + 1
    BY <1>3, <1>4
  <1>10. \A i \in 1 .. k : stage'[messages'[i]] # "queued"
    <2>1. \A i \in 1 .. k : i \in 1 .. Len(messages)
      BY <1>5, <1>7, SMT
    <2> QED BY <2>1, <1>2, <1>3, <1>6, <1>7, SMT
  <1>11. ASSUME NEW i \in 1 .. Len(arrivals') PROVE stage'[arrivals'[i]] = "queued" <=> i > j
    <2>1. CASE i \in 1 .. Len(arrivals)
      <3>1. arrivals'[i] = arrivals[i] /\ arrivals[i] \in Msgs /\ arrivals[i] # m
        BY <2>1, <1>4, <1>6
      <3>2. stage'[arrivals'[i]] = stage[arrivals[i]]
        BY <3>1, <1>2
      <3> QED BY <2>1, <3>2, <1>7
    <2>2. CASE i = Len(arrivals) + 1
      <3>1. i > j
        BY <2>2, <1>5, <1>7, SMT
      <3> QED BY <2>2, <3>1, <1>2, <1>4
    <2> QED BY <2>1, <2>2, <1>4, <1>5, SMT
  <1>12. ASSUME NEW i \in 1 .. Len(messages') - k PROVE messages'[k + i] = arrivals'[j + i]
    <2>1. CASE i \in 1 .. Len(messages) - k
      <3>1. k + i \in 1 .. Len(messages) /\ j + i \in 1 .. Len(arrivals)
        BY <2>1, <1>5, <1>7, SMT
      <3> QED BY <2>1, <3>1, <1>3, <1>4, <1>7
    <2>2. CASE i = Len(messages) - k + 1
      <3>1. k + i = Len(messages) + 1 /\ j + i = Len(arrivals) + 1
        BY <2>2, <1>5, <1>8, SMT
      <3> QED BY <3>1, <1>3, <1>4
    <2> QED BY <2>1, <2>2, <1>3, <1>5, <1>7, SMT
  <1>13. /\ k \in 0 .. Len(messages') /\ j \in 0 .. Len(arrivals')
         /\ Len(messages') - k = Len(arrivals') - j
    BY <1>5, <1>8, <1>9, SMT
  <1>14. FreshTail(k, j)'
    BY <1>10, <1>11, <1>12, <1>13 DEF FreshTail
  <1>15. Range(arrivals') = Range(arrivals) \cup {m}
    BY <1>1, AppendRange, SMT
  <1>16. \A n \in Msgs : stage'[n] \in {"queued", "sent"} <=> n \in Range(arrivals')
    BY <1>1, <1>2, <1>15 DEF Arrived
  <1>17. ASSUME NEW a \in DOMAIN arrivals', NEW b \in DOMAIN arrivals', arrivals'[a] = arrivals'[b]
         PROVE  a = b
    <2>1. DOMAIN arrivals = 1 .. Len(arrivals) /\ DOMAIN arrivals' = 1 .. Len(arrivals) + 1
      BY <1>1, <1>4, LenProperties, AppendProperties
    <2>2. /\ a \in 1 .. Len(arrivals) \/ a = Len(arrivals) + 1
          /\ b \in 1 .. Len(arrivals) \/ b = Len(arrivals) + 1
      BY <2>1, <1>5, SMT
    <2> QED BY <2>1, <2>2, <1>4, <1>6, <1>17 DEF Arrived
  <1> QED BY <1>14, <1>16, <1>17 DEF Arrived

\* A message that is taken has arrived.
LEMMA OrderTakeArrived ==
  ASSUME TypeOK, Arrived, Lifecycle, NEW c \in Consumers, DispatchTake(c)
  PROVE  Arrived'
  <1>1. /\ messages \in Seq(Msgs) /\ messages # <<>> /\ arrivals' = arrivals
        /\ stage' = [stage EXCEPT ![Head(messages)] = "sent"]
    BY DEF DispatchTake, TypeOK
  <1>2. Head(messages) \in Msgs /\ stage[Head(messages)] \in {"queued", "sent"}
    BY <1>1, TailRange, HeadTailProperties DEF Lifecycle
  <1>3. \A n \in Msgs : stage'[n] = IF n = Head(messages) THEN "sent" ELSE stage[n]
    BY <1>1, <1>2 DEF TypeOK
  <1> QED BY <1>1, <1>2, <1>3 DEF Arrived

\* dispatchLoop takes the head: one that was sent before, or the oldest of
\* those that were not.
LEMMA OrderTake ==
  ASSUME NEW k \in Nat, NEW j \in Nat, FreshTail(k, j), TypeOK, Arrived, Lifecycle,
         NEW c \in Consumers, DispatchTake(c)
  PROVE  (\E x, y \in Nat : FreshTail(x, y)') /\ Arrived'
  <1> DEFINE m == Head(messages)
  <1>1. /\ messages \in Seq(Msgs) /\ arrivals \in Seq(Msgs) /\ messages # <<>>
        /\ messages' = Tail(messages) /\ arrivals' = arrivals
        /\ stage' = [stage EXCEPT ![m] = "sent"]
    BY DEF DispatchTake, TypeOK
  <1>2. /\ m \in Msgs /\ m = messages[1] /\ Len(messages') = Len(messages) - 1
        /\ \A i \in 1 .. Len(messages) - 1 : messages'[i] = messages[i + 1]
    BY <1>1, HeadTailProperties, SMT
  <1>3. \A n \in Msgs : stage'[n] = IF n = m THEN "sent" ELSE stage[n]
    BY <1>1, <1>2 DEF TypeOK
  <1>4. Len(messages) \in Nat \ {0} /\ Len(arrivals) \in Nat /\ DOMAIN arrivals = 1 .. Len(arrivals)
    BY <1>1, EmptySeq, LenProperties
  <1>5. /\ \A i \in 1 .. Len(messages) : messages[i] \in Msgs
        /\ \A i \in 1 .. Len(arrivals) : arrivals[i] \in Msgs
    BY <1>1, ElementOfSeq
  <1>6. /\ k <= Len(messages) /\ Len(messages) - k = Len(arrivals) - j
        /\ \A i \in 1 .. k : stage[messages[i]] # "queued"
        /\ \A i \in 1 .. Len(messages) - k : messages[k + i] = arrivals[j + i]
        /\ j <= Len(arrivals)
        /\ \A i \in 1 .. Len(arrivals) : stage[arrivals[i]] = "queued" <=> i > j
    BY SMT DEF FreshTail
  <1> HIDE DEF m
  <1>7. CASE k # 0
    <2>1. k - 1 \in Nat /\ 1 \in 1 .. k /\ stage[m] # "queued"
      BY <1>2, <1>6, <1>7, SMT
    <2>2. \A n \in Msgs : stage'[n] = "queued" <=> stage[n] = "queued"
      BY <1>3, <2>1
    <2>3. ASSUME NEW i \in 1 .. k - 1 PROVE stage'[messages'[i]] # "queued"
      <3>1. i + 1 \in 1 .. k /\ messages'[i] = messages[i + 1] /\ i + 1 \in 1 .. Len(messages)
        BY <1>2, <1>4, <1>6, SMT
      <3> QED BY <3>1, <2>2, <1>5, <1>6
    <2>4. \A i \in 1 .. Len(arrivals') : stage'[arrivals'[i]] = "queued" <=> i > j
      BY <2>2, <1>1, <1>5, <1>6
    <2>5. ASSUME NEW i \in 1 .. Len(messages') - (k - 1)
          PROVE  messages'[k - 1 + i] = arrivals'[j + i]
      <3>1. i \in 1 .. Len(messages) - k /\ messages'[k - 1 + i] = messages[k + i]
        BY <1>2, <1>4, <1>6, <2>1, SMT
      <3> QED BY <3>1, <1>1, <1>6
    <2>6. /\ k - 1 \in 0 .. Len(messages') /\ j \in 0 .. Len(arrivals')
          /\ Len(messages') - (k - 1) = Len(arrivals') - j
      BY <1>1, <1>2, <1>4, <1>6, <2>1, SMT
    <2>7. FreshTail(k - 1, j)'
      BY <2>3, <2>4, <2>5, <2>6 DEF FreshTail
    <2> QED BY <2>1, <2>7, OrderTakeArrived
  <1>8. CASE k = 0
    <2>1. j + 1 \in 1 .. Len(arrivals) /\ 1 \in 1 .. Len(messages) - k
      BY <1>4, <1>6, <1>8, SMT
    <2>2. m = arrivals[j + 1]
      <3>1. messages[k + 1] = arrivals[j + 1]
        BY <2>1, <1>6
      <3>2. k + 1 = 1
        BY <1>8, SMT
      <3> QED BY <3>1, <3>2, <1>2
    <2>3. ASSUME NEW i \in 1 .. Len(arrivals')
          PROVE  stage'[arrivals'[i]] = "queued" <=> i > j + 1
      <3>1. i \in 1 .. Len(arrivals) /\ arrivals'[i] = arrivals[i]
        BY <1>1
      <3>2. CASE i = j + 1
        <4>1. ~(i > j + 1)
          BY <3>2, SMT
        <4> QED BY <3>1, <3>2, <4>1, <1>2, <1>3, <2>2
      <3>3. CASE i # j + 1
        <4>1. arrivals[i] # m
          BY <3>1, <3>3, <2>1, <2>2, <1>4 DEF Arrived
        <4>2. i > j + 1 <=> i > j
          BY <3>1, <3>3, <1>4, SMT
        <4> QED BY <3>1, <4>1, <4>2, <1>3, <1>5, <1>6
      <3> QED BY <3>2, <3>3
    <2>4. ASSUME NEW i \in 1 .. Len(messages') - 0 PROVE messages'[0 + i] = arrivals'[j + 1 + i]
      <3>1. i + 1 \in 1 .. Len(messages) - k /\ messages'[0 + i] = messages[k + (i + 1)]
        BY <1>2, <1>4, <1>8, SMT
      <3>2. j + (i + 1) = j + 1 + i
        BY SMT
      <3> QED BY <3>1, <3>2, <1>1, <1>6
    <2>5. /\ 0 \in 0 .. Len(messages') /\ j + 1 \in 0 .. Len(arrivals')
          /\ Len(messages') - 0 = Len(arrivals') - (j + 1)
      <3>1. /\ j <= Len(arrivals) /\ Len(messages) - k = Len(arrivals) - j
            /\ Len(messages') = Len(messages) - 1 /\ Len(arrivals') = Len(arrivals)
        BY <1>1, <1>2, <1>6
      <3> QED BY <3>1, <1>4, <1>8, SMT
    <2>6. \A i \in 1 .. 0 : stage'[messages'[i]] # "queued"
      BY SMT
    <2>7. FreshTail(0, j + 1)'
      BY <2>3, <2>4, <2>5, <2>6 DEF FreshTail
    <2>8. 0 \in Nat /\ j + 1 \in Nat
      BY SMT
    <2> QED BY <2>7, <2>8, OrderTakeArrived
  <1> QED BY <1>7, <1>8, SMT

\* Every step keeps the order.
LEMMA OrderStep ==
  ASSUME TypeOK, TypeOK', Lifecycle, Arrived, InOrder, [Next]_vars
  PROVE  Arrived' /\ InOrder'
  <1>1. PICK k, j \in Nat : FreshTail(k, j)
    BY DEF InOrder
  <1>2. (\E x, y \in Nat : FreshTail(x, y)') => InOrder'
    BY DEF InOrder
  <1>3. ASSUME messages' = messages, arrivals' = arrivals, stage' = stage
        PROVE  Arrived' /\ InOrder'
    <2>1. FreshTail(k, j)'
      BY <1>1, <1>3, OrderKept
    <2>2. Arrived'
      BY <1>3 DEF Arrived
    <2> QED BY <1>2, <2>1, <2>2
  <1>4. ASSUME NEW s \in Seq(Msgs), messages' = s \o messages, arrivals' = arrivals,
               stage' = stage, \A m \in Range(s) : stage[m] = "sent"
        PROVE  Arrived' /\ InOrder'
    <2>1. \A i \in 1 .. Len(s) : stage[s[i]] = "sent"
      BY <1>4, LenProperties DEF Range
    <2>2. FreshTail(Len(s) + k, j)'
      BY <1>1, <1>4, <2>1, OrderRequeued
    <2>3. Len(s) + k \in Nat
      BY LenProperties, SMT
    <2>4. Arrived'
      BY <1>4 DEF Arrived
    <2> QED BY <1>2, <2>2, <2>3, <2>4
  <1>5. ASSUME NEW m \in Msgs, stage[m] = "sent", messages' = <<m>> \o messages,
               arrivals' = arrivals, stage' = stage
        PROVE  Arrived' /\ InOrder'
    <2> DEFINE s == <<m>>
    <2>1. s \in Seq(Msgs) /\ Range(s) = {m} /\ messages' = s \o messages
      BY <1>5, SMT DEF Range
    <2> HIDE DEF s
    <2>2. \A n \in Range(s) : stage[n] = "sent"
      BY <1>5, <2>1
    <2> QED BY <1>4, <1>5, <2>1, <2>2
  <1>6. CASE UNCHANGED vars
    BY <1>3, <1>6 DEF vars, publishVars
  <1>7. ASSUME NEW m \in Msgs, PublishTag(m) PROVE Arrived' /\ InOrder'
    <2>1. /\ messages' = messages /\ arrivals' = arrivals
          /\ stage[m] = "unpublished" /\ stage' = [stage EXCEPT ![m] = "tagged"]
      BY <1>7 DEF PublishTag
    <2>2. \A n \in Msgs : stage'[n] = IF n = m THEN "tagged" ELSE stage[n]
      BY <2>1 DEF TypeOK
    <2>3. \A n \in Msgs : stage'[n] = "queued" <=> stage[n] = "queued"
      BY <2>1, <2>2, SMT
    <2>4. FreshTail(k, j)'
      BY <1>1, <2>1, <2>3, OrderKept
    <2>5. Arrived'
      BY <2>1, <2>2, SMT DEF Arrived
    <2> QED BY <1>2, <2>4, <2>5
  <1>8. ASSUME NEW m \in Msgs, Enqueue(m) PROVE Arrived' /\ InOrder'
    BY <1>1, <1>2, <1>8, OrderEnqueue
  <1>9. ASSUME NEW c \in Consumers, UnregisterConsumer(c) PROVE Arrived' /\ InOrder'
    <2>1. PICK s \in Orders(Held(c)) : messages' = s \o messages
      BY <1>9 DEF UnregisterConsumer
    <2>2. s \in Seq(Held(c)) /\ Range(s) = Held(c)
      BY HeldType, OrderOf
    <2>3. s \in Seq(Msgs)
      BY <2>2, HeldType, SeqMonotonic
    <2>4. ASSUME NEW m \in Range(s) PROVE stage[m] = "sent"
      <3>1. m \in Held(c)
        BY <2>2
      <3>2. PICK t \in Tags : pendingMessages[c][t] = m /\ m \in Msgs
        BY <3>1 DEF Held
      <3> QED BY <3>2, NoneAssumption DEF Lifecycle
    <2>5. arrivals' = arrivals /\ stage' = stage
      BY <1>9 DEF UnregisterConsumer, publishVars
    <2> QED BY <1>4, <2>1, <2>3, <2>4, <2>5
  <1>10. ASSUME NEW c \in Consumers, DispatchTake(c) PROVE Arrived' /\ InOrder'
    BY <1>1, <1>2, <1>10, OrderTake
  <1>11. CASE DeliverErr
    <2>1. /\ dmsg \in Msgs /\ stage[dmsg] = "sent" /\ messages' = <<dmsg>> \o messages
          /\ arrivals' = arrivals /\ stage' = stage
      BY <1>11 DEF DeliverErr, Prepend, publishVars, Lifecycle, TypeOK
    <2> QED BY <1>5, <2>1
  <1>12. ASSUME NEW c \in Consumers, NackRequeue(c) PROVE Arrived' /\ InOrder'
    <2>1. /\ handler[c].msg \in Msgs /\ stage[handler[c].msg] = "sent"
          /\ messages' = <<handler[c].msg>> \o messages
          /\ arrivals' = arrivals /\ stage' = stage
      BY <1>12 DEF NackRequeue, Prepend, publishVars, Lifecycle, TypeOK, Handlers
    <2> QED BY <1>5, <2>1
  <1>13. CASE DispatchWait \/ DispatchFull \/ DispatchPark \/ DeliverOk
    BY <1>3, <1>13 DEF DispatchWait, DispatchFull, DispatchPark, DeliverOk, publishVars
  <1>14. ASSUME NEW c \in Consumers, RegisterConsumer(c) \/ Break(c) \/ Ack(c) \/ NackSignal(c)
         PROVE  Arrived' /\ InOrder'
    BY <1>3, <1>14 DEF RegisterConsumer, Break, Ack, NackSignal, publishVars
  <1>15. ASSUME NEW c \in Consumers, NEW m \in Msgs, AckLookup(c, m)
         PROVE  Arrived' /\ InOrder'
    BY <1>3, <1>15 DEF AckLookup, publishVars
  <1>16. ASSUME NEW c \in Consumers, NEW m \in Msgs, NEW reply \in {"requeue", "drop"},
                NackTake(c, m, reply)
         PROVE  Arrived' /\ InOrder'
    BY <1>3, <1>16 DEF NackTake, publishVars
  <1> QED BY <1>6, <1>7, <1>8, <1>9, <1>10, <1>11, <1>12, <1>13, <1>14, <1>15, <1>16
          DEF Next, Publish, Dispatch, Handle

\* For every number of messages and consumers: messages are first dispatched in
\* the order of their arrival, and whatever a nack, a failed write or a
\* disconnect puts back goes ahead of those never dispatched.
THEOREM FirstDispatchInOrderCorrect == Spec => []FirstDispatchInOrder
  <1>1. Init => Arrived /\ InOrder
    <2> SUFFICES ASSUME Init PROVE Arrived /\ InOrder
      OBVIOUS
    <2>1. messages = <<>> /\ arrivals = <<>> /\ \A m \in Msgs : stage[m] = "unpublished"
      BY DEF Init
    <2>2. Arrived
      BY <2>1, SMT DEF Arrived, Range
    <2>3. FreshTail(0, 0)
      BY <2>1, SMT DEF FreshTail
    <2> QED BY <2>2, <2>3, SMT DEF InOrder
  <1>2. TypeOK /\ TypeOK' /\ Lifecycle /\ Arrived /\ InOrder /\ [Next]_vars
          => Arrived' /\ InOrder'
    BY OrderStep
  <1> QED BY <1>1, <1>2, TypeCorrect, PendingIsRegisteredCorrect, OrderIs, PTL DEF Spec
=============================================================================
