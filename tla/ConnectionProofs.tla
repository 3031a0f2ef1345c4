-------------------------- MODULE ConnectionProofs --------------------------
(***************************************************************************)
(* The safety of one connection, for any number of dispatchers, channels,  *)
(* consumers and frames and any capacity of writeCh.                       *)
(***************************************************************************)
EXTENDS Connection, SequenceTheorems, TLAPS

\* The reader is inside send exactly at the points where it calls it.
ReaderCalls == call[Reader] = "idle" <=> rpc \notin SendPoints

Stopped == pump \in {"exit", "done"}

\* How far the greeting is at each point of RunHandshake.  The error of sending
\* tune is ignored, but then writePump has returned and openOk fails.
Greeted ==
  /\ rpc \in {"accept", "header"} => greeting = <<>>
  /\ rpc = "start" => greeting = IF call[Reader] = "ok" THEN <<"start">> ELSE <<>>
  /\ rpc = "startOk" => greeting = <<"start">>
  /\ rpc = "tune" => greeting = IF call[Reader] = "ok" THEN <<"start", "tune">> ELSE <<"start">>
  /\ rpc \in {"tuneOk", "open"} => greeting = <<"start", "tune">> \/ Stopped
  /\ rpc = "openOk" =>
       IF call[Reader] = "ok" THEN greeting = <<"start", "tune", "openOk">>
       ELSE greeting = <<"start", "tune">> \/ Stopped

\* The connection is open from openOk on, and as long as the reader has not shut
\* it down only a writePump that has returned has closed it.
Phases ==
  /\ rpc \in {"accept"} \cup HandshakeReads \cup HandshakeSends => state # "open"
  /\ rpc \in {"serve", "reply", "close"} => state = "open"
  /\ closed /\ rpc \notin Teardown \ {"shutdown"} => Stopped
  /\ call[Reader] = "err" => Stopped

\* Consumers are only on their way out during a cleanup, which takes all of them.
Leaving ==
  /\ rpc \notin {"close", "cleanup"} => leaving = {}
  /\ rpc = "cleanup" => closed /\ registered \subseteq leaving \cup replaced

-----------------------------------------------------------------------------
(* Types. *)

\* Every step of the connection's goroutines and of the network keeps the types.
LEMMA TypeStep ==
  ASSUME TypeOK, RequestsAccounted, [Next]_vars
  PROVE  TypeOK'
  <1> USE DEF TypeOK
  <1>1. CASE UNCHANGED vars
    BY <1>1 DEF vars, readerVars, channelVars, pumpVars
  <1>2. CASE Break
    BY <1>2 DEF Break, readerVars, channelVars, pumpVars
  <1>3. ASSUME NEW s \in Senders, SendOffer(s) PROVE TypeOK'
    <2>1. writeCh' \in Seq(Senders)
      BY <1>3, AppendProperties DEF SendOffer
    <2> QED BY <1>3, <2>1 DEF SendOffer, readerVars, channelVars, Calls
  <1>4. ASSUME NEW s \in Senders, SendClosed(s) PROVE TypeOK'
    BY <1>4 DEF SendClosed, readerVars, channelVars, pumpVars, Calls
  <1>5. CASE PumpTake
    <2>1. writeCh' \in Seq(Senders) /\ preq' \in Senders
      BY <1>5, HeadTailProperties DEF PumpTake
    <2> QED BY <1>5, <2>1 DEF PumpTake, readerVars, channelVars
  <1>6. CASE PumpOk
    <2>1. greeting' \in Seq(HandshakeSends)
      BY <1>6, AppendProperties DEF PumpOk
    <2>2. call' \in [Senders -> Calls]
      BY <1>6 DEF PumpOk, Calls
    <2> QED BY <1>6, <2>1, <2>2 DEF PumpOk, readerVars, channelVars
  <1>7. CASE PumpErr
    BY <1>7 DEF PumpErr, readerVars, channelVars, Calls
  <1>8. CASE PumpClosed \/ PumpExit
    BY <1>8 DEF PumpClosed, PumpExit, readerVars, channelVars
  <1>9. ASSUME NEW d \in Dispatchers, Deliver(d) \/ DeliverReturn(d) PROVE TypeOK'
    BY <1>9 DEF Deliver, DeliverReturn, readerVars, channelVars, pumpVars, Calls
  <1>10. CASE Accept
    BY <1>10 DEF Accept, channelVars, pumpVars, Points, HandshakeReads
  <1>11. CASE HandshakeRead
    <2>1. frames' \in 0 .. MaxFrames
      BY <1>11, BoundsAssumption DEF HandshakeRead, ReadFrame
    <2>2. call' \in [Senders -> Calls] /\ state' \in States /\ rpc' \in Points
      BY <1>11 DEF HandshakeRead, GoSend, Calls, States, Points, SendPoints, HandshakeSends,
                   HandshakeReads
    <2> QED BY <1>11, <2>1, <2>2 DEF HandshakeRead, channelVars, pumpVars
  <1>12. CASE HeaderReadError
    BY <1>12 DEF HeaderReadError, GoSend, channelVars, pumpVars, Calls, States, Points,
                 SendPoints, HandshakeSends
  <1>13. CASE ReadError
    <2>1. frames' \in 0 .. MaxFrames
      BY <1>13, BoundsAssumption DEF ReadError, ReadFrame
    <2> QED BY <1>13, <2>1 DEF ReadError, channelVars, pumpVars, Points, Teardown
  <1>14. CASE SendReturn
    <2>1. call' \in [Senders -> Calls] /\ state' \in States /\ rpc' \in Points
      BY <1>14 DEF SendReturn, Calls, States, Points, HandshakeReads, Teardown
    <2> QED BY <1>14, <2>1 DEF SendReturn, channelVars, pumpVars
  <1>15. ASSUME Serving PROVE frames' \in 0 .. MaxFrames
    BY <1>15, BoundsAssumption DEF Serving, ReadFrame
  <1>16. ASSUME GoSend("reply") PROVE call' \in [Senders -> Calls] /\ rpc' \in Points
    BY <1>16 DEF GoSend, Calls, Points, SendPoints
  <1>17. CASE HandleQuiet
    BY <1>15, <1>17 DEF HandleQuiet, readerVars, channelVars, pumpVars
  <1>18. CASE HandleReplied
    BY <1>15, <1>16, <1>18 DEF HandleReplied, channelVars, pumpVars
  <1>19. CASE HandleConsume
    <2>1. PICK i \in Ids, d \in Dispatchers :
            /\ Open(i)
            /\ made[d] < PerQueue
            /\ made' = [made EXCEPT ![d] = @ + 1]
            /\ registered' = registered \cup {<<d, made[d] + 1>>}
            /\ channels' = [channels EXCEPT ![i] = @ \cup {<<d, made[d] + 1>>}]
      BY <1>19 DEF HandleConsume
    <2>2. made[d] + 1 \in 1 .. PerQueue /\ made[d] + 1 \in 0 .. PerQueue
      BY <2>1, BoundsAssumption
    <2>3. <<d, made[d] + 1>> \in Consumers
      BY <2>2 DEF Consumers
    <2>4. channels[i] \in SUBSET Consumers
      BY <2>1 DEF Open
    <2>5. channels' \in [Ids -> (SUBSET Consumers) \cup {None}]
      BY <2>1, <2>3, <2>4
    <2>6. registered' \subseteq Consumers /\ made' \in [Dispatchers -> 0 .. PerQueue]
      BY <2>1, <2>2, <2>3
    <2> QED BY <1>15, <1>16, <1>19, <2>5, <2>6 DEF HandleConsume, pumpVars
  <1>20. CASE ChannelOpen
    <2>1. PICK i \in Ids :
            /\ channels' = [channels EXCEPT ![i] = {}]
            /\ replaced' = IF Open(i) THEN replaced \cup channels[i] ELSE replaced
      BY <1>20 DEF ChannelOpen
    <2>2. replaced' \subseteq Consumers
      BY <2>1 DEF Open
    <2>3. channels' \in [Ids -> (SUBSET Consumers) \cup {None}]
      BY <2>1
    <2> QED BY <1>15, <1>16, <1>20, <2>2, <2>3 DEF ChannelOpen, pumpVars
  <1>21. CASE ChannelClose
    <2>1. PICK i \in Ids :
            /\ channels' = [channels EXCEPT ![i] = None]
            /\ leaving' = IF Open(i) THEN channels[i] ELSE {}
      BY <1>21 DEF ChannelClose
    <2>2. leaving' \subseteq Consumers
      BY <2>1 DEF Open
    <2>3. channels' \in [Ids -> (SUBSET Consumers) \cup {None}]
      BY <2>1
    <2> QED BY <1>15, <1>21, <2>2, <2>3 DEF ChannelClose, pumpVars, Points
  <1>22. CASE Unregister
    BY <1>22 DEF Unregister, pumpVars
  <1>23. CASE Unregistered
    BY <1>16, <1>23 DEF Unregistered, channelVars, pumpVars, Points, Teardown
  <1>24. CASE Shutdown
    <2>1. leaving' \subseteq Consumers
      BY <1>24 DEF Shutdown, Open
    <2> QED BY <1>24, <2>1 DEF Shutdown, Points, Teardown
  <1>25. CASE Untrack
    BY <1>25 DEF Untrack, channelVars, pumpVars, Points, Teardown
  <1> QED BY <1>1, <1>2, <1>3, <1>4, <1>5, <1>6, <1>7, <1>8, <1>9, <1>10, <1>11, <1>12,
             <1>13, <1>14, <1>17, <1>18, <1>19, <1>20, <1>21, <1>22, <1>23, <1>24, <1>25
          DEF Next, Pump, Send, HandleConnection

-----------------------------------------------------------------------------
(* Requests. *)

\* A request put on a channel that does not hold it is there once.
LEMMA AppendOnce ==
  ASSUME NEW S, NEW s \in Seq(S), NEW x \in S, x \notin Range(s),
         \A i, j \in DOMAIN s : s[i] = s[j] => i = j
  PROVE  /\ Append(s, x) \in Seq(S) /\ Len(Append(s, x)) = Len(s) + 1
         /\ Range(Append(s, x)) = Range(s) \cup {x}
         /\ \A i, j \in DOMAIN Append(s, x) : Append(s, x)[i] = Append(s, x)[j] => i = j
  <1> DEFINE t == Append(s, x)
  <1>1. t \in Seq(S) /\ Len(t) = Len(s) + 1 /\ Len(s) \in Nat
    BY AppendProperties, LenProperties
  <1>2. (\A i \in 1 .. Len(s) : t[i] = s[i]) /\ t[Len(s) + 1] = x
    BY AppendProperties
  <1>3. DOMAIN s = 1 .. Len(s) /\ DOMAIN t = 1 .. Len(s) + 1
    BY <1>1, LenProperties
  <1>4. \A i \in DOMAIN s : s[i] # x
    BY DEF Range
  <1> HIDE DEF t
  <1>5. Range(t) = Range(s) \cup {x}
    BY <1>1, <1>2, <1>3 DEF Range
  <1>6. ASSUME NEW i \in DOMAIN t, NEW j \in DOMAIN t, t[i] = t[j] PROVE i = j
    BY <1>1, <1>2, <1>3, <1>4, <1>6
  <1> QED BY <1>1, <1>5, <1>6 DEF t

\* The request taken from a channel that held it once is not there any more.
LEMMA TakeOnce ==
  ASSUME NEW S, NEW s \in Seq(S), s # <<>>,
         \A i, j \in DOMAIN s : s[i] = s[j] => i = j
  PROVE  /\ Head(s) \in Range(s) /\ Tail(s) \in Seq(S) /\ Len(Tail(s)) = Len(s) - 1
         /\ Range(Tail(s)) = Range(s) \ {Head(s)}
         /\ \A i, j \in DOMAIN Tail(s) : Tail(s)[i] = Tail(s)[j] => i = j
  <1> DEFINE t == Tail(s)
  <1>1. /\ t \in Seq(S) /\ Len(t) = Len(s) - 1 /\ Len(s) \in Nat \ {0}
        /\ \A i \in 1 .. Len(t) : t[i] = s[i + 1]
    BY HeadTailProperties, EmptySeq, LenProperties
  <1>2. Head(s) = s[1]
    OBVIOUS
  <1>3. DOMAIN s = 1 .. Len(s) /\ DOMAIN t = 1 .. Len(s) - 1
    BY <1>1, LenProperties
  <1> HIDE DEF t
  <1>4. Head(s) \in Range(s)
    BY <1>1, <1>2, <1>3 DEF Range
  <1>5. ASSUME NEW y \in Range(t) PROVE y \in Range(s) \ {Head(s)}
    <2>1. PICK i \in 1 .. Len(s) - 1 : y = s[i + 1]
      BY <1>1, <1>3 DEF Range
    <2>2. i + 1 \in DOMAIN s /\ 1 \in DOMAIN s /\ i + 1 # 1
      BY <1>1, <1>3
    <2> QED BY <1>2, <2>1, <2>2 DEF Range
  <1>6. ASSUME NEW y \in Range(s) \ {Head(s)} PROVE y \in Range(t)
    <2>1. PICK i \in 1 .. Len(s) : y = s[i]
      BY <1>3 DEF Range
    <2>2. i # 1
      BY <1>2, <2>1
    <2>3. i - 1 \in DOMAIN t /\ t[i - 1] = y
      BY <1>1, <1>3, <2>1, <2>2
    <2> QED BY <2>3 DEF Range
  <1>7. ASSUME NEW i \in DOMAIN t, NEW j \in DOMAIN t, t[i] = t[j] PROVE i = j
    <2>1. i + 1 \in DOMAIN s /\ j + 1 \in DOMAIN s /\ s[i + 1] = s[j + 1]
      BY <1>1, <1>3, <1>7
    <2>2. i + 1 = j + 1
      BY <2>1
    <2> QED BY <1>3, <2>2
  <1> QED BY <1>1, <1>4, <1>5, <1>6, <1>7 DEF t

\* A step that leaves writeCh and writePump alone, and changes only calls of send
\* that are not waiting for an answer.
LEMMA RequestsKept ==
  ASSUME RequestsAccounted, UNCHANGED <<writeCh, pump, preq>>,
         \A s \in Senders : call'[s] = "wait" <=> call[s] = "wait"
  PROVE  RequestsAccounted'
  BY DEF RequestsAccounted

\* Every step keeps one request for each caller that waits.
LEMMA RequestsStep ==
  ASSUME TypeOK, ReaderCalls, RequestsAccounted, [Next]_vars
  PROVE  ReaderCalls' /\ RequestsAccounted'
  <1> USE ReaderAssumption DEF Senders
  <1>1. ASSUME UNCHANGED <<rpc, call, writeCh, pump, preq>>
        PROVE  ReaderCalls' /\ RequestsAccounted'
    BY <1>1, RequestsKept DEF ReaderCalls
  <1>2. CASE \/ UNCHANGED vars \/ Break \/ HandleQuiet \/ Unregister
    BY <1>1, <1>2 DEF vars, readerVars, pumpVars, Break, HandleQuiet, Unregister
  <1>3. ASSUME NEW s \in Senders, SendOffer(s) PROVE ReaderCalls' /\ RequestsAccounted'
    <2>1. /\ call[s] = "select" /\ call' = [call EXCEPT ![s] = "wait"] /\ rpc' = rpc
          /\ writeCh' = Append(writeCh, s) /\ Len(writeCh) < WriteCap
          /\ UNCHANGED <<pump, preq>>
      BY <1>3 DEF SendOffer, readerVars
    <2>2. /\ call \in [Senders -> Calls] /\ writeCh \in Seq(Senders) /\ Len(writeCh) \in Nat
          /\ preq \in Senders \cup {None}
      BY LenProperties DEF TypeOK
    <2>3. s \notin Range(writeCh) /\ s # preq
      BY <2>1 DEF RequestsAccounted
    <2>4. /\ Len(writeCh') = Len(writeCh) + 1 /\ Range(writeCh') = Range(writeCh) \cup {s}
          /\ \A i, j \in DOMAIN writeCh' : writeCh'[i] = writeCh'[j] => i = j
      BY <2>1, <2>2, <2>3, AppendOnce DEF RequestsAccounted
    <2>5. Len(writeCh') <= WriteCap
      BY <2>1, <2>2, <2>4, CapAssumption
    <2>6. /\ \A r \in Senders : call'[r] = "wait" <=> r \in Range(writeCh') \cup {preq'}
          /\ pump' = "write" <=> preq' # None
          /\ preq' \notin Range(writeCh')
      BY <2>1, <2>2, <2>3, <2>4 DEF RequestsAccounted
    <2>7. ReaderCalls'
      BY <2>1, <2>2 DEF ReaderCalls
    <2> QED BY <2>4, <2>5, <2>6, <2>7 DEF RequestsAccounted
  <1>4. ASSUME NEW s \in Senders, SendClosed(s) PROVE ReaderCalls' /\ RequestsAccounted'
    <2>1. /\ call[s] = "select" /\ call' = [call EXCEPT ![s] = "err"]
          /\ UNCHANGED <<rpc, writeCh, pump, preq>>
      BY <1>4 DEF SendClosed, readerVars, pumpVars
    <2> QED BY <2>1, RequestsKept DEF ReaderCalls, TypeOK
  <1>5. CASE PumpTake
    <2>1. /\ pump = "select" /\ writeCh # <<>> /\ preq' = Head(writeCh)
          /\ writeCh' = Tail(writeCh) /\ pump' = "write" /\ UNCHANGED <<rpc, call>>
      BY <1>5 DEF PumpTake, readerVars
    <2>2. writeCh \in Seq(Senders) /\ Len(writeCh) \in Nat /\ preq = None
      BY <2>1, LenProperties DEF TypeOK, RequestsAccounted
    <2>3. /\ preq' \in Range(writeCh) /\ Range(writeCh') = Range(writeCh) \ {preq'}
          /\ Len(writeCh') = Len(writeCh) - 1
          /\ \A i, j \in DOMAIN writeCh' : writeCh'[i] = writeCh'[j] => i = j
      BY <2>1, <2>2, TakeOnce DEF RequestsAccounted
    <2>4. Range(writeCh) \subseteq Senders
      BY <2>2 DEF Range
    <2>5. Len(writeCh') <= WriteCap
      BY <2>2, <2>3, CapAssumption DEF RequestsAccounted
    <2>6. \A s \in Senders : call'[s] = "wait" <=> s \in Range(writeCh') \cup {preq'}
      BY <2>1, <2>2, <2>3 DEF RequestsAccounted
    <2>7. preq' # None
      BY <2>3, <2>4
    <2> QED BY <2>1, <2>3, <2>5, <2>6, <2>7 DEF RequestsAccounted, ReaderCalls
  <1>6. ASSUME PumpOk \/ PumpErr PROVE ReaderCalls' /\ RequestsAccounted'
    <2>1. PICK answer \in {"ok", "err"} : call' = [call EXCEPT ![preq] = answer]
      BY <1>6 DEF PumpOk, PumpErr
    <2>2. /\ pump = "write" /\ pump' # "write" /\ preq' = None /\ UNCHANGED <<rpc, writeCh>>
      BY <1>6 DEF PumpOk, PumpErr, readerVars
    <2>3. preq \in Senders /\ call \in [Senders -> Calls] /\ writeCh \in Seq(Senders)
      BY <2>2 DEF RequestsAccounted, TypeOK
    <2>4. call[preq] = "wait"
      BY <2>3 DEF RequestsAccounted
    <2>5. None \notin Range(writeCh)
      BY <2>3 DEF Range
    <2>6. \A s \in Senders : call'[s] = "wait" <=> s \in Range(writeCh') \cup {preq'}
      BY <2>1, <2>2, <2>3, <2>5 DEF RequestsAccounted
    <2>7. ReaderCalls'
      BY <2>1, <2>2, <2>3, <2>4 DEF ReaderCalls
    <2> QED BY <2>2, <2>5, <2>6, <2>7 DEF RequestsAccounted
  <1>7. CASE PumpClosed \/ PumpExit
    <2>1. UNCHANGED <<rpc, call, writeCh, preq>> /\ (pump' = "write" <=> pump = "write")
      BY <1>7 DEF PumpClosed, PumpExit, readerVars
    <2> QED BY <2>1 DEF RequestsAccounted, ReaderCalls
  <1>8. ASSUME NEW d \in Dispatchers, Deliver(d) \/ DeliverReturn(d)
        PROVE  ReaderCalls' /\ RequestsAccounted'
    <2>1. /\ call[d] # "wait" /\ UNCHANGED <<rpc, writeCh, pump, preq>>
          /\ \E a \in {"select", "idle"} : call' = [call EXCEPT ![d] = a]
      BY <1>8 DEF Deliver, DeliverReturn, readerVars, pumpVars
    <2> QED BY <2>1, RequestsKept DEF ReaderCalls, TypeOK
  <1>9. ASSUME UNCHANGED <<writeCh, pump, preq>>, rpc \notin SendPoints,
               \/ rpc' \in SendPoints /\ call' = [call EXCEPT ![Reader] = "select"]
               \/ rpc' \notin SendPoints /\ call' = call
        PROVE  ReaderCalls' /\ RequestsAccounted'
    <2>1. call[Reader] = "idle" /\ call \in [Senders -> Calls]
      BY <1>9 DEF ReaderCalls, TypeOK
    <2> QED BY <1>9, <2>1, RequestsKept DEF ReaderCalls
  <1>10. CASE Accept \/ HeaderReadError \/ ReadError \/ HandshakeRead
    <2>1. UNCHANGED <<writeCh, pump, preq>> /\ rpc \notin SendPoints
      BY <1>10 DEF Accept, HeaderReadError, ReadError, HandshakeRead, pumpVars, SendPoints,
                   HandshakeSends, HandshakeReads
    <2>2. \/ rpc' \in SendPoints /\ call' = [call EXCEPT ![Reader] = "select"]
          \/ rpc' \notin SendPoints /\ call' = call
      BY <1>10 DEF Accept, HeaderReadError, ReadError, HandshakeRead, GoSend, SendPoints,
                   HandshakeSends
    <2> QED BY <1>9, <2>1, <2>2
  <1>11. CASE HandleReplied \/ HandleConsume \/ ChannelOpen \/ ChannelClose \/ Unregistered
    <2>1. UNCHANGED <<writeCh, pump, preq>> /\ rpc \notin SendPoints
      BY <1>11 DEF HandleReplied, HandleConsume, ChannelOpen, ChannelClose, Unregistered,
                   Serving, pumpVars, SendPoints, HandshakeSends
    <2>2. \/ rpc' \in SendPoints /\ call' = [call EXCEPT ![Reader] = "select"]
          \/ rpc' \notin SendPoints /\ call' = call
      BY <1>11 DEF HandleReplied, HandleConsume, ChannelOpen, ChannelClose, Unregistered,
                   GoSend, SendPoints, HandshakeSends
    <2> QED BY <1>9, <2>1, <2>2
  <1>12. CASE Shutdown \/ Untrack
    <2>1. /\ UNCHANGED <<writeCh, pump, preq>> /\ rpc \notin SendPoints
          /\ rpc' \notin SendPoints /\ call' = call
      BY <1>12 DEF Shutdown, Untrack, pumpVars, SendPoints, HandshakeSends
    <2> QED BY <1>9, <2>1
  <1>13. CASE SendReturn
    <2>1. /\ call[Reader] \in {"ok", "err"} /\ call' = [call EXCEPT ![Reader] = "idle"]
          /\ UNCHANGED <<writeCh, pump, preq>> /\ rpc' \notin SendPoints
      BY <1>13 DEF SendReturn, pumpVars, SendPoints, HandshakeSends
    <2> QED BY <2>1, RequestsKept DEF ReaderCalls, TypeOK
  <1> QED BY <1>2, <1>3, <1>4, <1>5, <1>6, <1>7, <1>8, <1>10, <1>11, <1>12, <1>13
          DEF Next, Pump, Send, HandleConnection

-----------------------------------------------------------------------------
(* The handshake. *)

\* Appending, element by element.
LEMMA AppendIs ==
  ASSUME NEW S, NEW s \in Seq(S), NEW x \in S, NEW t \in Seq(S), Len(t) = Len(s) + 1,
         \A i \in 1 .. Len(s) : t[i] = s[i], t[Len(s) + 1] = x
  PROVE  Append(s, x) = t
  <1>1. /\ Append(s, x) \in Seq(S) /\ Len(Append(s, x)) = Len(t) /\ Len(s) \in Nat
        /\ \A i \in 1 .. Len(s) : Append(s, x)[i] = t[i]
        /\ Append(s, x)[Len(s) + 1] = t[Len(s) + 1]
    BY AppendProperties, LenProperties
  <1>2. \A i \in 1 .. Len(t) : Append(s, x)[i] = t[i]
    BY <1>1
  <1> QED BY <1>1, <1>2, SeqEqual

\* The greeting grows by one frame at a time.
LEMMA GreetingGrows ==
  /\ Append(<<>>, "start") = <<"start">>
  /\ Append(<<"start">>, "tune") = <<"start", "tune">>
  /\ Append(<<"start", "tune">>, "openOk") = <<"start", "tune", "openOk">>
  <1> DEFINE S == {"start", "tune", "openOk"}
             one == <<"start">>
             two == <<"start", "tune">>
             three == <<"start", "tune", "openOk">>
  <1>1. Append(<<>>, "start") = one
    OBVIOUS
  <1>2. one \in Seq(S) /\ Len(one) = 1 /\ one[1] = "start"
    OBVIOUS
  <1>3. two \in Seq(S) /\ Len(two) = 2 /\ two[1] = "start" /\ two[2] = "tune"
    OBVIOUS
  <1>4. /\ three \in Seq(S) /\ Len(three) = 3
        /\ three[1] = "start" /\ three[2] = "tune" /\ three[3] = "openOk"
    OBVIOUS
  <1>5. "tune" \in S /\ "openOk" \in S
    OBVIOUS
  <1> HIDE DEF S, one, two, three
  <1>6. /\ Len(two) = Len(one) + 1 /\ two[Len(one) + 1] = "tune"
        /\ \A i \in 1 .. Len(one) : two[i] = one[i]
    BY <1>2, <1>3
  <1>7. /\ Len(three) = Len(two) + 1 /\ three[Len(two) + 1] = "openOk"
        /\ \A i \in 1 .. Len(two) : three[i] = two[i]
    BY <1>3, <1>4
  <1>8. Append(one, "tune") = two
    BY <1>2, <1>3, <1>5, <1>6, AppendIs
  <1>9. Append(two, "openOk") = three
    BY <1>3, <1>4, <1>5, <1>7, AppendIs
  <1> QED BY <1>1, <1>8, <1>9 DEF one, two, three

\* A step of someone other than the reader, with no answer for the reader.
LEMMA HandshakeKept ==
  ASSUME Greeted, Phases, UNCHANGED <<rpc, state, greeting>>,
         call'[Reader] = call[Reader], Stopped => Stopped',
         closed' => closed \/ Stopped'
  PROVE  Greeted' /\ Phases'
  <1>1. Greeted'
    BY DEF Greeted
  <1>2. Phases'
    BY DEF Phases
  <1> QED BY <1>1, <1>2

\* The handshake is in the order start, tune, open-ok, whoever else runs.
LEMMA HandshakeStep ==
  ASSUME TypeOK, ReaderCalls, RequestsAccounted, Greeted, Phases, HandshakeFirst,
         RegisteredIsOwned, [Next]_vars
  PROVE  Greeted' /\ Phases' /\ HandshakeFirst'
  <1> USE ReaderAssumption
  <1>0. /\ call \in [Senders -> Calls] /\ Reader \in Senders
        /\ \A d \in Dispatchers : d \in Senders /\ d # Reader
    BY DEF TypeOK, Senders
  <1> DEFINE Frames == <<"start", "tune", "openOk">>
             Handshake == Greeted' /\ Phases' /\ HandshakeFirst'
  <1>1. ASSUME UNCHANGED <<rpc, state, call, greeting>>, Stopped => Stopped',
               closed' => closed \/ Stopped'
        PROVE  Handshake
    BY <1>1, HandshakeKept DEF HandshakeFirst
  <1>2. CASE UNCHANGED vars \/ Break \/ HandleQuiet \/ Unregister
    BY <1>1, <1>2 DEF vars, readerVars, pumpVars, Break, HandleQuiet, Unregister, Stopped
  <1>3. CASE PumpTake \/ PumpClosed \/ PumpExit
    BY <1>1, <1>3 DEF PumpTake, PumpClosed, PumpExit, readerVars, Stopped
  <1>4. ASSUME NEW s \in Senders, SendOffer(s) PROVE Handshake
    <2>1. /\ call[s] = "select" /\ call' = [call EXCEPT ![s] = "wait"]
          /\ UNCHANGED <<rpc, state, greeting, pump, closed>>
      BY <1>4 DEF SendOffer, readerVars
    <2>2. HandshakeFirst'
      BY <1>0, <2>1 DEF HandshakeFirst
    <2>3. call'[Reader] = call[Reader] \/ (call[Reader] = "select" /\ call'[Reader] = "wait")
      BY <1>0, <2>1
    <2>4. Greeted'
      BY <2>1, <2>3 DEF Greeted, Stopped
    <2>5. Phases'
      BY <2>1, <2>3 DEF Phases, Stopped
    <2> QED BY <2>2, <2>4, <2>5
  <1>5. ASSUME NEW s \in Senders, SendClosed(s) PROVE Handshake
    <2>1. /\ call[s] = "select" /\ call' = [call EXCEPT ![s] = "err"] /\ closed
          /\ UNCHANGED <<rpc, state, greeting, pump, closed>>
      BY <1>5 DEF SendClosed, readerVars, pumpVars
    <2>2. HandshakeFirst'
      BY <1>0, <2>1 DEF HandshakeFirst
    <2>3. call'[Reader] = call[Reader] \/ (call[Reader] = "select" /\ call'[Reader] = "err")
      BY <1>0, <2>1
    <2>4. Greeted'
      BY <2>1, <2>3 DEF Greeted, Stopped
    <2>5. call[Reader] = "select" => rpc \notin Teardown
      BY DEF ReaderCalls, SendPoints, HandshakeSends, Teardown
    <2>6. Phases'
      BY <2>1, <2>3, <2>5 DEF Phases, Stopped
    <2> QED BY <2>2, <2>4, <2>6
  <1>6. CASE PumpOk
    <2>1. /\ pump = "write" /\ preq \in Senders /\ call' = [call EXCEPT ![preq] = "ok"]
          /\ UNCHANGED <<rpc, state, closed>> /\ ~Stopped /\ ~Stopped'
      BY <1>6 DEF PumpOk, readerVars, RequestsAccounted, TypeOK, Stopped
    <2>2. call[preq] = "wait"
      BY <2>1 DEF RequestsAccounted
    <2>3. CASE preq # Reader
      <3>1. call'[Reader] = call[Reader] /\ greeting' = greeting
        BY <1>0, <1>6, <2>1, <2>3 DEF PumpOk
      <3>2. HandshakeFirst'
        BY <1>0, <2>1, <2>2, <3>1 DEF HandshakeFirst
      <3> QED BY <2>1, <3>1, <3>2, HandshakeKept
    <2>4. CASE preq = Reader
      <3>1. /\ call[Reader] = "wait" /\ call'[Reader] = "ok" /\ rpc \in SendPoints
            /\ greeting' = IF rpc \in HandshakeSends THEN Append(greeting, rpc) ELSE greeting
            /\ \A d \in Dispatchers : call'[d] = call[d]
        BY <1>0, <1>6, <2>1, <2>2, <2>4 DEF PumpOk, ReaderCalls
      <3>2. CASE rpc = "reply"
        <4>1. greeting' = greeting
          BY <3>1, <3>2 DEF HandshakeSends
        <4>2. Greeted' /\ Phases'
          BY <2>1, <3>1, <3>2, <4>1 DEF Greeted, Phases
        <4> QED BY <2>1, <3>1, <4>1, <4>2 DEF HandshakeFirst
      <3>3. CASE rpc \in HandshakeSends
        <4>1. greeting' = Append(greeting, rpc) /\ state # "open"
          BY <3>1, <3>3 DEF Phases
        <4>2. Greeted'
          BY <2>1, <3>1, <3>3, <4>1, GreetingGrows DEF Greeted, HandshakeSends
        <4>3. Phases'
          BY <2>1, <3>1 DEF Phases
        <4> QED BY <2>1, <3>1, <4>1, <4>2, <4>3 DEF HandshakeFirst
      <3> QED BY <3>1, <3>2, <3>3 DEF SendPoints
    <2> QED BY <2>3, <2>4
  <1>7. CASE PumpErr
    <2>1. /\ preq \in Senders /\ call' = [call EXCEPT ![preq] = "err"] /\ Stopped'
          /\ UNCHANGED <<rpc, state, closed, greeting>>
      BY <1>7 DEF PumpErr, readerVars, RequestsAccounted, TypeOK, Stopped
    <2>2. call[preq] = "wait"
      BY <1>7, <2>1 DEF RequestsAccounted
    <2>3. HandshakeFirst'
      BY <1>0, <2>1, <2>2 DEF HandshakeFirst
    <2>4. call'[Reader] = call[Reader] \/ (call[Reader] = "wait" /\ call'[Reader] = "err")
      BY <1>0, <2>1, <2>2
    <2>5. Greeted'
      BY <2>1, <2>4 DEF Greeted
    <2>6. Phases'
      BY <2>1, <2>4 DEF Phases
    <2> QED BY <2>3, <2>5, <2>6
  <1>8. ASSUME NEW d \in Dispatchers, Deliver(d) \/ DeliverReturn(d) PROVE Handshake
    <2>1. /\ UNCHANGED <<rpc, state, greeting, pump, closed>>
          /\ \A r \in Senders : r # d => call'[r] = call[r]
      BY <1>0, <1>8 DEF Deliver, DeliverReturn, readerVars, pumpVars
    <2>2. call'[d] # "idle" => state = "open"
      BY <1>0, <1>8 DEF Deliver, DeliverReturn, RegisteredIsOwned
    <2>3. HandshakeFirst'
      BY <1>0, <2>1, <2>2 DEF HandshakeFirst
    <2> QED BY <1>0, <2>1, <2>3, HandshakeKept DEF Stopped
  <1>9. ASSUME UNCHANGED <<greeting, pump, closed>>, state' = "open" => state = "open",
               state = "open" => state' = "open",
               \A d \in Dispatchers : call'[d] = call[d]
        PROVE  HandshakeFirst'
    BY <1>9 DEF HandshakeFirst
  <1>10. CASE Accept \/ HeaderReadError \/ HandshakeRead
    <2>1. /\ UNCHANGED <<greeting, pump, closed>> /\ state' # "open" /\ state # "open"
          /\ \A d \in Dispatchers : call'[d] = call[d]
          /\ rpc \notin Teardown
      BY <1>0, <1>10 DEF Accept, HeaderReadError, HandshakeRead, GoSend, pumpVars, Phases,
                         HandshakeReads, Teardown
    <2>2. /\ rpc' \in HandshakeReads \cup HandshakeSends
          /\ call'[Reader] = IF rpc' \in HandshakeSends THEN "select" ELSE call[Reader]
      BY <1>0, <1>10 DEF Accept, HeaderReadError, HandshakeRead, GoSend, HandshakeReads,
                         HandshakeSends
    <2>3. \/ rpc \in {"accept", "header"} /\ rpc' \in {"header", "start"}
          \/ rpc = "startOk" /\ rpc' = "tune"
          \/ rpc \in {"tuneOk", "open"} /\ rpc' \in {"open", "openOk"}
      BY <1>10 DEF Accept, HeaderReadError, HandshakeRead, GoSend
    <2>4. Greeted'
      BY <2>1, <2>2, <2>3 DEF Greeted, HandshakeSends, Stopped
    <2>5. call'[Reader] # "err" \/ Stopped
      BY <2>2 DEF Phases
    <2>6. Phases'
      BY <2>1, <2>2, <2>5 DEF Phases, Stopped, HandshakeReads, HandshakeSends
    <2> QED BY <1>9, <2>1, <2>4, <2>6
  <1>11. CASE ReadError
    <2>1. /\ UNCHANGED <<greeting, pump, closed, state, call>> /\ rpc' = "shutdown"
          /\ rpc \notin Teardown
      BY <1>11 DEF ReadError, pumpVars, HandshakeReads, Teardown
    <2>2. Greeted'
      BY <2>1 DEF Greeted
    <2>3. Phases'
      BY <2>1 DEF Phases, Stopped, HandshakeReads, HandshakeSends, Teardown
    <2> QED BY <1>9, <2>1, <2>2, <2>3
  <1>12. ASSUME rpc \in {"serve", "close"},
                UNCHANGED <<greeting, pump, closed, state>>,
                \/ rpc' = "reply" /\ call' = [call EXCEPT ![Reader] = "select"]
                \/ rpc' = "close" /\ call' = call
         PROVE  Handshake
    <2>1. \A d \in Dispatchers : call'[d] = call[d]
      BY <1>0, <1>12
    <2>2. call'[Reader] \in {call[Reader], "select"}
      BY <1>0, <1>12
    <2>3. Greeted'
      BY <1>12 DEF Greeted
    <2>4. Phases'
      BY <1>12, <2>2 DEF Phases, Stopped, HandshakeReads, HandshakeSends, Teardown
    <2> QED BY <1>9, <1>12, <2>1, <2>3, <2>4
  <1>13. CASE HandleReplied \/ HandleConsume \/ ChannelOpen \/ ChannelClose
    BY <1>12, <1>13 DEF HandleReplied, HandleConsume, ChannelOpen, ChannelClose, Serving,
                        GoSend, pumpVars
  <1>14. ASSUME rpc \in Teardown, UNCHANGED <<greeting, pump, state, call>>,
                rpc' \in Teardown \ {"shutdown"}
         PROVE  Handshake
    <2>1. Greeted'
      BY <1>14 DEF Greeted, Teardown
    <2>2. Phases'
      BY <1>14 DEF Phases, Stopped, Teardown, HandshakeReads, HandshakeSends
    <2> QED BY <1>14, <2>1, <2>2 DEF HandshakeFirst
  <1>15. CASE Shutdown \/ Untrack
    BY <1>14, <1>15 DEF Shutdown, Untrack, pumpVars, Teardown
  <1>16. CASE Unregistered
    <2>1. CASE rpc = "close"
      BY <1>12, <1>16, <2>1 DEF Unregistered, GoSend, pumpVars
    <2>2. CASE rpc = "cleanup"
      BY <1>14, <1>16, <2>2 DEF Unregistered, pumpVars, Teardown
    <2> QED BY <1>16, <2>1, <2>2 DEF Unregistered
  <1>17. CASE SendReturn
    <2>1. /\ UNCHANGED <<greeting, pump, closed>> /\ call'[Reader] = "idle"
          /\ \A d \in Dispatchers : call'[d] = call[d]
      BY <1>0, <1>17 DEF SendReturn, pumpVars
    <2>2. \/ /\ rpc \in {"start", "openOk"} /\ call[Reader] = "err" /\ rpc' = "shutdown"
             /\ state' = state
          \/ rpc = "start" /\ call[Reader] = "ok" /\ rpc' = "startOk" /\ state' = state
          \/ rpc = "tune" /\ rpc' = "tuneOk" /\ state' = state
          \/ rpc = "openOk" /\ call[Reader] = "ok" /\ rpc' = "serve" /\ state' = "open"
          \/ rpc = "reply" /\ rpc' = "serve" /\ state' = state
      BY <1>17 DEF SendReturn
    <2>3. call[Reader] \in {"ok", "err"} /\ (call[Reader] = "err" => Stopped)
      BY <1>17 DEF SendReturn, Phases
    <2>4. Greeted'
      BY <2>1, <2>2, <2>3 DEF Greeted, Stopped
    <2>5. state' = "open" => greeting = Frames
      BY <2>2 DEF HandshakeFirst, Greeted
    <2>6. Phases'
      BY <2>1, <2>2 DEF Phases, Stopped, Teardown, HandshakeReads, HandshakeSends
    <2> QED BY <2>1, <2>2, <2>4, <2>5, <2>6 DEF HandshakeFirst
  <1> QED BY <1>2, <1>3, <1>4, <1>5, <1>6, <1>7, <1>8, <1>10, <1>11, <1>13, <1>15, <1>16, <1>17
          DEF Next, Pump, Send, HandleConnection

-----------------------------------------------------------------------------
(* Consumers. *)

OpenConsumers == UNION {channels[i] : i \in {j \in Ids : Open(j)}}

\* A step that leaves the consumers and the reader's place alone.
LEMMA OwnedKept ==
  ASSUME Leaving, RegisteredIsOwned, UNCHANGED <<rpc, state, channelVars, tracked>>,
         closed => closed'
  PROVE  Leaving' /\ RegisteredIsOwned'
  <1>1. Leaving'
    BY DEF Leaving, channelVars
  <1>2. RegisteredIsOwned'
    BY DEF RegisteredIsOwned, channelVars, Open
  <1> QED BY <1>1, <1>2

\* Every step leaves each registered consumer with someone who will unregister
\* it, or with a channel that was replaced.
LEMMA OwnedStep ==
  ASSUME TypeOK, TypeOK', Phases, Leaving, RegisteredIsOwned, [Next]_vars
  PROVE  Leaving' /\ RegisteredIsOwned'
  <1>0. /\ registered \subseteq leaving \cup replaced \cup OpenConsumers
        /\ registered # {} => state = "open"
        /\ rpc \in {"untrack", "gone"} => registered \subseteq replaced /\ closed
        /\ rpc = "gone" => ~tracked
    BY DEF RegisteredIsOwned, OpenConsumers
  <1>1. CASE \/ UNCHANGED vars \/ Break \/ HandleQuiet \/ Pump
             \/ \E s \in Senders : Send(s)
             \/ \E d \in Dispatchers : Deliver(d) \/ DeliverReturn(d)
    <2> SUFFICES UNCHANGED <<rpc, state, channelVars, tracked>> /\ (closed => closed')
      BY OwnedKept
    <2>1. CASE UNCHANGED vars \/ Break \/ HandleQuiet
      BY <2>1 DEF vars, readerVars, pumpVars, Break, HandleQuiet
    <2>2. CASE Pump
      BY <2>2 DEF Pump, PumpTake, PumpOk, PumpErr, PumpClosed, PumpExit, readerVars
    <2>3. ASSUME NEW s \in Senders, Send(s)
          PROVE  UNCHANGED <<rpc, state, channelVars, tracked>> /\ (closed => closed')
      BY <2>3 DEF Send, SendOffer, SendClosed, readerVars, pumpVars
    <2>4. ASSUME NEW d \in Dispatchers, Deliver(d) \/ DeliverReturn(d)
          PROVE  UNCHANGED <<rpc, state, channelVars, tracked>> /\ (closed => closed')
      BY <2>4 DEF Deliver, DeliverReturn, readerVars, pumpVars
    <2> QED BY <1>1, <2>1, <2>2, <2>3, <2>4
  <1>2. ASSUME UNCHANGED <<channelVars, closed>>, state = "open" => state' = "open",
               rpc \notin Teardown \ {"shutdown"}, leaving = {},
               rpc' \notin Teardown \ {"shutdown"}
        PROVE  Leaving' /\ RegisteredIsOwned'
    <2>1. UNCHANGED <<leaving, registered, replaced, channels>>
      BY <1>2 DEF channelVars
    <2>2. OpenConsumers' = OpenConsumers
      BY <2>1 DEF OpenConsumers, Open
    <2>3. Leaving'
      BY <1>2, <2>1 DEF Leaving, Teardown
    <2>4. RegisteredIsOwned'
      BY <1>0, <1>2, <2>1, <2>2 DEF RegisteredIsOwned, OpenConsumers, Teardown
    <2> QED BY <2>3, <2>4
  <1>3. CASE Accept \/ HeaderReadError \/ HandshakeRead \/ ReadError
    <2>1. /\ rpc \in {"accept", "serve"} \cup HandshakeReads
          /\ rpc' \in {"shutdown"} \cup HandshakeReads \cup HandshakeSends
          /\ UNCHANGED <<channelVars, closed>> /\ (state = "open" => state' = "open")
      BY <1>3 DEF Accept, HeaderReadError, HandshakeRead, ReadError, GoSend, HandshakeReads,
                  HandshakeSends, pumpVars, Phases
    <2>2. /\ rpc \notin Teardown \ {"shutdown"} /\ leaving = {}
          /\ rpc' \notin Teardown \ {"shutdown"}
      BY <2>1 DEF Leaving, Teardown, HandshakeReads, HandshakeSends
    <2> QED BY <1>2, <2>1, <2>2
  <1>4. CASE SendReturn
    <2>1. /\ rpc \in SendPoints
          /\ rpc' \in {"shutdown", "serve"} \cup HandshakeReads
          /\ UNCHANGED <<channelVars, closed>> /\ (state = "open" => state' = "open")
      BY <1>4 DEF SendReturn, HandshakeReads, SendPoints, HandshakeSends, pumpVars
    <2>2. /\ rpc \notin Teardown \ {"shutdown"} /\ leaving = {}
          /\ rpc' \notin Teardown \ {"shutdown"}
      BY <2>1 DEF Leaving, Teardown, HandshakeReads, HandshakeSends, SendPoints
    <2> QED BY <1>2, <2>1, <2>2
  <1>5. CASE HandleReplied
    <2>1. /\ rpc = "serve" /\ rpc' = "reply" /\ UNCHANGED <<channelVars, closed, state>>
      BY <1>5 DEF HandleReplied, Serving, GoSend, pumpVars
    <2>2. /\ rpc \notin Teardown \ {"shutdown"} /\ leaving = {}
          /\ rpc' \notin Teardown \ {"shutdown"}
      BY <2>1 DEF Leaving, Teardown
    <2> QED BY <1>2, <2>1, <2>2
  <1>6. CASE HandleConsume
    <2>1. /\ rpc = "serve" /\ rpc' = "reply" /\ UNCHANGED <<closed, state, leaving, replaced>>
      BY <1>6 DEF HandleConsume, Serving, GoSend, pumpVars
    <2>2. PICK i \in Ids, k \in Dispatchers \X Nat :
            /\ Open(i)
            /\ registered' = registered \cup {k}
            /\ channels' = [channels EXCEPT ![i] = @ \cup {k}]
      <3>1. PICK i \in Ids, d \in Dispatchers :
              /\ Open(i)
              /\ registered' = registered \cup {<<d, made[d] + 1>>}
              /\ channels' = [channels EXCEPT ![i] = @ \cup {<<d, made[d] + 1>>}]
        BY <1>6 DEF HandleConsume
      <3>2. <<d, made[d] + 1>> \in Dispatchers \X Nat
        BY BoundsAssumption DEF TypeOK
      <3> QED BY <3>1, <3>2
    <2>3. channels'[i] = channels[i] \cup {k} /\ \A j \in Ids : j # i => channels'[j] = channels[j]
      BY <2>2 DEF TypeOK
    <2>4. Open(i)'
      <3>1. channels[i] \cup {k} \subseteq Consumers
        BY <2>2 DEF TypeOK, Open
      <3> QED BY <2>3, <3>1, NoneAssumption DEF Open, Consumers
    <2>5. OpenConsumers \cup {k} \subseteq OpenConsumers'
      BY <2>3, <2>4 DEF OpenConsumers, Open
    <2>6. state = "open"
      BY <2>1 DEF Phases
    <2>7. RegisteredIsOwned'
      BY <1>0, <2>1, <2>2, <2>5, <2>6 DEF RegisteredIsOwned, OpenConsumers
    <2> QED BY <2>1, <2>7 DEF Leaving
  <1>7. CASE ChannelOpen
    <2>1. /\ rpc = "serve" /\ rpc' = "reply" /\ UNCHANGED <<closed, state, leaving, registered>>
      BY <1>7 DEF ChannelOpen, Serving, GoSend, pumpVars
    <2>2. PICK i \in Ids :
            /\ channels' = [channels EXCEPT ![i] = {}]
            /\ replaced' = IF Open(i) THEN replaced \cup channels[i] ELSE replaced
      BY <1>7 DEF ChannelOpen
    <2>3. \A j \in Ids : j # i => channels'[j] = channels[j]
      BY <2>2 DEF TypeOK
    <2>4. OpenConsumers \subseteq OpenConsumers' \cup replaced'
      BY <2>2, <2>3 DEF OpenConsumers, Open
    <2>5. replaced \subseteq replaced'
      BY <2>2
    <2>6. RegisteredIsOwned'
      BY <1>0, <2>1, <2>4, <2>5 DEF RegisteredIsOwned, OpenConsumers
    <2> QED BY <2>1, <2>6 DEF Leaving
  <1>8. CASE ChannelClose
    <2>1. /\ rpc = "serve" /\ rpc' = "close" /\ UNCHANGED <<closed, state, registered, replaced>>
      BY <1>8 DEF ChannelClose, Serving, pumpVars
    <2>2. PICK i \in Ids :
            /\ channels' = [channels EXCEPT ![i] = None]
            /\ leaving' = IF Open(i) THEN channels[i] ELSE {}
      BY <1>8 DEF ChannelClose
    <2>3. \A j \in Ids : j # i => channels'[j] = channels[j]
      BY <2>2 DEF TypeOK
    <2>4. OpenConsumers \subseteq OpenConsumers' \cup leaving'
      BY <2>2, <2>3 DEF OpenConsumers, Open
    <2>5. leaving = {}
      BY <2>1 DEF Leaving
    <2>6. RegisteredIsOwned'
      BY <1>0, <2>1, <2>4, <2>5 DEF RegisteredIsOwned, OpenConsumers
    <2> QED BY <2>1, <2>6 DEF Leaving
  <1>9. CASE Unregister
    <2>1. /\ rpc \in {"close", "cleanup"}
          /\ UNCHANGED <<rpc, closed, state, channels, replaced, tracked>>
      BY <1>9 DEF Unregister, pumpVars
    <2>2. PICK k \in leaving : leaving' = leaving \ {k} /\ registered' = registered \ {k}
      BY <1>9 DEF Unregister
    <2>3. OpenConsumers' = OpenConsumers
      BY <2>1 DEF OpenConsumers, Open
    <2>4. RegisteredIsOwned'
      BY <1>0, <2>1, <2>2, <2>3 DEF RegisteredIsOwned, OpenConsumers
    <2> QED BY <2>1, <2>2, <2>4 DEF Leaving
  <1>10. CASE Unregistered
    <2>1. /\ UNCHANGED <<closed, state, leaving, registered, replaced, channels, tracked>>
          /\ leaving = {}
          /\ \/ rpc = "close" /\ rpc' = "reply"
             \/ rpc = "cleanup" /\ rpc' = "untrack"
      BY <1>10 DEF Unregistered, GoSend, channelVars, pumpVars
    <2>2. OpenConsumers' = OpenConsumers
      BY <2>1 DEF OpenConsumers, Open
    <2>3. rpc' = "untrack" => registered \subseteq replaced /\ closed
      BY <2>1 DEF Leaving
    <2>4. RegisteredIsOwned'
      BY <1>0, <2>1, <2>2, <2>3 DEF RegisteredIsOwned, OpenConsumers
    <2> QED BY <2>1, <2>4 DEF Leaving
  <1>11. CASE Shutdown
    <2>1. /\ UNCHANGED <<state, registered, replaced, channels>> /\ closed' = TRUE
          /\ rpc = "shutdown" /\ rpc' = "cleanup" /\ leaving' = OpenConsumers
      BY <1>11 DEF Shutdown, OpenConsumers
    <2>2. OpenConsumers' = OpenConsumers
      BY <2>1 DEF OpenConsumers, Open
    <2>3. registered \subseteq leaving' \cup replaced
      BY <1>0, <2>1 DEF Leaving
    <2>4. RegisteredIsOwned'
      BY <1>0, <2>1, <2>2, <2>3 DEF RegisteredIsOwned, OpenConsumers
    <2> QED BY <2>1, <2>3, <2>4 DEF Leaving
  <1>12. CASE Untrack
    <2>1. /\ UNCHANGED <<closed, state, leaving, registered, replaced, channels>>
          /\ rpc = "untrack" /\ rpc' = "gone" /\ ~tracked'
      BY <1>12 DEF Untrack, channelVars, pumpVars
    <2>2. OpenConsumers' = OpenConsumers
      BY <2>1 DEF OpenConsumers, Open
    <2>3. RegisteredIsOwned'
      BY <1>0, <2>1, <2>2 DEF RegisteredIsOwned, OpenConsumers
    <2> QED BY <2>1, <2>3 DEF Leaving
  <1> QED BY <1>1, <1>3, <1>4, <1>5, <1>6, <1>7, <1>8, <1>9, <1>10, <1>11, <1>12
          DEF Next, HandleConnection

-----------------------------------------------------------------------------
(* The theorems. *)

\* What holds together, and only together is kept by every step.
ConnectionInv ==
  /\ TypeOK /\ ReaderCalls /\ RequestsAccounted
  /\ Greeted /\ Phases /\ HandshakeFirst
  /\ Leaving /\ RegisteredIsOwned

\* The invariant holds from accept to the end of the teardown.
THEOREM ConnectionInvariant == Spec => []ConnectionInv
  <1>1. Init => ConnectionInv
    <2> SUFFICES ASSUME Init PROVE ConnectionInv
      OBVIOUS
    <2> USE DEF Init
    <2>1. TypeOK
      <3>1. frames \in 0 .. MaxFrames /\ made \in [Dispatchers -> 0 .. PerQueue]
        BY BoundsAssumption
      <3>2. /\ channels \in [Ids -> (SUBSET Consumers) \cup {None}]
            /\ \A S \in {leaving, registered, replaced} : S \subseteq Consumers
        OBVIOUS
      <3>3. call \in [Senders -> Calls] /\ rpc \in Points /\ state \in States
        BY DEF Calls, Points, States
      <3>4. writeCh \in Seq(Senders) /\ greeting \in Seq(HandshakeSends)
        OBVIOUS
      <3>5. /\ link \in {"up", "down"} /\ pump \in {"select", "write", "exit", "done"}
            /\ preq \in Senders \cup {None} /\ tracked \in BOOLEAN /\ closed \in BOOLEAN
        OBVIOUS
      <3> HIDE DEF Init
      <3> QED BY <3>1, <3>2, <3>3, <3>4, <3>5 DEF TypeOK
    <2>2. ReaderCalls
      BY DEF ReaderCalls, Senders, SendPoints, HandshakeSends
    <2>3. RequestsAccounted
      BY ReaderAssumption, CapAssumption DEF RequestsAccounted, Range, Senders
    <2>4. Greeted /\ Phases /\ HandshakeFirst
      BY DEF Greeted, Phases, HandshakeFirst, Senders
    <2>5. Leaving /\ RegisteredIsOwned
      BY DEF Leaving, RegisteredIsOwned
    <2> QED BY <2>1, <2>2, <2>3, <2>4, <2>5 DEF ConnectionInv
  <1>2. ConnectionInv /\ [Next]_vars => ConnectionInv'
    BY TypeStep, RequestsStep, HandshakeStep, OwnedStep DEF ConnectionInv
  <1> QED BY <1>1, <1>2, PTL DEF Spec

\* A connection, its callers of send and its writePump keep their types: the
\* reader is always at a known point, and the channel table holds consumers only.
THEOREM ConnectionTypeCorrect == Spec => []TypeOK
  <1>1. ConnectionInv => TypeOK
    BY DEF ConnectionInv
  <1> QED BY <1>1, ConnectionInvariant, PTL

\* For any number of callers and any capacity of writeCh: whoever waits in send
\* has one request under way, so writePump answers each at most once and drops
\* none while its caller waits.
THEOREM RequestsAccountedCorrect == Spec => []RequestsAccounted
  <1>1. ConnectionInv => RequestsAccounted
    BY DEF ConnectionInv
  <1> QED BY <1>1, ConnectionInvariant, PTL

\* A client sees start, tune and open-ok in this order before its connection is
\* open and before any delivery, whatever errors RunHandshake ignores.
THEOREM HandshakeFirstCorrect == Spec => []HandshakeFirst
  <1>1. ConnectionInv => HandshakeFirst
    BY DEF ConnectionInv
  <1> QED BY <1>1, ConnectionInvariant, PTL

\* The teardown forgets no consumer but those of channels that channel.open
\* replaced, for any number of channels and consumers.
THEOREM RegisteredIsOwnedCorrect == Spec => []RegisteredIsOwned
  <1>1. ConnectionInv => RegisteredIsOwned
    BY DEF ConnectionInv
  <1> QED BY <1>1, ConnectionInvariant, PTL

=============================================================================
