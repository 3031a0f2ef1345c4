---------------------------- MODULE Connection -----------------------------
(***************************************************************************)
(* One client connection (broker/connection.go) from accept to teardown:   *)
(* the goroutine of Server.HandleConnection that performs the handshake,   *)
(* reads requests, handles them and finally cleans up; writePump, the only *)
(* writer of the socket; and the dispatchers of the queues that have a     *)
(* consumer on this connection, which write deliveries to it.              *)
(*                                                                         *)
(* Everyone who writes calls send: put a request on writeCh and wait for   *)
(* writePump to answer it.  Frames are abstracted to what kind they are,   *)
(* and the channel they name.  A channel is the set of its consumers; a    *)
(* consumer is its queue and a number that tells it from earlier ones.     *)
(***************************************************************************)
EXTENDS Integers, Sequences, FiniteSets, Functions

CONSTANTS
  Dispatchers,  \* the queues whose dispatchLoop may write to this connection
  Reader,       \* the goroutine of HandleConnection
  Ids,          \* the channel ids the client uses
  PerQueue,     \* bound: consumers the client creates on a queue
  WriteCap,     \* the capacity of writeCh (64)
  MaxFrames,    \* bound: how many frames the client sends
  None

ASSUME ReaderAssumption == Reader \notin Dispatchers /\ None \notin Dispatchers \cup {Reader}
ASSUME NoneAssumption == \A S \in SUBSET (Dispatchers \X (1 .. PerQueue)) : S # None
ASSUME CapAssumption == WriteCap \in Nat \ {0}
ASSUME BoundsAssumption == MaxFrames \in Nat /\ PerQueue \in Nat

VARIABLES
  link,        \* "up" or "down": the network, with the client at the other end
  frames,      \* frames the client may still send
  rpc,         \* where the reader is, see ReadPoints and SendPoints
  state,       \* Connection.state
  channels,    \* Connection.channels: the consumers of each open channel, or None
  leaving,     \* the consumers that the cleanup in progress has still to unregister
  registered,  \* the consumers of this connection that their queues know
  made,        \* how many consumers were created on each queue
  replaced,    \* history: the consumers of channels that channel.open replaced
  tracked,     \* whether Server.connections holds this connection
  call,        \* the progress of each caller of send, see Calls
  writeCh,     \* the requests in the channel, as their callers
  pump, preq,  \* where writePump is, and the caller it is writing for
  closed,      \* whether the channel Connection.closed is closed
  greeting     \* history: the handshake frames written to the socket

channelVars == <<channels, leaving, registered, made, replaced>>
readerVars == <<rpc, state, channelVars, tracked>>
pumpVars == <<writeCh, pump, preq, closed, greeting>>
vars == <<link, frames, readerVars, call, pumpVars>>

-----------------------------------------------------------------------------

Senders == Dispatchers \cup {Reader}
Consumers == Dispatchers \X (1 .. PerQueue)

HandshakeReads == {"header", "startOk", "tuneOk", "open"}
HandshakeSends == {"start", "tune", "openOk"}
SendPoints == HandshakeSends \cup {"reply"}
Teardown == {"shutdown", "cleanup", "untrack", "gone"}
Points == {"accept", "serve", "close"} \cup HandshakeReads \cup SendPoints \cup Teardown

States == {"await_protocol_header", "await_start_ok", "await_tune_ok", "await_open", "open"}

\* "select": offering the request; "wait": it is on its way, blocked on
\* req.err; "ok", "err": what send returned.
Calls == {"idle", "select", "wait", "ok", "err"}

Init ==
  /\ link = "up" /\ frames = MaxFrames
  /\ rpc = "accept" /\ state = "await_protocol_header"
  /\ channels = [i \in Ids |-> None] /\ leaving = {} /\ registered = {}
  /\ made = [d \in Dispatchers |-> 0] /\ replaced = {}
  /\ tracked = FALSE
  /\ call = [s \in Senders |-> "idle"]
  /\ writeCh = <<>> /\ pump = "select" /\ preq = None
  /\ closed = FALSE
  /\ greeting = <<>>

\* The network fails, or the client goes away.
Break ==
  /\ link = "up"
  /\ link' = "down"
  /\ UNCHANGED <<frames, readerVars, call, pumpVars>>

-----------------------------------------------------------------------------
(* send. *)

SendOffer(s) ==
  /\ call[s] = "select"
  /\ Len(writeCh) < WriteCap
  /\ writeCh' = Append(writeCh, s)
  /\ call' = [call EXCEPT ![s] = "wait"]
  /\ UNCHANGED <<link, frames, readerVars, pump, preq, closed, greeting>>

\* Faulty: send does not watch closed.
SendNeverClosed(s) == FALSE

SendClosed(s) ==
  /\ call[s] = "select"
  /\ closed
  /\ call' = [call EXCEPT ![s] = "err"]
  /\ UNCHANGED <<link, frames, readerVars, pumpVars>>

Send(s) == SendOffer(s) \/ SendClosed(s)

-----------------------------------------------------------------------------
(* writePump.  Where both cases of its select are ready it takes either.    *)

PumpTake ==
  /\ pump = "select"
  /\ writeCh # <<>>
  /\ preq' = Head(writeCh)
  /\ writeCh' = Tail(writeCh)
  /\ pump' = "write"
  /\ UNCHANGED <<link, frames, readerVars, call, closed, greeting>>

\* The socket takes bytes even after the peer has gone.
PumpOk ==
  /\ pump = "write"
  /\ call' = [call EXCEPT ![preq] = "ok"]
  /\ greeting' = IF preq = Reader /\ rpc \in HandshakeSends
                 THEN Append(greeting, rpc) ELSE greeting
  /\ pump' = "select" /\ preq' = None
  /\ UNCHANGED <<link, frames, readerVars, writeCh, closed>>

\* Faulty: writePump returns without req.err <- err.
PumpErrSilent ==
  /\ pump = "write"
  /\ link = "down"
  /\ pump' = "exit" /\ preq' = None
  /\ UNCHANGED <<link, frames, readerVars, call, writeCh, closed, greeting>>

PumpErr ==
  /\ pump = "write"
  /\ link = "down"
  /\ call' = [call EXCEPT ![preq] = "err"]
  /\ pump' = "exit" /\ preq' = None
  /\ UNCHANGED <<link, frames, readerVars, writeCh, closed, greeting>>

PumpClosed ==
  /\ pump = "select"
  /\ closed
  /\ pump' = "exit"
  /\ UNCHANGED <<link, frames, readerVars, call, writeCh, preq, closed, greeting>>

\* The deferred shutdown.  Requests left in writeCh stay there.
PumpExit ==
  /\ pump = "exit"
  /\ pump' = "done"
  /\ closed' = TRUE
  /\ UNCHANGED <<link, frames, readerVars, call, writeCh, preq, greeting>>

Pump == PumpTake \/ PumpOk \/ PumpErr \/ PumpClosed \/ PumpExit

-----------------------------------------------------------------------------
(* The dispatchers.  A consumer chosen before it was unregistered is still  *)
(* written to.                                                              *)

Deliver(d) ==
  /\ \E k \in registered : k[1] = d
  /\ call[d] = "idle"
  /\ call' = [call EXCEPT ![d] = "select"]
  /\ UNCHANGED <<link, frames, readerVars, pumpVars>>

DeliverReturn(d) ==
  /\ call[d] \in {"ok", "err"}
  /\ call' = [call EXCEPT ![d] = "idle"]
  /\ UNCHANGED <<link, frames, readerVars, pumpVars>>

-----------------------------------------------------------------------------
(* HandleConnection: RunHandshake, Serve, and the deferred teardown.        *)

\* Faulty: a read that returns although nothing was sent.
ReadNothing == frames' = frames - 1

ReadFrame == frames > 0 /\ frames' = frames - 1
GoSend(p) == rpc' = p /\ call' = [call EXCEPT ![Reader] = "select"]

Accept ==
  /\ rpc = "accept"
  /\ tracked' = TRUE
  /\ rpc' = "header"
  /\ UNCHANGED <<link, frames, state, channelVars, call, pumpVars>>

\* A frame of the handshake arrives; only of the header the content matters.
HandshakeRead ==
  /\ ReadFrame
  /\ \/ rpc = "header" /\ state' = "await_start_ok" /\ GoSend("start")
     \/ rpc = "startOk" /\ state' = "await_tune_ok" /\ GoSend("tune")
     \/ rpc = "tuneOk" /\ state' = "await_open" /\ rpc' = "open" /\ UNCHANGED call
     \/ rpc = "open" /\ UNCHANGED state /\ GoSend("openOk")
  /\ UNCHANGED <<link, channelVars, tracked, pumpVars>>

\* ReadProtocolHeader returns nil when the read fails.
HeaderReadError ==
  /\ rpc = "header"
  /\ link = "down"
  /\ state' = "await_start_ok"
  /\ GoSend("start")
  /\ UNCHANGED <<link, frames, channelVars, tracked, pumpVars>>

\* Faulty: only frames that cannot be decoded end the connection.
ReadErrorSwallowed ==
  /\ rpc \in HandshakeReads \cup {"serve"}
  /\ ReadFrame
  /\ rpc' = "shutdown"
  /\ UNCHANGED <<link, state, channelVars, tracked, call, pumpVars>>

\* Any other read fails when the connection has, or when the frame cannot be
\* decoded (for the header: is another line), and ends the connection.
ReadError ==
  /\ rpc \in HandshakeReads \cup {"serve"}
  /\ \/ link = "down" /\ rpc # "header" /\ UNCHANGED frames
     \/ ReadFrame
  /\ rpc' = "shutdown"
  /\ UNCHANGED <<link, state, channelVars, tracked, call, pumpVars>>

\* Faulty: the error of openOk is ignored as well.
SendReturnUnchecked ==
  /\ call[Reader] \in {"ok", "err"}
  /\ call' = [call EXCEPT ![Reader] = "idle"]
  /\ \/ rpc = "start" /\ rpc' = "startOk" /\ UNCHANGED state
     \/ rpc = "tune" /\ rpc' = "tuneOk" /\ UNCHANGED state
     \/ rpc \in {"openOk", "reply"} /\ rpc' = "serve" /\ state' = "open"
  /\ UNCHANGED <<link, frames, channelVars, tracked, pumpVars>>

\* send returned.  Only start and openOk look at the error.
SendReturn ==
  /\ call[Reader] \in {"ok", "err"}
  /\ call' = [call EXCEPT ![Reader] = "idle"]
  /\ \/ /\ rpc \in {"start", "openOk"} /\ call[Reader] = "err"
        /\ rpc' = "shutdown"
        /\ UNCHANGED state
     \/ /\ rpc = "start" /\ call[Reader] = "ok"
        /\ rpc' = "startOk"
        /\ UNCHANGED state
     \/ /\ rpc = "tune"
        /\ rpc' = "tuneOk"
        /\ UNCHANGED state
     \/ /\ rpc = "openOk" /\ call[Reader] = "ok"
        /\ rpc' = "serve"
        /\ state' = "open"
     \/ /\ rpc = "reply"
        /\ rpc' = "serve"
        /\ UNCHANGED state
  /\ UNCHANGED <<link, frames, channelVars, tracked, pumpVars>>

Open(i) == channels[i] # None
Serving == rpc = "serve" /\ ReadFrame

\* A publish, an ack or a nack on an open channel: no reply.
HandleQuiet ==
  /\ Serving
  /\ \E i \in Ids : Open(i)
  /\ UNCHANGED <<link, readerVars, call, pumpVars>>

\* A request for a channel that is not open is answered with an error; one for
\* an open channel that does not concern its consumers with its reply, or with
\* an error.  Neither changes the connection.
HandleReplied ==
  /\ Serving
  /\ GoSend("reply")
  /\ UNCHANGED <<link, state, channelVars, tracked, pumpVars>>

\* basic.consume on a queue that exists, with a tag the channel does not use.
HandleConsume ==
  /\ Serving
  /\ \E i \in Ids, d \in Dispatchers :
       LET k == <<d, made[d] + 1>> IN
       /\ Open(i)
       /\ made[d] < PerQueue
       /\ made' = [made EXCEPT ![d] = @ + 1]
       /\ registered' = registered \cup {k}
       /\ channels' = [channels EXCEPT ![i] = @ \cup {k}]
  /\ GoSend("reply")
  /\ UNCHANGED <<link, state, leaving, replaced, tracked, pumpVars>>

\* channel.open does not look whether the id is open already.
ChannelOpen ==
  /\ Serving
  /\ \E i \in Ids :
       /\ channels' = [channels EXCEPT ![i] = {}]
       /\ replaced' = IF Open(i) THEN replaced \cup channels[i] ELSE replaced
  /\ GoSend("reply")
  /\ UNCHANGED <<link, state, leaving, registered, made, tracked, pumpVars>>

\* Faulty: the channel is deleted and its consumers are forgotten.
ChannelCloseForgets ==
  /\ Serving
  /\ \E i \in Ids : channels' = [channels EXCEPT ![i] = None]
  /\ leaving' = {}
  /\ rpc' = "close"
  /\ UNCHANGED <<link, state, registered, made, replaced, tracked, call, pumpVars>>

\* The channel is deleted first and its consumers are unregistered afterwards.
ChannelClose ==
  /\ Serving
  /\ \E i \in Ids :
       /\ channels' = [channels EXCEPT ![i] = None]
       /\ leaving' = IF Open(i) THEN channels[i] ELSE {}
  /\ rpc' = "close"
  /\ UNCHANGED <<link, state, registered, made, replaced, tracked, call, pumpVars>>

\* unregisterConsumer, for one consumer after the other.
Unregister ==
  /\ rpc \in {"close", "cleanup"}
  /\ \E k \in leaving :
       /\ leaving' = leaving \ {k}
       /\ registered' = registered \ {k}
  /\ UNCHANGED <<link, frames, rpc, state, channels, made, replaced, tracked, call, pumpVars>>

\* close-ok, or the end of Connection.cleanup.
Unregistered ==
  /\ leaving = {}
  /\ \/ rpc = "close" /\ GoSend("reply")
     \/ rpc = "cleanup" /\ rpc' = "untrack" /\ UNCHANGED call
  /\ UNCHANGED <<link, frames, state, channelVars, tracked, pumpVars>>

\* shutdown; then cleanup, for the channels that are open.
Shutdown ==
  /\ rpc = "shutdown"
  /\ closed' = TRUE
  /\ rpc' = "cleanup"
  /\ leaving' = UNION {channels[i] : i \in {j \in Ids : Open(j)}}
  /\ UNCHANGED <<link, frames, state, channels, registered, made, replaced, tracked,
                 call, writeCh, pump, preq, greeting>>

\* The connection is forgotten and the socket closed.
Untrack ==
  /\ rpc = "untrack"
  /\ tracked' = FALSE
  /\ rpc' = "gone"
  /\ link' = "down"
  /\ UNCHANGED <<frames, state, channelVars, call, pumpVars>>

HandleConnection ==
  \/ Accept \/ HandshakeRead \/ HeaderReadError \/ ReadError \/ SendReturn
  \/ HandleQuiet \/ HandleReplied \/ HandleConsume \/ ChannelOpen \/ ChannelClose
  \/ Unregister \/ Unregistered \/ Shutdown \/ Untrack

-----------------------------------------------------------------------------

Next ==
  \/ Break \/ Pump \/ HandleConnection
  \/ \E s \in Senders : Send(s)
  \/ \E d \in Dispatchers : Deliver(d) \/ DeliverReturn(d)

Spec == Init /\ [][Next]_vars

-----------------------------------------------------------------------------
(* Safety. *)

TypeOK ==
  /\ link \in {"up", "down"} /\ frames \in 0 .. MaxFrames
  /\ rpc \in Points /\ state \in States
  /\ channels \in [Ids -> (SUBSET Consumers) \cup {None}]
  /\ \A S \in {leaving, registered, replaced} : S \subseteq Consumers
  /\ made \in [Dispatchers -> 0 .. PerQueue]
  /\ tracked \in BOOLEAN
  /\ call \in [Senders -> Calls]
  /\ writeCh \in Seq(Senders)
  /\ pump \in {"select", "write", "exit", "done"}
  /\ preq \in Senders \cup {None}
  /\ closed \in BOOLEAN
  /\ greeting \in Seq(HandshakeSends)

\* Every caller of send that waits for req.err has exactly one request, in
\* writeCh or in writePump's hands, and there are no others: none is answered
\* twice, and none is dropped while its caller waits.
RequestsAccounted ==
  /\ pump = "write" <=> preq # None
  /\ \A s \in Senders : call[s] = "wait" <=> s \in Range(writeCh) \cup {preq}
  /\ preq \notin Range(writeCh)
  /\ \A i, j \in DOMAIN writeCh : writeCh[i] = writeCh[j] => i = j
  /\ Len(writeCh) <= WriteCap

\* A client sees start, tune and open-ok, in this order, before the connection
\* counts as open and before any delivery, although the error of sending tune
\* is ignored and the error of reading the header is swallowed.
HandshakeFirst ==
  /\ state = "open" => greeting = <<"start", "tune", "openOk">>
  /\ \A d \in Dispatchers : call[d] # "idle" => state = "open"

\* A consumer its queue knows is one of an open channel, or is about to be
\* unregistered, or its channel was replaced by a channel.open for the same id.
\* Only consumers of replaced channels outlive the teardown, and whoever finds a
\* connection untracked finds writes refused.
RegisteredIsOwned ==
  /\ registered \subseteq
       leaving \cup replaced \cup UNION {channels[i] : i \in {j \in Ids : Open(j)}}
  /\ registered # {} => state = "open"
  /\ rpc \in {"untrack", "gone"} => registered \subseteq replaced /\ closed
  /\ rpc = "gone" => ~tracked

-----------------------------------------------------------------------------
(* Liveness. *)

Reading == rpc \in HandshakeReads \cup {"serve"}

\* The goroutines run.  The client need not send anything, but reads what it
\* is sent, or its connection fails: writePump never blocks forever in Flush.
\* Strong fairness of send: a full Go channel serves its blocked senders in the
\* order of their arrival.
Fairness ==
  /\ WF_vars(Pump)
  /\ WF_vars((link = "down" \/ ~Reading) /\ HandleConnection)
  /\ \A s \in Senders : SF_vars(Send(s))
  /\ \A d \in Dispatchers : WF_vars(DeliverReturn(d))

FairSpec == Spec /\ Fairness

\* The request of s was in writeCh when writePump returned.
Stranded(s) == pump = "done" /\ s \in Range(writeCh)

\* A send returns, unless writePump stops with the request still in writeCh.
SendReturns ==
  \A s \in Senders : call[s] \in {"select", "wait"} ~> call[s] \in {"ok", "err"} \/ Stranded(s)

\* A connection that failed is torn down completely, unless its own goroutine
\* is waiting for a reply that writePump will not write.
TornDownUnlessStranded == link = "down" ~> rpc = "gone" \/ Stranded(Reader)

\* Pending deliveries are requeued on connection teardown
\* (tests/disconnect_test.go:30): a failed connection ends with no consumer.
TeardownRequeues == link = "down" ~> [](registered = {})

=============================================================================
