------------------------------- MODULE Bench -------------------------------
(***************************************************************************)
(* One run of the load generator, internal/bench: the engine that takes    *)
(* the run through its phases (engine.go), the publisher and consumer      *)
(* goroutines (worker.go), the counters they share (metrics.go) and the    *)
(* sampler that moves the window counters into CSV rows (csv.go).          *)
(*                                                                         *)
(* Messages are the sequence numbers the publishers mint.  The broker and  *)
(* the SDK are external: between Publish and a delivery a message is in    *)
(* `wire`, and at-least-once delivery may put it there again.              *)
(*                                                                         *)
(* A step of a worker is what it does between two points at which another  *)
(* goroutine can see a difference.  A record* call is one step because its *)
(* counters change under phaseMu.RLock, which excludes beginMeasured, and  *)
(* because the sampler swaps each counter separately, so that no reader    *)
(* relates two of them before the workers are done.                        *)
(***************************************************************************)
EXTENDS Integers, FiniteSets

CONSTANTS Publishers, \* the publisher goroutines (-publishers)
          Consumers,  \* consumer goroutines
          Msgs,       \* messages each publisher sends (-msgs)
          Clients,    \* connections of the topology
          Options,    \* combinations of -warmup, -duration, -ack and -consumers
          MaxDup,     \* bound: messages the broker delivers a second time
          MaxTick     \* bound: rows the sampler writes before the last one

ASSUME BenchAssumption ==
  /\ IsFiniteSet(Publishers) /\ Publishers # {}
  /\ IsFiniteSet(Consumers)
  /\ Msgs \in Nat \ {0} /\ Clients \in Nat \ {0}
  /\ Options \subseteq [warmup : BOOLEAN, duration : BOOLEAN, ack : BOOLEAN,
                   consumers : SUBSET Consumers]
  /\ MaxDup \in Nat /\ MaxTick \in Nat

VARIABLES cfg,        \* the options of this run
          ctx,        \* the caller's context is cancelled
          held,       \* the setup client and the CSV file, while Run has them open
          clients,    \* SDK clients connected and not closed
          open,       \* their connections are up
          wire,       \* messages the broker still has to deliver
          dups,       \* redeliveries so far
          engine,     \* where Run is
          stop,       \* stopPub is closed
          ending,     \* how the phases before shutdown ended
          result,     \* what Run returned
          seq,        \* the shared sequence generator
          pub,        \* publisher -> its program counter, message and count
          con,        \* consumer -> its program counter, message and dup flag
          failed,     \* some worker put an error into errCh
          seen,       \* messages received at least once
          phaseFrom,  \* the last sequence number that is warmup traffic
          all,        \* counters of the whole run
          tot,        \* counters of the measured phase
          win,        \* counters of the current sampling window
          rows,       \* what the CSV rows written so far add up to
          drops,      \* the loss the summary reports
          sampler,    \* the state of the sampler goroutine
          ticks       \* rows it wrote so far

engineVars == <<engine, stop, ending, result>>
pubVars == <<seq, pub>>
conVars == <<con, seen>>
statVars == <<phaseFrom, all, tot, win, rows, drops, sampler, ticks>>
setupVars == <<held, clients>>
linkVars == <<open, wire, dups>>
vars == <<cfg, ctx, setupVars, linkVars, engineVars, pubVars, conVars, failed, statVars>>

-----------------------------------------------------------------------------
(* The counters.                                                           *)

Kinds == {"pub", "del", "cons", "dup", "ack"}

Zero == [k \in Kinds |-> 0]

Add(counters, kinds) ==
  [k \in Kinds |-> counters[k] + (IF k \in kinds THEN 1 ELSE 0)]

Plus(f, g) == [k \in Kinds |-> f[k] + g[k]]

Total == Cardinality(Publishers) * Msgs

\* A record of a warmup message leaves the measured counters alone.
Measured(s) == s > phaseFrom

\* The part of a record* call under phaseMu.RLock.
Record(s, kinds) ==
  /\ tot' = IF Measured(s) THEN Add(tot, kinds) ELSE tot
  /\ win' = IF Measured(s) THEN Add(win, kinds) ELSE win
  /\ UNCHANGED <<phaseFrom, rows, drops, sampler, ticks>>

DeliveryKinds(dup) == {"del", IF dup THEN "dup" ELSE "cons"}

\* Mutant: acks in flight are not waited for.
DrainedByConsumption ==
  IF cfg.ack THEN all["cons"] >= all["pub"] ELSE tot["cons"] >= tot["pub"]

\* drained: after pubDone, all["pub"] no longer changes and an ack is counted
\* after its delivery, so the loads are as good as one.
Drained ==
  IF cfg.ack THEN all["cons"] >= all["pub"] /\ all["ack"] >= all["del"]
             ELSE tot["cons"] >= tot["pub"]

-----------------------------------------------------------------------------
\* A consumer between two deliveries, or gone.
Idle(pc) == [pc |-> pc, seq |-> 0, dup |-> FALSE]

Init ==
  /\ cfg \in Options
  /\ ctx = FALSE /\ held = {} /\ clients = 0 /\ open = FALSE /\ wire = {} /\ dups = 0
  /\ engine = "setup"
  /\ stop = FALSE /\ ending = "none" /\ result = "none"
  /\ seq = 0
  /\ pub = [p \in Publishers |-> [pc |-> "off", seq |-> 0, sent |-> 0]]
  /\ con = [c \in Consumers |-> Idle("off")]
  /\ failed = FALSE /\ seen = {}
  /\ phaseFrom = 0 /\ all = Zero /\ tot = Zero /\ win = Zero /\ rows = Zero
  /\ drops = 0 /\ sampler = "off" /\ ticks = 0

\* The caller cancels the context it gave to Run.
Cancel ==
  /\ engine # "done" /\ ~ctx
  /\ ctx' = TRUE
  /\ UNCHANGED <<cfg, setupVars, linkVars, engineVars, pubVars, conVars, failed, statVars>>

\* The broker or the network ends the connections.
ConnectionLost ==
  /\ open
  /\ open' = FALSE
  /\ UNCHANGED <<cfg, ctx, setupVars, wire, dups, engineVars, pubVars, conVars, failed, statVars>>

\* The broker requeues and delivers again a message it already delivered.
Redeliver ==
  /\ open /\ dups < MaxDup
  /\ \E s \in seen \ wire : wire' = wire \union {s}
  /\ dups' = dups + 1
  /\ UNCHANGED <<cfg, ctx, setupVars, open, engineVars, pubVars, conVars, failed, statVars>>

-----------------------------------------------------------------------------
(* publishWorker.run                                                       *)

\* The head of the loop: all messages sent, or stopPub closed.
PublisherReturns(p) ==
  /\ pub[p].pc = "loop"
  /\ pub[p].sent = Msgs \/ stop
  /\ pub' = [pub EXCEPT ![p].pc = "done"]
  /\ UNCHANGED <<cfg, ctx, setupVars, linkVars, engineVars, seq, conVars, failed, statVars>>

\* Mutant: the loop does not count.
MintForever(p) ==
  /\ pub[p].pc = "loop" /\ ~stop
  /\ seq' = seq + 1
  /\ pub' = [pub EXCEPT ![p].pc = "publish", ![p].seq = seq + 1]
  /\ UNCHANGED <<cfg, ctx, setupVars, linkVars, engineVars, conVars, failed, statVars>>

\* seqGen.Add(1) after the stop check.
Mint(p) ==
  /\ pub[p].pc = "loop" /\ pub[p].sent < Msgs /\ ~stop
  /\ seq' = seq + 1
  /\ pub' = [pub EXCEPT ![p].pc = "publish", ![p].seq = seq + 1]
  /\ UNCHANGED <<cfg, ctx, setupVars, linkVars, engineVars, conVars, failed, statVars>>

PublishOk(p) ==
  /\ pub[p].pc = "publish" /\ open
  /\ wire' = wire \union {pub[p].seq}
  /\ pub' = [pub EXCEPT ![p].pc = "record"]
  /\ UNCHANGED <<cfg, ctx, setupVars, open, dups, engineVars, seq, conVars, failed, statVars>>

PublishErr(p) ==
  /\ pub[p].pc = "publish" /\ ~open
  /\ pub' = [pub EXCEPT ![p].pc = "done", ![p].seq = 0]
  /\ failed' = TRUE
  /\ UNCHANGED <<cfg, ctx, setupVars, linkVars, engineVars, seq, conVars, statVars>>

RecordPublish(p) ==
  /\ pub[p].pc = "record"
  /\ all' = Add(all, {"pub"})
  /\ Record(pub[p].seq, {"pub"})
  /\ pub' = [pub EXCEPT ![p] = [pc |-> "loop", seq |-> 0, sent |-> @.sent + 1]]
  /\ UNCHANGED <<cfg, ctx, setupVars, linkVars, engineVars, seq, conVars, failed>>

Publisher(p) ==
  PublisherReturns(p) \/ Mint(p) \/ PublishOk(p) \/ PublishErr(p) \/ RecordPublish(p)

PubDone == \A p \in Publishers : pub[p].pc = "done"

-----------------------------------------------------------------------------
(* consumeWorker.run                                                       *)

\* A delivery arrives; it may have been buffered in the SDK when the client
\* closed.  seen is swapped and the counters of the whole run change before
\* phaseMu is taken.
Receive(c) ==
  /\ con[c].pc = "range"
  /\ \E s \in wire :
       LET dup == s \in seen IN
       /\ wire' = wire \ {s}
       /\ con' = [con EXCEPT ![c] = [pc |-> "record", seq |-> s, dup |-> dup]]
       /\ seen' = seen \union {s}
       /\ all' = Add(all, DeliveryKinds(dup))
  /\ UNCHANGED <<cfg, ctx, setupVars, open, dups, engineVars, pubVars, failed,
                 phaseFrom, tot, win, rows, drops, sampler, ticks>>

RecordDeliver(c) ==
  /\ con[c].pc = "record"
  /\ Record(con[c].seq, DeliveryKinds(con[c].dup))
  /\ con' = [con EXCEPT ![c] = IF cfg.ack THEN [@ EXCEPT !.pc = "ack"] ELSE Idle("range")]
  /\ UNCHANGED <<cfg, ctx, setupVars, linkVars, engineVars, pubVars, failed, seen, all>>

AckOk(c) ==
  /\ con[c].pc = "ack" /\ open
  /\ con' = [con EXCEPT ![c].pc = "acked"]
  /\ UNCHANGED <<cfg, ctx, setupVars, linkVars, engineVars, pubVars, failed, seen, statVars>>

AckErr(c) ==
  /\ con[c].pc = "ack" /\ ~open
  /\ con' = [con EXCEPT ![c] = Idle("done")]
  /\ failed' = TRUE
  /\ UNCHANGED <<cfg, ctx, setupVars, linkVars, engineVars, pubVars, seen, statVars>>

RecordAck(c) ==
  /\ con[c].pc = "acked"
  /\ all' = Add(all, {"ack"})
  /\ Record(con[c].seq, {"ack"})
  /\ con' = [con EXCEPT ![c] = Idle("range")]
  /\ UNCHANGED <<cfg, ctx, setupVars, linkVars, engineVars, pubVars, failed, seen>>

\* The SDK closes the delivery channel and the range loop ends.
ConsumerReturns(c) ==
  /\ con[c].pc = "range" /\ ~open
  /\ con' = [con EXCEPT ![c] = Idle("done")]
  /\ UNCHANGED <<cfg, ctx, setupVars, linkVars, engineVars, pubVars, failed, seen, statVars>>

Consumer(c) ==
  \/ Receive(c) \/ RecordDeliver(c) \/ AckOk(c) \/ AckErr(c) \/ RecordAck(c)
  \/ ConsumerReturns(c)

-----------------------------------------------------------------------------
(* stats.beginMeasured and stats.sampleWindow                              *)

\* Mutant: the cutoff counts the publishes recorded, not the ones minted.
BeginMeasuredAtRecorded ==
  /\ phaseFrom' = all["pub"]
  /\ tot' = Zero /\ win' = Zero
  /\ drops' = 0

BeginMeasured ==
  /\ phaseFrom' = seq
  /\ tot' = Zero /\ win' = Zero
  /\ drops' = 0

\* Mutant: the window is read but not reset.
SampleWindowKeeps ==
  /\ rows' = Plus(rows, win)
  /\ win' = win
  /\ UNCHANGED <<phaseFrom, all, tot, drops>>

\* A row is written: the window counters are swapped with 0.
SampleWindow ==
  /\ rows' = Plus(rows, win)
  /\ win' = Zero
  /\ UNCHANGED <<phaseFrom, all, tot, drops>>

\* The window is swapped but the row cannot be written.  csvWriter keeps the
\* error and Run finds it in csv.close.
SampleWindowErr ==
  /\ win' = Zero
  /\ sampler' = "dead"
  /\ UNCHANGED <<phaseFrom, all, tot, rows, drops>>

\* The sampler's ticker fires.
Tick ==
  /\ sampler = "on" /\ engine # "done"
  /\ ticks < MaxTick /\ ticks' = ticks + 1
  /\ \/ SampleWindow /\ sampler' = "on"
     \/ SampleWindowErr
  /\ UNCHANGED <<cfg, ctx, setupVars, linkVars, engineVars, pubVars, conVars, failed>>

-----------------------------------------------------------------------------
(* Run: the setup, up to the start of the workers.  Any of its calls may   *)
(* fail, on the broker's answer, the connection or openCtx.                *)

\* closeClients.
CloseAll == clients' = 0 /\ open' = FALSE

SetupFails == engine' = "done" /\ result' = "setup"

ConnectSetup ==
  /\ engine = "setup"
  /\ \/ engine' = "fixture" /\ held' = {"setup"} /\ result' = result
     \/ SetupFails /\ held' = held
  /\ UNCHANGED <<cfg, ctx, clients, linkVars, stop, ending, pubVars, conVars, failed, statVars>>

\* OpenChannel, DeclareExchange, DeclareQueue and BindQueue; the setup client
\* is closed whichever of them fails.
DeclareFixture ==
  /\ engine = "fixture"
  /\ held' = {}
  /\ \/ engine' = "connect" /\ result' = result
     \/ SetupFails
  /\ UNCHANGED <<cfg, ctx, clients, linkVars, stop, ending, pubVars, conVars, failed, statVars>>

\* The next client and its channels.
ConnectClient ==
  /\ engine = "connect"
  /\ \/ /\ clients' = clients + 1 /\ open' = (clients = 0 \/ open)
        /\ engine' = IF clients' = Clients THEN "csv" ELSE engine
        /\ result' = result
     \/ CloseAll /\ SetupFails
  /\ UNCHANGED <<cfg, ctx, held, wire, dups, stop, ending, pubVars, conVars, failed, statVars>>

\* openCSV and newCSVWriter; a file that was created is closed by the defer.
OpenCSV ==
  /\ engine = "csv"
  /\ \/ held' = {"csv"} /\ engine' = "consume" /\ UNCHANGED <<clients, open, result>>
     \/ held' = {} /\ CloseAll /\ SetupFails
  /\ UNCHANGED <<cfg, ctx, wire, dups, stop, ending, pubVars, conVars, failed, statVars>>

\* Mutant: the consumers already started are not waited for.
ConsumeFailsAtOnce ==
  /\ engine = "consume" /\ \E c \in cfg.consumers : con[c].pc = "off"
  /\ CloseAll /\ SetupFails /\ held' = {}
  /\ UNCHANGED <<cfg, ctx, wire, dups, stop, ending, pubVars, conVars, failed, statVars>>

\* A Consume fails: the clients are closed and the consumers started so far
\* are waited for.
ConsumeFails ==
  /\ engine = "consume" /\ \E c \in cfg.consumers : con[c].pc = "off"
  /\ CloseAll /\ engine' = "abort"
  /\ UNCHANGED <<cfg, ctx, held, wire, dups, stop, ending, result, pubVars, conVars, failed, statVars>>

StartConsumer ==
  /\ engine = "consume" /\ open
  /\ \E c \in cfg.consumers : con[c].pc = "off" /\ con' = [con EXCEPT ![c] = Idle("range")]
  /\ UNCHANGED <<cfg, ctx, setupVars, linkVars, engineVars, pubVars, failed, seen, statVars>>

StartPublishers ==
  /\ engine = "consume" /\ \A c \in cfg.consumers : con[c].pc # "off"
  /\ pub' = [p \in Publishers |-> [pub[p] EXCEPT !.pc = "loop"]]
  /\ engine' = IF cfg.warmup THEN "warmup" ELSE "measured"
  /\ sampler' = IF cfg.warmup THEN "off" ELSE "on"
  /\ UNCHANGED <<cfg, ctx, setupVars, linkVars, stop, ending, result, seq, conVars, failed,
                 phaseFrom, all, tot, win, rows, drops, ticks>>

Aborted ==
  /\ engine = "abort"
  /\ \A c \in Consumers : con[c].pc \in {"off", "done"}
  /\ SetupFails /\ held' = {}
  /\ UNCHANGED <<cfg, ctx, clients, linkVars, stop, ending, pubVars, conVars, failed, statVars>>

Setup ==
  \/ ConnectSetup \/ DeclareFixture \/ ConnectClient \/ OpenCSV
  \/ ConsumeFails \/ StartConsumer \/ StartPublishers \/ Aborted

-----------------------------------------------------------------------------
(* Run: the phases.                                                        *)

\* Warmup interrupted, or every message published before it ended.
WarmupAborts ==
  /\ engine = "warmup"
  /\ \/ ctx /\ ending' = "interrupted"
     \/ PubDone /\ ending' = "rejected"
  /\ engine' = "shutdown"
  /\ UNCHANGED <<cfg, ctx, setupVars, linkVars, stop, result, pubVars, conVars, failed, statVars>>

\* The warmup timer fires.
WarmupEnds ==
  /\ engine = "warmup"
  /\ BeginMeasured
  /\ IF seq >= Total
       THEN engine' = "shutdown" /\ ending' = "rejected" /\ sampler' = sampler
       ELSE engine' = "measured" /\ ending' = ending /\ sampler' = "on"
  /\ UNCHANGED <<cfg, ctx, setupVars, linkVars, stop, result, pubVars, conVars, failed, all, rows, ticks>>

\* The measured phase is cut short by -duration or by the caller.
StopPublishers ==
  /\ engine = "measured" /\ ~stop
  /\ cfg.duration \/ ctx
  /\ stop' = TRUE
  /\ UNCHANGED <<cfg, ctx, setupVars, linkVars, engine, ending, result, pubVars, conVars, failed, statVars>>

\* pubDone: what is left to do is decided on the counters.
MeasuredEnds ==
  /\ engine = "measured" /\ PubDone
  /\ LET needDrain == IF cfg.ack THEN all["pub"] > 0 ELSE tot["pub"] > 0 IN
     engine' = IF ~ctx /\ cfg.consumers # {} /\ needDrain THEN "drain" ELSE "tally"
  /\ ending' = IF ctx THEN "interrupted" ELSE ending
  /\ UNCHANGED <<cfg, ctx, setupVars, linkVars, stop, result, pubVars, conVars, failed, statVars>>

DrainComplete ==
  /\ engine = "drain" /\ Drained
  /\ engine' = "tally" /\ ending' = "drained"
  /\ UNCHANGED <<cfg, ctx, setupVars, linkVars, stop, result, pubVars, conVars, failed, statVars>>

\* The deadline passes, or the caller cancels, between two polls.
DrainGivesUp ==
  /\ engine = "drain" /\ ~Drained
  /\ engine' = "tally"
  /\ \/ ending' = "timeout"
     \/ ctx /\ ending' = "interrupted"
  /\ UNCHANGED <<cfg, ctx, setupVars, linkVars, stop, result, pubVars, conVars, failed, statVars>>

\* Mutant: the loss is only computed after a drain.
TallyAfterDrain ==
  /\ engine = "tally"
  /\ drops' = IF ending \in {"drained", "timeout"} /\ tot["pub"] > tot["cons"]
                THEN tot["pub"] - tot["cons"] ELSE drops
  /\ engine' = "shutdown"
  /\ UNCHANGED <<cfg, ctx, setupVars, linkVars, stop, ending, result, pubVars, conVars, failed,
                 phaseFrom, all, tot, win, rows, sampler, ticks>>

\* st.drops, from the counters as they are before shutdown.
Tally ==
  /\ engine = "tally"
  /\ drops' = IF ending # "interrupted" /\ tot["pub"] > tot["cons"]
                THEN tot["pub"] - tot["cons"] ELSE drops
  /\ engine' = "shutdown"
  /\ UNCHANGED <<cfg, ctx, setupVars, linkVars, stop, ending, result, pubVars, conVars, failed,
                 phaseFrom, all, tot, win, rows, sampler, ticks>>

\* shutdown: stop the publishers, wait for them, close the clients, wait for
\* the consumers.
Shutdown ==
  /\ engine = "shutdown"
  /\ stop' = TRUE /\ engine' = "closing"
  /\ UNCHANGED <<cfg, ctx, setupVars, linkVars, ending, result, pubVars, conVars, failed, statVars>>

\* Mutant: the consumers are waited for before the clients are closed.
CloseClientsLast ==
  /\ engine = "closing" /\ PubDone /\ \A c \in cfg.consumers : con[c].pc = "done"
  /\ CloseAll /\ engine' = "joining"
  /\ UNCHANGED <<cfg, ctx, held, wire, dups, stop, ending, result, pubVars, conVars, failed, statVars>>

CloseClients ==
  /\ engine = "closing" /\ PubDone
  /\ CloseAll /\ engine' = "joining"
  /\ UNCHANGED <<cfg, ctx, held, wire, dups, stop, ending, result, pubVars, conVars, failed, statVars>>

\* The consumers are gone.  A run that left in the warmup returns here; the
\* others end the sampler, which writes a last row, and return.
Outcome(csv) ==
  CASE ctx -> "interrupted"
    [] ~ctx /\ failed -> "failed"
    [] ~ctx /\ ~failed /\ csv = "dead" -> "csv"
    [] OTHER -> "ok"

Return ==
  /\ engine = "joining"
  /\ \A c \in cfg.consumers : con[c].pc = "done"
  /\ engine' = "done" /\ held' = {}
  /\ CASE sampler = "off" -> result' = ending /\ UNCHANGED statVars
       [] sampler = "dead" -> result' = Outcome("dead") /\ UNCHANGED statVars
       [] sampler = "on" ->
            /\ \/ SampleWindow /\ sampler' = "done" /\ result' = Outcome("done")
               \/ SampleWindowErr /\ result' = Outcome("dead")
            /\ ticks' = ticks
  /\ UNCHANGED <<cfg, ctx, clients, linkVars, stop, ending, pubVars, conVars, failed>>

Run ==
  \/ Setup \/ WarmupAborts \/ WarmupEnds \/ StopPublishers \/ MeasuredEnds
  \/ DrainComplete \/ DrainGivesUp \/ Tally \/ Shutdown \/ CloseClients \/ Return

Next ==
  \/ Cancel \/ ConnectionLost \/ Redeliver
  \/ \E p \in Publishers : Publisher(p)
  \/ \E c \in Consumers : Consumer(c)
  \/ Tick
  \/ Run

Spec == Init /\ [][Next]_vars

-----------------------------------------------------------------------------
(* Safety                                                                  *)

TypeOK ==
  /\ cfg \in Options
  /\ ctx \in BOOLEAN /\ open \in BOOLEAN /\ failed \in BOOLEAN /\ stop \in BOOLEAN
  /\ seq \in 0..Total /\ phaseFrom \in 0..Total
  /\ wire \subseteq 1..seq /\ seen \subseteq 1..seq
  /\ dups \in 0..MaxDup /\ held \subseteq {"setup", "csv"} /\ clients \in 0..Clients
  /\ engine \in {"setup", "fixture", "connect", "csv", "consume", "abort", "warmup", "measured", "drain", "tally", "shutdown", "closing",
                 "joining", "done"}
  /\ ending \in {"none", "interrupted", "rejected", "drained", "timeout"}
  /\ result \in {"none", "setup", "interrupted", "rejected", "failed", "csv", "ok"}
  /\ pub \in [Publishers -> [pc : {"off", "loop", "publish", "record", "done"},
                             seq : 0..Total, sent : 0..Msgs]]
  /\ con \in [Consumers -> [pc : {"off", "range", "record", "ack", "acked", "done"},
                            seq : 0..Total, dup : BOOLEAN]]
  /\ \A f \in {all, tot, win, rows} : f \in [Kinds -> 0..(Total + MaxDup)]
  /\ drops \in 0..Total
  /\ sampler \in {"off", "on", "dead", "done"} /\ ticks \in 0..MaxTick

(* The measured counters hold exactly the traffic minted after the cutoff  *)
(* that beginMeasured captured, whatever the workers were doing when it    *)
(* did: every such message is counted as published, or still in a          *)
(* publisher's hands, and every one ever received is counted as consumed   *)
(* once, or still in a consumer's hands.                                   *)
MeasuredExact ==
  /\ ~failed =>
       tot["pub"] + Cardinality({p \in Publishers :
                       pub[p].pc \in {"publish", "record"} /\ pub[p].seq > phaseFrom})
         = seq - phaseFrom
  /\ tot["cons"] + Cardinality({c \in Consumers :
                       con[c].pc = "record" /\ ~con[c].dup /\ con[c].seq > phaseFrom})
       = Cardinality({s \in seen : s > phaseFrom})

(* The CSV rows and the window still open add up to the totals of the      *)
(* summary, also for records that race with the sampler's swaps and for    *)
(* the ones that arrive during shutdown, as long as every row was written. *)
WindowsConserve ==
  sampler # "dead" => Plus(rows, win) = tot

(* With -ack, once drained has let the engine go on, no consumer is        *)
(* between a first delivery and its ack: closing the clients cannot turn   *)
(* an ack in flight into a worker failure.                                 *)
DrainedIsQuiet ==
  cfg.ack /\ ending = "drained" =>
    \A c \in Consumers : con[c].pc \in {"record", "ack", "acked"} => con[c].dup

(* What a successful summary may say.  No more is consumed than published, *)
(* the loss is not underreported, a drained run reports none, the CSV rows *)
(* add up to the summary, and a run that was not cut short measured        *)
(* everything after the warmup, which is never nothing.                    *)
SuccessAccounted ==
  result = "ok" =>
    /\ rows = tot
    /\ tot["del"] = tot["cons"] + tot["dup"]
    /\ tot["cons"] <= tot["pub"]
    /\ tot["pub"] <= tot["cons"] + drops
    /\ ending = "drained" => drops = 0 /\ tot["cons"] = tot["pub"]
    /\ ~cfg.duration => tot["pub"] = Total - phaseFrom /\ tot["pub"] > 0

(* When Run returns, on success or on whichever of its error paths, the    *)
(* clients, the setup client and the CSV file are closed and every worker  *)
(* and the sampler have returned: nobody sends to errCh once it is closed, *)
(* and a caller that retries finds no goroutine of the last attempt.       *)
NothingLeaks ==
  engine = "done" =>
    /\ held = {} /\ clients = 0 /\ ~open
    /\ \A p \in Publishers : pub[p].pc \in {"off", "done"}
    /\ \A c \in Consumers : con[c].pc \in {"off", "done"}
    /\ sampler # "on"

-----------------------------------------------------------------------------
(* Liveness: the goroutines run, timers fire and SDK calls return.  The    *)
(* ticker is not needed for progress, and the caller need not cancel.      *)

Fairness ==
  /\ \A p \in Publishers : WF_vars(Publisher(p))
  /\ \A c \in Consumers : WF_vars(Consumer(c))
  /\ WF_vars(Run)

FairSpec == Spec /\ Fairness

(* Run always returns: whichever phase is cut short and whichever worker   *)
(* fails, shutdown's two waits end.                                        *)
RunReturns == <>(engine = "done")
=============================================================================
