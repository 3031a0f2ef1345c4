---------------------------- MODULE BenchProofs -----------------------------
(***************************************************************************)
(* The numbers a run of the load generator reports are right, and it leaves *)
(* nothing behind, for any number of publishers, consumers, messages and   *)
(* redeliveries.                                                            *)
(***************************************************************************)
EXTENDS Bench, FiniteSetTheorems, TLAPS

\* A leaf is Zenon's unless it names another prover.
USE Zenon

-----------------------------------------------------------------------------
(* Who has what in hand.                                                    *)

\* Publishers with a message minted and not yet recorded, and the ones of these
\* whose Publish has returned.
Minting == {p \in Publishers : pub[p].pc \in {"publish", "record"}}
Recording == {p \in Publishers : pub[p].pc = "record"}
MeasuredMinting ==
  {p \in Publishers : pub[p].pc \in {"publish", "record"} /\ pub[p].seq > phaseFrom}

\* The sends that are still to be started: the i-th of publisher p.  Left is
\* without the ones of publishers that have returned.
Started(p) == pub[p].sent + (IF pub[p].pc \in {"publish", "record"} THEN 1 ELSE 0)
Unsent == {r \in Publishers \X (1..Msgs) : r[2] > Started(r[1])}
Left == {r \in Unsent : pub[r[1]].pc # "done"}

\* Consumers between a delivery and its record, and its ack.
Busy == {c \in Consumers : con[c].pc \in {"record", "ack", "acked"}}
DupRecording == {c \in Consumers : con[c].pc = "record" /\ con[c].dup}
MeasuredRecording ==
  {c \in Consumers : con[c].pc = "record" /\ ~con[c].dup /\ con[c].seq > phaseFrom}
MeasuredSeen == {s \in seen : s > phaseFrom}

-----------------------------------------------------------------------------
(* The inductive invariant.                                                 *)

Points == {"off", "loop", "publish", "record", "done"}
Stages == {"off", "range", "record", "ack", "acked", "done"}
Engines == {"setup", "fixture", "connect", "csv", "consume", "abort", "warmup", "measured",
            "drain", "tally", "shutdown", "closing", "joining", "done"}
Endings == {"none", "interrupted", "rejected", "drained", "timeout"}
Results == {"none", "setup", "interrupted", "rejected", "failed", "csv", "ok"}

\* Types, without the bounds that only the books below establish.
Shape ==
  /\ cfg \in Options
  /\ ctx \in BOOLEAN /\ open \in BOOLEAN /\ failed \in BOOLEAN /\ stop \in BOOLEAN
  /\ seq \in Nat /\ phaseFrom \in Nat /\ phaseFrom <= seq
  /\ wire \subseteq 1..seq /\ seen \subseteq 1..seq
  /\ dups \in 0..MaxDup /\ held \subseteq {"setup", "csv"} /\ clients \in 0..Clients
  /\ engine \in Engines /\ ending \in Endings /\ result \in Results
  /\ pub \in [Publishers -> [pc : Points, seq : Nat, sent : Nat]]
  /\ con \in [Consumers -> [pc : Stages, seq : Nat, dup : BOOLEAN]]
  /\ all \in [Kinds -> Nat] /\ tot \in [Kinds -> Nat]
  /\ win \in [Kinds -> Nat] /\ rows \in [Kinds -> Nat]
  /\ drops \in Nat /\ drops <= Total
  /\ sampler \in {"off", "on", "dead", "done"} /\ ticks \in 0..MaxTick

\* Sequence numbers are minted once each, and no more of them than there are
\* messages to send.  A message that is not out yet is on no wire.
Holding(p) ==
  /\ pub[p].seq <= seq /\ pub[p].sent <= Msgs
  /\ pub[p].pc \in {"publish", "record"} => pub[p].sent < Msgs
  /\ pub[p].pc = "publish" => pub[p].seq > 0 /\ pub[p].seq \notin wire \union seen

Minted ==
  /\ \A p \in Publishers : Holding(p)
  /\ \A p, r \in Publishers :
       pub[p].pc = "publish" /\ pub[r].pc = "publish" /\ pub[p].seq = pub[r].seq => p = r
  /\ \A c \in Consumers : con[c].seq <= seq
  /\ seq + Cardinality(Left) <= Total
  /\ ~failed => seq + Cardinality(Unsent) = Total

\* The counters of the whole run.
Books ==
  /\ all["pub"] + Cardinality(Minting) <= seq
  /\ ~failed => all["pub"] + Cardinality(Minting) = seq
  /\ Cardinality(wire \union seen) <= all["pub"] + Cardinality(Recording)
  /\ all["cons"] = Cardinality(seen)
  /\ all["dup"] + Cardinality(wire \intersect seen) <= dups
  /\ all["del"] = all["cons"] + all["dup"]
  /\ all["ack"] + Cardinality(Busy) <= all["del"]

\* The counters of the measured phase.
Tallies ==
  /\ ~failed => tot["pub"] + Cardinality(MeasuredMinting) = seq - phaseFrom
  /\ tot["cons"] + Cardinality(MeasuredRecording) = Cardinality(MeasuredSeen)
  /\ tot["dup"] + Cardinality(DupRecording) <= all["dup"]
  /\ tot["del"] = tot["cons"] + tot["dup"]
  /\ tot["pub"] <= all["pub"] /\ tot["ack"] <= all["ack"]

\* The rows written and the open window.
Windows ==
  /\ \A k \in Kinds : rows[k] + win[k] <= tot[k]
  /\ sampler # "dead" => \A k \in Kinds : rows[k] + win[k] = tot[k]
  /\ sampler = "off" => \A k \in Kinds : rows[k] = 0

\* Run's phases: what is open and who runs in each.
Before == {"setup", "fixture", "connect", "csv", "consume", "abort"}
After == {"drain", "tally", "shutdown", "closing", "joining", "done"}
Measuring == sampler # "off"

Phases ==
  /\ clients = 0 => ~open
  /\ \A c \in Consumers \ cfg.consumers : con[c].pc = "off"
  /\ engine \in {"setup", "fixture", "connect", "csv"} => \A c \in Consumers : con[c].pc = "off"
  /\ engine \in {"setup", "fixture", "abort", "joining"} => clients = 0
  /\ engine \in {"setup", "connect", "csv"} => held = {}
  /\ engine = "connect" => clients < Clients
  /\ engine \in Before => \A p \in Publishers : pub[p].pc = "off"
  /\ engine \in Before \union {"warmup"} => sampler = "off" /\ phaseFrom = 0
  /\ engine \in {"measured", "drain", "tally"} => sampler \in {"on", "dead"}
  /\ sampler = "done" => engine = "done"
  /\ engine = "joining" => PubDone
  /\ Measuring /\ engine \in After => PubDone
  /\ Measuring => phaseFrom < Total
  /\ NothingLeaks

\* Why the run went where it is.
Reasons ==
  /\ ending = "interrupted" => ctx
  /\ ending = "drained" => engine \in After /\ Measuring
  /\ engine \in {"shutdown", "closing", "joining"} /\ ~Measuring =>
       ending \in {"interrupted", "rejected"}
  /\ stop => engine \in {"closing", "joining", "done"} \/ cfg.duration \/ ctx
  /\ \A p \in Publishers : pub[p].pc = "done" => pub[p].sent = Msgs \/ stop \/ failed
  /\ Measuring /\ engine \in After /\ ~cfg.duration /\ ~ctx /\ ~failed =>
       \A p \in Publishers : pub[p].sent = Msgs
  /\ result = "ok" => engine = "done" /\ sampler = "done" /\ ~ctx /\ ~failed /\ rows = tot

\* Nothing new arrives after a drain, and the loss is counted once.
Drops ==
  /\ engine \in Before \union {"warmup", "measured", "drain", "tally"} => drops = 0
  /\ Measuring /\ engine \in {"shutdown", "closing", "joining", "done"} /\ ending # "interrupted" =>
       tot["pub"] <= tot["cons"] + drops
  /\ ending = "drained" /\ ~failed => drops = 0 /\ tot["cons"] = tot["pub"]
  /\ cfg.ack /\ ending = "drained" => wire \subseteq seen /\ \A c \in Busy : con[c].dup

BenchInv ==
  /\ Shape /\ Minted /\ Books /\ Tallies /\ Windows /\ Phases /\ Reasons /\ Drops

-----------------------------------------------------------------------------
(* Counting.                                                                *)

LEMMA Grows ==
  ASSUME NEW S, NEW T, NEW x, IsFiniteSet(S), x \notin S, T = S \union {x}
  PROVE  Cardinality(T) = Cardinality(S) + 1
  BY FS_AddElement

LEMMA Shrinks ==
  ASSUME NEW S, NEW T, NEW x, IsFiniteSet(S), x \in S, T = S \ {x}
  PROVE  Cardinality(T) = Cardinality(S) - 1
  BY FS_RemoveElement

LEMMA Numbered ==
  ASSUME NEW a \in Nat, NEW b \in Nat, a <= b
  PROVE  /\ IsFiniteSet((a + 1)..b) /\ Cardinality((a + 1)..b) = b - a
         /\ IsFiniteSet(1..b) /\ Cardinality(1..b) = b
  <1>1. ASSUME NEW c \in Nat, c <= b
        PROVE  IsFiniteSet((c + 1)..b) /\ Cardinality((c + 1)..b) = b - c
    <2>1. c + 1 \in Int /\ b \in Int
      BY SMT
    <2>2. Cardinality((c + 1)..b) = IF c + 1 > b THEN 0 ELSE b - (c + 1) + 1
      BY <2>1, FS_Interval
    <2>3. IsFiniteSet((c + 1)..b)
      BY <2>1, FS_Interval
    <2>4. (IF c + 1 > b THEN 0 ELSE b - (c + 1) + 1) = b - c
      BY <1>1, SMT
    <2> QED BY <2>2, <2>3, <2>4, SMT
  <1>2. 0 + 1 = 1 /\ b - 0 = b /\ 0 <= b /\ 0 \in Nat
    BY SMT
  <1>3. IsFiniteSet((0 + 1)..b) /\ Cardinality((0 + 1)..b) = b - 0
    BY <1>1, <1>2
  <1> QED BY <1>1, <1>2, <1>3

LEMMA TotalType == Total \in Nat \ {0}
  <1>1. Cardinality(Publishers) \in Nat \ {0}
    BY BenchAssumption, FS_CardinalityType, FS_EmptySet
  <1>2. Msgs \in Nat \ {0}
    BY BenchAssumption
  <1>3. \A m, n \in Nat \ {0} : m * n \in Nat \ {0}
    BY SMT
  <1> QED BY <1>1, <1>2, <1>3 DEF Total

LEMMA AddIs ==
  ASSUME NEW f \in [Kinds -> Nat], NEW ks
  PROVE  /\ Add(f, ks) \in [Kinds -> Nat]
         /\ \A k \in ks \intersect Kinds : Add(f, ks)[k] = f[k] + 1
         /\ \A k \in Kinds \ ks : Add(f, ks)[k] = f[k]
  BY SMT DEF Add

\* All the sets that the invariant counts are finite.
LEMMA Finite ==
  ASSUME Shape
  PROVE  /\ IsFiniteSet(Minting) /\ Cardinality(Minting) \in Nat
         /\ IsFiniteSet(Recording) /\ Cardinality(Recording) \in Nat
         /\ IsFiniteSet(MeasuredMinting) /\ Cardinality(MeasuredMinting) \in Nat
         /\ IsFiniteSet(Unsent) /\ Cardinality(Unsent) \in Nat
         /\ IsFiniteSet(Left) /\ Cardinality(Left) \in Nat
         /\ IsFiniteSet(Busy) /\ Cardinality(Busy) \in Nat
         /\ IsFiniteSet(DupRecording) /\ Cardinality(DupRecording) \in Nat
         /\ IsFiniteSet(MeasuredRecording) /\ Cardinality(MeasuredRecording) \in Nat
         /\ IsFiniteSet(wire) /\ IsFiniteSet(seen) /\ Cardinality(seen) \in Nat
         /\ IsFiniteSet(wire \union seen) /\ Cardinality(wire \union seen) \in Nat
         /\ IsFiniteSet(wire \intersect seen) /\ Cardinality(wire \intersect seen) \in Nat
         /\ IsFiniteSet(MeasuredSeen) /\ Cardinality(MeasuredSeen) \in Nat
  <1>1. ASSUME NEW S, NEW T \in SUBSET S, IsFiniteSet(S)
        PROVE  IsFiniteSet(T) /\ Cardinality(T) \in Nat
    BY <1>1, FS_Subset, FS_CardinalityType
  <1>2. \A S : S \subseteq Publishers => IsFiniteSet(S) /\ Cardinality(S) \in Nat
    BY <1>1, BenchAssumption
  <1>3. \A S : S \subseteq Consumers => IsFiniteSet(S) /\ Cardinality(S) \in Nat
    BY <1>1, BenchAssumption
  <1>4. IsFiniteSet(Publishers \X (1..Msgs))
    <2>1. IsFiniteSet(1..Msgs)
      BY BenchAssumption, FS_Interval, SMT
    <2> QED BY <2>1, BenchAssumption, FS_Product
  <1>5. \A S : S \subseteq Publishers \X (1..Msgs) => IsFiniteSet(S) /\ Cardinality(S) \in Nat
    BY <1>1, <1>4
  <1>6. IsFiniteSet(1..seq)
    BY FS_Interval, SMT DEF Shape
  <1>7. \A S : S \subseteq 1..seq => IsFiniteSet(S) /\ Cardinality(S) \in Nat
    BY <1>1, <1>6
  <1>8. wire \subseteq 1..seq /\ seen \subseteq 1..seq
    BY DEF Shape
  <1>9. Minting \subseteq Publishers /\ Recording \subseteq Publishers
        /\ MeasuredMinting \subseteq Publishers
    BY DEF Minting, Recording, MeasuredMinting
  <1>10. Busy \subseteq Consumers /\ DupRecording \subseteq Consumers
         /\ MeasuredRecording \subseteq Consumers
    BY DEF Busy, DupRecording, MeasuredRecording
  <1>11. Unsent \subseteq Publishers \X (1..Msgs) /\ Left \subseteq Publishers \X (1..Msgs)
    BY DEF Unsent, Left
  <1>12. wire \union seen \subseteq 1..seq /\ wire \intersect seen \subseteq 1..seq
         /\ MeasuredSeen \subseteq 1..seq
    BY <1>8 DEF MeasuredSeen
  <1>13. /\ IsFiniteSet(Minting) /\ Cardinality(Minting) \in Nat
         /\ IsFiniteSet(Recording) /\ Cardinality(Recording) \in Nat
         /\ IsFiniteSet(MeasuredMinting) /\ Cardinality(MeasuredMinting) \in Nat
    BY <1>2, <1>9
  <1>14. /\ IsFiniteSet(Busy) /\ Cardinality(Busy) \in Nat
         /\ IsFiniteSet(DupRecording) /\ Cardinality(DupRecording) \in Nat
         /\ IsFiniteSet(MeasuredRecording) /\ Cardinality(MeasuredRecording) \in Nat
    BY <1>3, <1>10
  <1>15. /\ IsFiniteSet(Unsent) /\ Cardinality(Unsent) \in Nat
         /\ IsFiniteSet(Left) /\ Cardinality(Left) \in Nat
    BY <1>5, <1>11
  <1>16. /\ IsFiniteSet(wire) /\ IsFiniteSet(seen) /\ Cardinality(seen) \in Nat
         /\ IsFiniteSet(wire \union seen) /\ Cardinality(wire \union seen) \in Nat
         /\ IsFiniteSet(wire \intersect seen) /\ Cardinality(wire \intersect seen) \in Nat
         /\ IsFiniteSet(MeasuredSeen) /\ Cardinality(MeasuredSeen) \in Nat
    BY <1>7, <1>8, <1>12
  <1> QED BY <1>13, <1>14, <1>15, <1>16

-----------------------------------------------------------------------------
(* What the steps of a worker do to its record, and to the sets.            *)

PubRecord == [pc : Points, seq : Nat, sent : Nat]
ConRecord == [pc : Stages, seq : Nat, dup : BOOLEAN]

\* What Publisher(p) leaves alone.
LEMMA PubFrame ==
  ASSUME NEW p \in Publishers, Publisher(p)
  PROVE  /\ con' = con /\ seen' = seen /\ dups' = dups /\ phaseFrom' = phaseFrom
         /\ cfg' = cfg /\ ctx' = ctx /\ held' = held /\ clients' = clients /\ open' = open
         /\ engine' = engine /\ stop' = stop /\ ending' = ending /\ result' = result
         /\ rows' = rows /\ drops' = drops /\ sampler' = sampler /\ ticks' = ticks
         /\ ~Mint(p) => seq' = seq
         /\ ~PublishOk(p) => wire' = wire
         /\ ~PublishErr(p) => failed' = failed
         /\ ~RecordPublish(p) => all' = all /\ tot' = tot /\ win' = win
  BY DEF Publisher, PublisherReturns, Mint, PublishOk, PublishErr, RecordPublish, Record,
         setupVars, linkVars, engineVars, conVars, statVars

LEMMA PubMoves ==
  ASSUME Shape, NEW p \in Publishers, Publisher(p)
  PROVE  /\ pub' \in [Publishers -> PubRecord]
         /\ \A q \in Publishers \ {p} : pub'[q] = pub[q]
         /\ PublisherReturns(p) =>
              pub'[p].pc = "done" /\ pub'[p].seq = pub[p].seq /\ pub'[p].sent = pub[p].sent
         /\ Mint(p) =>
              pub'[p].pc = "publish" /\ pub'[p].seq = seq + 1 /\ pub'[p].sent = pub[p].sent
         /\ PublishOk(p) =>
              pub'[p].pc = "record" /\ pub'[p].seq = pub[p].seq /\ pub'[p].sent = pub[p].sent
         /\ PublishErr(p) =>
              pub'[p].pc = "done" /\ pub'[p].seq = 0 /\ pub'[p].sent = pub[p].sent
         /\ RecordPublish(p) =>
              pub'[p].pc = "loop" /\ pub'[p].seq = 0 /\ pub'[p].sent = pub[p].sent + 1
  <1>1. pub \in [Publishers -> PubRecord] /\ seq \in Nat
    BY DEF Shape, PubRecord
  <1>2. CASE PublisherReturns(p)
    BY <1>1, <1>2 DEF PublisherReturns, Mint, PublishOk, PublishErr, RecordPublish, PubRecord, Points
  <1>3. CASE Mint(p)
    BY <1>1, <1>3, SMT DEF PublisherReturns, Mint, PublishOk, PublishErr, RecordPublish, PubRecord, Points
  <1>4. CASE PublishOk(p)
    BY <1>1, <1>4 DEF PublisherReturns, Mint, PublishOk, PublishErr, RecordPublish, PubRecord, Points
  <1>5. CASE PublishErr(p)
    BY <1>1, <1>5 DEF PublisherReturns, Mint, PublishOk, PublishErr, RecordPublish, PubRecord, Points
  <1>6. CASE RecordPublish(p)
    BY <1>1, <1>6, SMT DEF PublisherReturns, Mint, PublishOk, PublishErr, RecordPublish, PubRecord, Points
  <1> QED BY <1>2, <1>3, <1>4, <1>5, <1>6 DEF Publisher

\* Minting, Recording and MeasuredMinting.
LEMMA PubHands ==
  ASSUME Shape, NEW p \in Publishers, Publisher(p)
  PROVE  /\ PublisherReturns(p) => /\ Minting' = Minting /\ Recording' = Recording
                                   /\ MeasuredMinting' = MeasuredMinting
         /\ Mint(p) => /\ p \notin Minting /\ Minting' = Minting \union {p}
                       /\ Recording' = Recording
                       /\ p \notin MeasuredMinting
                       /\ MeasuredMinting' = MeasuredMinting \union {p}
         /\ PublishOk(p) => /\ Minting' = Minting
                            /\ p \notin Recording /\ Recording' = Recording \union {p}
                            /\ MeasuredMinting' = MeasuredMinting
         /\ PublishErr(p) => /\ p \in Minting /\ Minting' = Minting \ {p}
                             /\ Recording' = Recording
         /\ RecordPublish(p) => /\ p \in Minting /\ Minting' = Minting \ {p}
                                /\ p \in Recording /\ Recording' = Recording \ {p}
                                /\ MeasuredMinting' = MeasuredMinting \ {p}
                                /\ p \in MeasuredMinting <=> Measured(pub[p].seq)
  <1>1. /\ \A q \in Publishers \ {p} : pub'[q] = pub[q]
        /\ phaseFrom' = phaseFrom /\ seq \in Nat /\ phaseFrom \in Nat /\ phaseFrom <= seq
    BY PubMoves, PubFrame DEF Shape
  <1>2. ASSUME PublisherReturns(p)
        PROVE  Minting' = Minting /\ Recording' = Recording /\ MeasuredMinting' = MeasuredMinting
    <2>1. pub[p].pc = "loop" /\ pub'[p].pc = "done"
      BY <1>2, PubMoves DEF PublisherReturns
    <2> QED BY <1>1, <2>1 DEF Minting, Recording, MeasuredMinting
  <1>3. ASSUME Mint(p)
        PROVE  /\ p \notin Minting /\ Minting' = Minting \union {p} /\ Recording' = Recording
               /\ p \notin MeasuredMinting /\ MeasuredMinting' = MeasuredMinting \union {p}
    <2>1. pub[p].pc = "loop" /\ pub'[p].pc = "publish" /\ pub'[p].seq > phaseFrom
      BY <1>1, <1>3, PubMoves, SMT DEF Mint
    <2> QED BY <1>1, <2>1 DEF Minting, Recording, MeasuredMinting
  <1>4. ASSUME PublishOk(p)
        PROVE  /\ Minting' = Minting /\ p \notin Recording /\ Recording' = Recording \union {p}
               /\ MeasuredMinting' = MeasuredMinting
    <2>1. pub[p].pc = "publish" /\ pub'[p].pc = "record" /\ pub'[p].seq = pub[p].seq
      BY <1>4, PubMoves DEF PublishOk
    <2> QED BY <1>1, <2>1 DEF Minting, Recording, MeasuredMinting
  <1>5. ASSUME PublishErr(p)
        PROVE  p \in Minting /\ Minting' = Minting \ {p} /\ Recording' = Recording
    <2>1. pub[p].pc = "publish" /\ pub'[p].pc = "done"
      BY <1>5, PubMoves DEF PublishErr
    <2> QED BY <1>1, <2>1 DEF Minting, Recording
  <1>6. ASSUME RecordPublish(p)
        PROVE  /\ p \in Minting /\ Minting' = Minting \ {p}
               /\ p \in Recording /\ Recording' = Recording \ {p}
               /\ MeasuredMinting' = MeasuredMinting \ {p}
               /\ p \in MeasuredMinting <=> Measured(pub[p].seq)
    <2>1. pub[p].pc = "record" /\ pub'[p].pc = "loop"
      BY <1>6, PubMoves DEF RecordPublish
    <2> QED BY <1>1, <2>1 DEF Minting, Recording, MeasuredMinting, Measured
  <1> QED BY <1>2, <1>3, <1>4, <1>5, <1>6

\* Unsent and Left.
LEMMA PubLeft ==
  ASSUME Shape, NEW p \in Publishers, Publisher(p)
  PROVE  /\ PublisherReturns(p) => Unsent' = Unsent /\ Left' \subseteq Left
         /\ Mint(p) => \E r \in Left : Unsent' = Unsent \ {r} /\ Left' = Left \ {r}
         /\ PublishOk(p) => Unsent' = Unsent /\ Left' = Left
         /\ PublishErr(p) => Left' \subseteq Left
         /\ RecordPublish(p) => Unsent' = Unsent /\ Left' = Left
  <1>1. /\ \A q \in Publishers \ {p} : pub'[q] = pub[q] /\ Started(q)' = Started(q)
        /\ pub[p].sent \in Nat /\ Msgs \in Nat
    BY PubMoves, BenchAssumption DEF Shape, Started
  <1>2. ASSUME PublisherReturns(p) PROVE Unsent' = Unsent /\ Left' \subseteq Left
    <2>1. pub[p].pc # "done" /\ pub'[p].pc = "done" /\ Started(p)' = Started(p)
      BY <1>2, PubMoves DEF PublisherReturns, Started
    <2> HIDE DEF Started
    <2> QED BY <1>1, <2>1 DEF Unsent, Left
  <1>3. ASSUME Mint(p) PROVE \E r \in Left : Unsent' = Unsent \ {r} /\ Left' = Left \ {r}
    <2> DEFINE n == pub[p].sent + 1
    <2>1. /\ pub[p].pc = "loop" /\ pub'[p].pc = "publish" /\ n \in 1..Msgs
          /\ Started(p) = n - 1 /\ Started(p)' = n
      <3>1. /\ pub[p].pc = "loop" /\ pub[p].sent < Msgs
            /\ pub'[p].pc = "publish" /\ pub'[p].sent = pub[p].sent
        BY <1>3, PubMoves DEF Mint
      <3> QED BY <1>1, <3>1, SMT DEF Started
    <2> HIDE DEF n, Started
    <2>2. <<p, n>> \in Left /\ \A i \in 1..Msgs : i > n <=> i > n - 1 /\ i # n
      BY <2>1, SMT DEF Left, Unsent
    <2>3. ASSUME NEW r \in Publishers \X (1..Msgs)
          PROVE  /\ r \in Unsent' <=> r \in Unsent /\ r # <<p, n>>
                 /\ r \in Left' <=> r \in Left /\ r # <<p, n>>
      BY <1>1, <2>1, <2>2, SMT DEF Left, Unsent
    <2>4. /\ Unsent \subseteq Publishers \X (1..Msgs) /\ Unsent' \subseteq Publishers \X (1..Msgs)
          /\ Left \subseteq Publishers \X (1..Msgs) /\ Left' \subseteq Publishers \X (1..Msgs)
      BY DEF Unsent, Left
    <2>5. Unsent' = Unsent \ {<<p, n>>} /\ Left' = Left \ {<<p, n>>}
      BY <2>3, <2>4
    <2> QED BY <2>2, <2>5
  <1>4. ASSUME PublishOk(p) PROVE Unsent' = Unsent /\ Left' = Left
    <2>1. pub[p].pc # "done" /\ pub'[p].pc # "done" /\ Started(p)' = Started(p)
      BY <1>4, PubMoves DEF PublishOk, Started
    <2> HIDE DEF Started
    <2> QED BY <1>1, <2>1 DEF Unsent, Left
  <1>5. ASSUME PublishErr(p) PROVE Left' \subseteq Left
    <2>1. pub'[p].pc = "done"
      BY <1>5, PubMoves
    <2> HIDE DEF Started
    <2> QED BY <1>1, <2>1 DEF Unsent, Left
  <1>6. ASSUME RecordPublish(p) PROVE Unsent' = Unsent /\ Left' = Left
    <2>1. pub[p].pc # "done" /\ pub'[p].pc # "done" /\ Started(p)' = Started(p)
      BY <1>1, <1>6, PubMoves, SMT DEF RecordPublish, Started
    <2> HIDE DEF Started
    <2> QED BY <1>1, <2>1 DEF Unsent, Left
  <1> QED BY <1>2, <1>3, <1>4, <1>5, <1>6

\* What Consumer(c) leaves alone.
LEMMA ConFrame ==
  ASSUME NEW c \in Consumers, Consumer(c)
  PROVE  /\ seq' = seq /\ pub' = pub /\ dups' = dups /\ phaseFrom' = phaseFrom
         /\ cfg' = cfg /\ ctx' = ctx /\ held' = held /\ clients' = clients /\ open' = open
         /\ engine' = engine /\ stop' = stop /\ ending' = ending /\ result' = result
         /\ rows' = rows /\ drops' = drops /\ sampler' = sampler /\ ticks' = ticks
         /\ ~AckErr(c) => failed' = failed
         /\ ~Receive(c) => wire' = wire /\ seen' = seen
         /\ ~Receive(c) /\ ~RecordAck(c) => all' = all
         /\ ~RecordDeliver(c) /\ ~RecordAck(c) => tot' = tot /\ win' = win
  BY DEF Consumer, Receive, RecordDeliver, AckOk, AckErr, RecordAck, ConsumerReturns, Record,
         setupVars, linkVars, engineVars, pubVars, statVars

LEMMA ConMoves ==
  ASSUME Shape, NEW c \in Consumers, Consumer(c)
  PROVE  /\ con' \in [Consumers -> ConRecord]
         /\ \A d \in Consumers \ {c} : con'[d] = con[d]
         /\ Receive(c) => con'[c].pc = "record"
         /\ RecordDeliver(c) /\ cfg.ack =>
              con'[c].pc = "ack" /\ con'[c].seq = con[c].seq /\ con'[c].dup = con[c].dup
         /\ RecordDeliver(c) /\ ~cfg.ack => con'[c].pc = "range" /\ con'[c].seq = 0
         /\ AckOk(c) =>
              con'[c].pc = "acked" /\ con'[c].seq = con[c].seq /\ con'[c].dup = con[c].dup
         /\ AckErr(c) => con'[c].pc = "done" /\ con'[c].seq = 0
         /\ RecordAck(c) => con'[c].pc = "range" /\ con'[c].seq = 0
         /\ ConsumerReturns(c) => con'[c].pc = "done" /\ con'[c].seq = 0
  <1>1. con \in [Consumers -> ConRecord] /\ wire \subseteq Nat /\ cfg.ack \in BOOLEAN
    BY BenchAssumption, SMT DEF Shape, ConRecord
  <1>2. Idle("range") \in ConRecord /\ Idle("done") \in ConRecord
        /\ Idle("range").pc = "range" /\ Idle("done").pc = "done"
        /\ Idle("range").seq = 0 /\ Idle("done").seq = 0
    BY DEF Idle, ConRecord, Stages
  <1>3. CASE Receive(c)
    <2>1. PICK s \in wire :
            con' = [con EXCEPT ![c] = [pc |-> "record", seq |-> s, dup |-> s \in seen]]
      BY <1>3 DEF Receive
    <2> DEFINE r == [pc |-> "record", seq |-> s, dup |-> s \in seen]
    <2>2. r \in ConRecord /\ r.pc = "record"
      BY <1>1, SMT DEF ConRecord, Stages
    <2>3. con' = [con EXCEPT ![c] = r]
      BY <2>1
    <2> HIDE DEF r
    <2>4. con' \in [Consumers -> ConRecord] /\ con'[c].pc = "record"
          /\ \A d \in Consumers \ {c} : con'[d] = con[d]
      BY <1>1, <2>2, <2>3
    <2>5. ~ConsumerReturns(c)
      BY <1>1, <1>2, <2>4 DEF ConsumerReturns
    <2> QED BY <1>3, <2>4, <2>5 DEF Receive, RecordDeliver, AckOk, AckErr, RecordAck
  <1>4. CASE RecordDeliver(c)
    <2>1. con[c].pc = "record" /\ con[c] \in ConRecord
      BY <1>1, <1>4 DEF RecordDeliver
    <2>2. CASE cfg.ack
      <3>1. con' = [con EXCEPT ![c] = [con[c] EXCEPT !.pc = "ack"]]
        BY <1>4, <2>2 DEF RecordDeliver
      <3>2. [con[c] EXCEPT !.pc = "ack"] \in ConRecord
        BY <2>1 DEF ConRecord, Stages
      <3> QED BY <1>1, <2>1, <2>2, <3>1, <3>2
               DEF Receive, AckOk, AckErr, RecordAck, ConsumerReturns, ConRecord
    <2>3. CASE ~cfg.ack
      <3>1. con' = [con EXCEPT ![c] = Idle("range")]
        BY <1>4, <2>3 DEF RecordDeliver
      <3> QED BY <1>1, <1>2, <2>1, <2>3, <3>1 DEF Receive, AckOk, AckErr, RecordAck, ConsumerReturns
    <2> QED BY <1>1, <2>2, <2>3
  <1>5. CASE AckOk(c)
    BY <1>1, <1>5 DEF Receive, RecordDeliver, AckOk, AckErr, RecordAck, ConsumerReturns, ConRecord, Stages
  <1>6. CASE AckErr(c)
    BY <1>1, <1>2, <1>6 DEF Receive, RecordDeliver, AckOk, AckErr, RecordAck, ConsumerReturns
  <1>7. CASE RecordAck(c)
    BY <1>1, <1>2, <1>7 DEF Receive, RecordDeliver, AckOk, AckErr, RecordAck, ConsumerReturns
  <1>8. CASE ConsumerReturns(c)
    <2>1. con'[c].pc = "done" /\ con'[c].seq = 0 /\ con' \in [Consumers -> ConRecord]
          /\ \A d \in Consumers \ {c} : con'[d] = con[d]
      BY <1>1, <1>2, <1>8 DEF ConsumerReturns
    <2>2. Receive(c) => con'[c].pc = "record"
      BY <1>1, SMT DEF Receive
    <2> QED BY <1>8, <2>1, <2>2 DEF RecordDeliver, AckOk, AckErr, RecordAck, ConsumerReturns
  <1> QED BY <1>3, <1>4, <1>5, <1>6, <1>7, <1>8 DEF Consumer

\* A delivery: s leaves the wire, once for each copy of it that was put there.
LEMMA ReceiveDoes ==
  ASSUME Shape, NEW c \in Consumers, Receive(c)
  PROVE  \E s \in wire :
           /\ wire' = wire \ {s} /\ seen' = seen \union {s}
           /\ con'[c].pc = "record" /\ con'[c].seq = s /\ con'[c].dup = (s \in seen)
           /\ all' = Add(all, DeliveryKinds(s \in seen))
  <1>1. PICK s \in wire :
          /\ wire' = wire \ {s} /\ seen' = seen \union {s}
          /\ con' = [con EXCEPT ![c] = [pc |-> "record", seq |-> s, dup |-> s \in seen]]
          /\ all' = Add(all, DeliveryKinds(s \in seen))
    BY DEF Receive
  <1>2. con'[c] = [pc |-> "record", seq |-> s, dup |-> s \in seen]
    BY <1>1 DEF Shape
  <1> QED BY <1>1, <1>2, SMT

\* Busy, DupRecording and MeasuredRecording.
LEMMA ConHands ==
  ASSUME Shape, NEW c \in Consumers, Consumer(c)
  PROVE  /\ Receive(c) =>
              /\ c \notin Busy /\ Busy' = Busy \union {c}
              /\ c \notin DupRecording /\ c \notin MeasuredRecording
              /\ con'[c].dup => /\ DupRecording' = DupRecording \union {c}
                                /\ MeasuredRecording' = MeasuredRecording
              /\ ~con'[c].dup /\ Measured(con'[c].seq) =>
                   /\ DupRecording' = DupRecording
                   /\ MeasuredRecording' = MeasuredRecording \union {c}
              /\ ~con'[c].dup /\ ~Measured(con'[c].seq) =>
                   /\ DupRecording' = DupRecording
                   /\ MeasuredRecording' = MeasuredRecording
         /\ RecordDeliver(c) =>
              /\ Busy' \subseteq Busy
              /\ DupRecording' = DupRecording \ {c}
              /\ MeasuredRecording' = MeasuredRecording \ {c}
              /\ c \in DupRecording <=> con[c].dup
              /\ c \in MeasuredRecording <=> ~con[c].dup /\ Measured(con[c].seq)
         /\ AckOk(c) => Busy' = Busy
         /\ AckErr(c) => Busy' \subseteq Busy
         /\ RecordAck(c) => c \in Busy /\ Busy' = Busy \ {c}
         /\ ConsumerReturns(c) => Busy' = Busy
         /\ ~Receive(c) /\ ~RecordDeliver(c) =>
              DupRecording' = DupRecording /\ MeasuredRecording' = MeasuredRecording
  <1>1. /\ \A d \in Consumers \ {c} : con'[d] = con[d]
        /\ phaseFrom' = phaseFrom
        /\ con' \in [Consumers -> ConRecord] /\ con \in [Consumers -> ConRecord]
        /\ cfg.ack \in BOOLEAN
    BY ConMoves, ConFrame, BenchAssumption DEF Shape, ConRecord
  <1>2. con[c].dup \in BOOLEAN /\ con'[c].dup \in BOOLEAN
    BY <1>1 DEF ConRecord
  <1>3. CASE Receive(c)
    <2>1. con[c].pc = "range" /\ con'[c].pc = "record"
      BY <1>3, ConMoves DEF Receive
    <2>2. c \notin Busy /\ Busy' = Busy \union {c} /\ c \notin DupRecording /\ c \notin MeasuredRecording
      BY <1>1, <2>1 DEF Busy, DupRecording, MeasuredRecording
    <2>3. DupRecording' = IF con'[c].dup THEN DupRecording \union {c} ELSE DupRecording
      BY <1>1, <1>2, <2>1 DEF DupRecording
    <2>4. MeasuredRecording' = IF ~con'[c].dup /\ Measured(con'[c].seq)
                                 THEN MeasuredRecording \union {c} ELSE MeasuredRecording
      BY <1>1, <1>2, <2>1 DEF MeasuredRecording, Measured
    <2>5. ~RecordDeliver(c) /\ ~AckOk(c) /\ ~AckErr(c) /\ ~RecordAck(c)
      BY <2>1 DEF RecordDeliver, AckOk, AckErr, RecordAck
    <2>6. ~ConsumerReturns(c)
      BY <2>1, ConMoves
    <2> QED BY <1>2, <1>3, <2>2, <2>3, <2>4, <2>5, <2>6
  <1>4. CASE RecordDeliver(c)
    <2>1. con[c].pc = "record" /\ con'[c].pc \in {"ack", "range"}
      BY <1>1, <1>4, ConMoves DEF RecordDeliver
    <2>2. Busy' \subseteq Busy
      BY <1>1, <2>1 DEF Busy
    <2>3. /\ DupRecording' = DupRecording \ {c}
          /\ c \in DupRecording <=> con[c].dup
      BY <1>1, <2>1 DEF DupRecording
    <2>4. /\ MeasuredRecording' = MeasuredRecording \ {c}
          /\ c \in MeasuredRecording <=> ~con[c].dup /\ Measured(con[c].seq)
      BY <1>1, <2>1 DEF MeasuredRecording, Measured
    <2>5. ~Receive(c) /\ ~AckOk(c) /\ ~AckErr(c) /\ ~RecordAck(c) /\ ~ConsumerReturns(c)
      BY <2>1 DEF Receive, AckOk, AckErr, RecordAck, ConsumerReturns
    <2> QED BY <1>4, <2>2, <2>3, <2>4, <2>5
  <1>5. CASE AckOk(c) \/ AckErr(c) \/ RecordAck(c) \/ ConsumerReturns(c)
    <2>1. /\ con[c].pc # "record" /\ con'[c].pc # "record"
          /\ ~Receive(c) /\ ~RecordDeliver(c)
      BY <1>5, ConMoves DEF AckOk, AckErr, RecordAck, ConsumerReturns, Receive, RecordDeliver
    <2>2. DupRecording' = DupRecording /\ MeasuredRecording' = MeasuredRecording
      BY <1>1, <2>1 DEF DupRecording, MeasuredRecording
    <2>3. AckOk(c) => Busy' = Busy
      <3>1. AckOk(c) => con[c].pc = "ack" /\ con'[c].pc = "acked"
        BY ConMoves DEF AckOk
      <3> QED BY <1>1, <3>1 DEF Busy
    <2>4. AckErr(c) => Busy' \subseteq Busy
      <3>1. AckErr(c) => con'[c].pc = "done"
        BY ConMoves
      <3> QED BY <1>1, <3>1 DEF Busy
    <2>5. RecordAck(c) => c \in Busy /\ Busy' = Busy \ {c}
      <3>1. RecordAck(c) => con[c].pc = "acked" /\ con'[c].pc = "range"
        BY ConMoves DEF RecordAck
      <3> QED BY <1>1, <3>1 DEF Busy
    <2>6. ConsumerReturns(c) => Busy' = Busy
      <3>1. ConsumerReturns(c) => con[c].pc = "range" /\ con'[c].pc = "done"
        BY ConMoves DEF ConsumerReturns
      <3> QED BY <1>1, <3>1 DEF Busy
    <2> QED BY <2>1, <2>2, <2>3, <2>4, <2>5, <2>6
  <1> QED BY <1>3, <1>4, <1>5 DEF Consumer

-----------------------------------------------------------------------------
(* Steps that leave the workers and the broker alone.                       *)

LEMMA CoreStays ==
  ASSUME Minted, Books, Tallies,
         pub' = pub, con' = con, seq' = seq, seen' = seen, wire' = wire, dups' = dups,
         failed' = failed, phaseFrom' = phaseFrom, all' = all, tot' = tot
  PROVE  Minted' /\ Books' /\ Tallies'
  <1>1. /\ Minting' = Minting /\ Recording' = Recording /\ MeasuredMinting' = MeasuredMinting
        /\ Unsent' = Unsent /\ Left' = Left
    BY DEF Minting, Recording, MeasuredMinting, Unsent, Left, Started
  <1>2. /\ Busy' = Busy /\ DupRecording' = DupRecording
        /\ MeasuredRecording' = MeasuredRecording /\ MeasuredSeen' = MeasuredSeen
    BY DEF Busy, DupRecording, MeasuredRecording, MeasuredSeen
  <1>3. Minted'
    BY <1>1 DEF Minted, Holding
  <1>4. Books'
    BY <1>1, <1>2 DEF Books
  <1>5. Tallies'
    BY <1>1, <1>2 DEF Tallies
  <1> QED BY <1>3, <1>4, <1>5

-----------------------------------------------------------------------------
(* The publishers.                                                          *)

LEMMA PubHolding ==
  ASSUME Shape, Minted, NEW p \in Publishers, Publisher(p)
  PROVE  /\ \A q \in Publishers : Holding(q)'
         /\ \A q, r \in Publishers :
              pub'[q].pc = "publish" /\ pub'[r].pc = "publish" /\ pub'[q].seq = pub'[r].seq => q = r
         /\ \A c \in Consumers : con'[c].seq <= seq'
  <1>1. /\ \A q \in Publishers : Holding(q)
        /\ \A q, r \in Publishers :
             pub[q].pc = "publish" /\ pub[r].pc = "publish" /\ pub[q].seq = pub[r].seq => q = r
        /\ \A c \in Consumers : con[c].seq <= seq
    BY DEF Minted
  <1>2. /\ \A q \in Publishers \ {p} : pub'[q] = pub[q]
        /\ con' = con /\ seen' = seen
    BY PubMoves, PubFrame
  <1>3. /\ seq \in Nat /\ Msgs \in Nat /\ wire \subseteq 1..seq /\ seen \subseteq 1..seq
        /\ \A q \in Publishers : pub[q].seq \in Nat /\ pub[q].sent \in Nat
        /\ \A c \in Consumers : con[c].seq \in Nat
    BY BenchAssumption DEF Shape
  <1>4. CASE PublisherReturns(p)
    <2>1. pub'[p].pc = "done" /\ pub'[p].seq = pub[p].seq /\ pub'[p].sent = pub[p].sent
      BY <1>4, PubMoves
    <2>2. seq' = seq /\ wire' = wire
      BY <1>4 DEF PublisherReturns, linkVars
    <2> QED BY <1>1, <1>2, <2>1, <2>2 DEF Holding
  <1>5. CASE Mint(p)
    <2>1. /\ pub'[p].pc = "publish" /\ pub'[p].seq = seq + 1 /\ pub'[p].sent = pub[p].sent
          /\ pub[p].sent < Msgs /\ seq' = seq + 1 /\ wire' = wire
      BY <1>5, PubMoves DEF Mint, linkVars
    <2>2. seq + 1 \notin wire \union seen /\ \A q \in Publishers : pub[q].seq # seq + 1
      BY <1>1, <1>3, SMT DEF Holding
    <2>3. Holding(p)'
      BY <1>2, <1>3, <2>1, <2>2, SMT DEF Holding
    <2>4. \A q \in Publishers \ {p} : Holding(q)'
      BY <1>1, <1>2, <1>3, <2>1, SMT DEF Holding
    <2>5. \A q, r \in Publishers :
            pub'[q].pc = "publish" /\ pub'[r].pc = "publish" /\ pub'[q].seq = pub'[r].seq => q = r
      BY <1>1, <1>2, <2>1, <2>2
    <2>6. \A c \in Consumers : con'[c].seq <= seq'
      BY <1>1, <1>2, <1>3, <2>1, SMT
    <2> QED BY <2>3, <2>4, <2>5, <2>6
  <1>6. CASE PublishOk(p)
    <2>1. pub'[p].pc = "record" /\ pub'[p].seq = pub[p].seq /\ pub'[p].sent = pub[p].sent
      BY <1>6, PubMoves
    <2>2. pub[p].pc = "publish" /\ seq' = seq /\ wire' = wire \union {pub[p].seq}
      BY <1>6 DEF PublishOk
    <2>3. Holding(p)'
      BY <1>1, <2>1, <2>2 DEF Holding
    <2>4. \A q \in Publishers \ {p} : Holding(q)'
      BY <1>1, <1>2, <2>2 DEF Holding
    <2> QED BY <1>1, <1>2, <2>1, <2>2, <2>3, <2>4
  <1>7. CASE PublishErr(p)
    <2>1. pub'[p].pc = "done" /\ pub'[p].seq = 0 /\ pub'[p].sent = pub[p].sent
      BY <1>7, PubMoves
    <2>2. seq' = seq /\ wire' = wire
      BY <1>7 DEF PublishErr, linkVars
    <2> QED BY <1>1, <1>2, <1>3, <2>1, <2>2, SMT DEF Holding
  <1>8. CASE RecordPublish(p)
    <2>1. pub'[p].pc = "loop" /\ pub'[p].seq = 0 /\ pub'[p].sent = pub[p].sent + 1
      BY <1>8, PubMoves
    <2>2. pub[p].pc = "record" /\ seq' = seq /\ wire' = wire
      BY <1>8 DEF RecordPublish, linkVars
    <2>3. pub[p].sent < Msgs
      BY <1>1, <2>2 DEF Holding
    <2> QED BY <1>1, <1>2, <1>3, <2>1, <2>2, <2>3, SMT DEF Holding
  <1> QED BY <1>4, <1>5, <1>6, <1>7, <1>8 DEF Publisher

LEMMA PubMinted ==
  ASSUME Shape, Minted, NEW p \in Publishers, Publisher(p)
  PROVE  Minted'
  <1>1. /\ seq + Cardinality(Left) <= Total
        /\ ~failed => seq + Cardinality(Unsent) = Total
    BY DEF Minted
  <1>2. /\ seq \in Nat /\ Total \in Nat /\ IsFiniteSet(Left) /\ Cardinality(Left) \in Nat
        /\ IsFiniteSet(Unsent) /\ Cardinality(Unsent) \in Nat
    BY Finite, TotalType DEF Shape
  <1>3. Left' \subseteq Left => Cardinality(Left') \in Nat /\ Cardinality(Left') <= Cardinality(Left)
    BY <1>2, FS_Subset, FS_CardinalityType
  <1>4. /\ seq' + Cardinality(Left') <= Total
        /\ ~failed' => seq' + Cardinality(Unsent') = Total
    <2>1. CASE Mint(p)
      <3>1. PICK r \in Left : Unsent' = Unsent \ {r} /\ Left' = Left \ {r}
        BY <2>1, PubLeft
      <3>2. r \in Unsent
        BY DEF Left
      <3>3. /\ Cardinality(Left') = Cardinality(Left) - 1
            /\ Cardinality(Unsent') = Cardinality(Unsent) - 1
        BY <1>2, <3>1, <3>2, Shrinks
      <3>4. seq' = seq + 1 /\ failed' = failed
        BY <2>1 DEF Mint
      <3> QED BY <1>1, <1>2, <3>3, <3>4, SMT
    <2>2. CASE PublishErr(p)
      <3>1. Left' \subseteq Left /\ seq' = seq /\ failed'
        BY <2>2, PubLeft DEF PublishErr
      <3> QED BY <1>1, <1>2, <1>3, <3>1, SMT
    <2>3. CASE PublisherReturns(p)
      <3>1. Left' \subseteq Left /\ Unsent' = Unsent /\ seq' = seq /\ failed' = failed
        BY <2>3, PubLeft DEF PublisherReturns
      <3> QED BY <1>1, <1>2, <1>3, <3>1, SMT
    <2>4. CASE PublishOk(p) \/ RecordPublish(p)
      <3>1. Left' = Left /\ Unsent' = Unsent /\ seq' = seq /\ failed' = failed
        BY <2>4, PubLeft DEF PublishOk, RecordPublish
      <3> QED BY <1>1, <3>1
    <2> QED BY <2>1, <2>2, <2>3, <2>4 DEF Publisher
  <1> QED BY <1>4, PubHolding DEF Minted

\* What a record* call does to the counters of the measured phase.
LEMMA RecordIs ==
  ASSUME Shape, NEW s \in Nat, NEW ks, Record(s, ks)
  PROVE  /\ tot' \in [Kinds -> Nat] /\ win' \in [Kinds -> Nat]
         /\ Measured(s) => \A k \in ks \intersect Kinds :
                             tot'[k] = tot[k] + 1 /\ win'[k] = win[k] + 1
         /\ Measured(s) => \A k \in Kinds \ ks : tot'[k] = tot[k] /\ win'[k] = win[k]
         /\ ~Measured(s) => tot' = tot /\ win' = win
  <1>1. tot \in [Kinds -> Nat] /\ win \in [Kinds -> Nat]
    BY DEF Shape
  <1>2. CASE Measured(s)
    <2>1. tot' = Add(tot, ks) /\ win' = Add(win, ks)
      BY <1>2 DEF Record
    <2> QED BY <1>1, <1>2, <2>1, AddIs, SMT
  <1>3. CASE ~Measured(s)
    BY <1>1, <1>3 DEF Record
  <1> QED BY <1>2, <1>3

\* The counters are numbers.
LEMMA Counters ==
  ASSUME Shape, NEW k \in Kinds
  PROVE  all[k] \in Nat /\ tot[k] \in Nat /\ win[k] \in Nat /\ rows[k] \in Nat
  BY DEF Shape

LEMMA Numbers ==
  ASSUME Shape
  PROVE  /\ all["pub"] \in Nat /\ all["del"] \in Nat /\ all["cons"] \in Nat
         /\ all["dup"] \in Nat /\ all["ack"] \in Nat
         /\ tot["pub"] \in Nat /\ tot["del"] \in Nat /\ tot["cons"] \in Nat
         /\ tot["dup"] \in Nat /\ tot["ack"] \in Nat
         /\ seq \in Nat /\ phaseFrom \in Nat /\ phaseFrom <= seq /\ dups \in Nat /\ drops \in Nat
  BY BenchAssumption, SMT DEF Shape, Kinds

LEMMA PubBooks ==
  ASSUME Shape, Minted, Books, NEW p \in Publishers, Publisher(p)
  PROVE  Books'
  <1>1. /\ con' = con /\ seen' = seen /\ dups' = dups /\ Busy' = Busy
    BY PubFrame DEF Busy
  <1>2. CASE PublisherReturns(p)
    <2>1. /\ Minting' = Minting /\ Recording' = Recording
          /\ wire' = wire /\ all' = all /\ seq' = seq /\ failed' = failed
      BY <1>2, PubHands DEF PublisherReturns, linkVars, statVars
    <2> QED BY <1>1, <2>1, Numbers, Finite DEF Books
  <1>3. CASE Mint(p)
    <2>1. Cardinality(Minting') = Cardinality(Minting) + 1 /\ Recording' = Recording
      BY <1>3, PubHands, Grows, Finite
    <2>2. wire' = wire /\ all' = all /\ seq' = seq + 1 /\ failed' = failed
      BY <1>3 DEF Mint, linkVars, statVars
    <2> QED BY <1>1, <2>1, <2>2, Numbers, Finite, SMT DEF Books
  <1>4. CASE PublishOk(p)
    <2>1. Minting' = Minting /\ Cardinality(Recording') = Cardinality(Recording) + 1
      BY <1>4, PubHands, Grows, Finite
    <2>2. /\ pub[p].pc = "publish" /\ wire' = wire \union {pub[p].seq}
          /\ all' = all /\ seq' = seq /\ failed' = failed
      BY <1>4 DEF PublishOk, statVars
    <2>3. pub[p].seq \notin wire \union seen
      BY <2>2 DEF Minted, Holding
    <2>4. wire' \union seen' = (wire \union seen) \union {pub[p].seq}
      BY <1>1, <2>2
    <2>5. Cardinality(wire' \union seen') = Cardinality(wire \union seen) + 1
      BY <2>3, <2>4, Grows, Finite
    <2>6. wire' \intersect seen' = wire \intersect seen
      BY <1>1, <2>2, <2>3
    <2> QED BY <1>1, <2>1, <2>2, <2>5, <2>6, Numbers, Finite, SMT DEF Books
  <1>5. CASE PublishErr(p)
    <2>1. Cardinality(Minting') = Cardinality(Minting) - 1 /\ Recording' = Recording
      BY <1>5, PubHands, Shrinks, Finite
    <2>2. wire' = wire /\ all' = all /\ seq' = seq /\ failed'
      BY <1>5 DEF PublishErr, linkVars, statVars
    <2> QED BY <1>1, <2>1, <2>2, Numbers, Finite, SMT DEF Books
  <1>6. CASE RecordPublish(p)
    <2>1. /\ Cardinality(Minting') = Cardinality(Minting) - 1
          /\ Cardinality(Recording') = Cardinality(Recording) - 1
      BY <1>6, PubHands, Shrinks, Finite
    <2>2. wire' = wire /\ all' = Add(all, {"pub"}) /\ seq' = seq /\ failed' = failed
      BY <1>6 DEF RecordPublish, linkVars
    <2>3. all'["pub"] = all["pub"] + 1 /\ \A k \in Kinds \ {"pub"} : all'[k] = all[k]
      BY <2>2, AddIs, SMT DEF Shape, Kinds
    <2>4. /\ all'["cons"] = all["cons"] /\ all'["dup"] = all["dup"]
          /\ all'["del"] = all["del"] /\ all'["ack"] = all["ack"]
      BY <2>3 DEF Kinds
    <2> QED BY <1>1, <2>1, <2>2, <2>3, <2>4, Numbers, Finite, SMT DEF Books
  <1> QED BY <1>2, <1>3, <1>4, <1>5, <1>6 DEF Publisher

LEMMA PubTallies ==
  ASSUME Shape, Minted, Tallies, NEW p \in Publishers, Publisher(p)
  PROVE  Tallies'
  <1>1. /\ con' = con /\ seen' = seen /\ phaseFrom' = phaseFrom
        /\ DupRecording' = DupRecording /\ MeasuredRecording' = MeasuredRecording
        /\ MeasuredSeen' = MeasuredSeen
    BY PubFrame DEF DupRecording, MeasuredRecording, MeasuredSeen
  <1>2. CASE PublisherReturns(p) \/ PublishOk(p)
    <2>1. /\ MeasuredMinting' = MeasuredMinting
          /\ all' = all /\ tot' = tot /\ seq' = seq /\ failed' = failed
      BY <1>2, PubHands DEF PublisherReturns, PublishOk, statVars
    <2> QED BY <1>1, <2>1, Numbers, Finite DEF Tallies
  <1>3. CASE Mint(p)
    <2>1. Cardinality(MeasuredMinting') = Cardinality(MeasuredMinting) + 1
      BY <1>3, PubHands, Grows, Finite
    <2>2. all' = all /\ tot' = tot /\ seq' = seq + 1 /\ failed' = failed
      BY <1>3 DEF Mint, statVars
    <2>3. /\ seq \in Nat /\ phaseFrom \in Nat /\ tot["pub"] \in Nat
          /\ Cardinality(MeasuredMinting) \in Nat
      BY Numbers, Finite
    <2>4. ~failed' => tot'["pub"] + Cardinality(MeasuredMinting') = seq' - phaseFrom'
      BY <1>1, <2>1, <2>2, <2>3, SMT DEF Tallies
    <2> QED BY <1>1, <2>2, <2>4 DEF Tallies
  <1>4. CASE PublishErr(p)
    <2>1. all' = all /\ tot' = tot /\ seq' = seq /\ failed'
      BY <1>4 DEF PublishErr, statVars
    <2> QED BY <1>1, <2>1, Numbers, Finite DEF Tallies
  <1>5. CASE RecordPublish(p)
    <2>1. /\ all' = Add(all, {"pub"}) /\ Record(pub[p].seq, {"pub"}) /\ seq' = seq
          /\ failed' = failed /\ pub[p].seq \in Nat
      BY <1>5 DEF RecordPublish, Shape
    <2>2. all'["pub"] = all["pub"] + 1 /\ \A k \in Kinds \ {"pub"} : all'[k] = all[k]
      BY <2>1, AddIs, SMT DEF Shape, Kinds
    <2>3. all'["dup"] = all["dup"] /\ all'["ack"] = all["ack"]
      BY <2>2 DEF Kinds
    <2>4. CASE Measured(pub[p].seq)
      <3>1. Cardinality(MeasuredMinting') = Cardinality(MeasuredMinting) - 1
        BY <1>5, <2>4, PubHands, Shrinks, Finite
      <3>2. tot'["pub"] = tot["pub"] + 1 /\ \A k \in Kinds \ {"pub"} : tot'[k] = tot[k]
        BY <2>1, <2>4, RecordIs DEF Kinds
      <3>3. /\ tot'["cons"] = tot["cons"] /\ tot'["dup"] = tot["dup"]
            /\ tot'["del"] = tot["del"] /\ tot'["ack"] = tot["ack"]
        BY <3>2 DEF Kinds
      <3> QED BY <1>1, <2>1, <2>2, <2>3, <3>1, <3>2, <3>3, Numbers, Finite, SMT DEF Tallies
    <2>5. CASE ~Measured(pub[p].seq)
      <3>1. MeasuredMinting' = MeasuredMinting
        BY <1>5, <2>5, PubHands
      <3>2. tot' = tot
        BY <2>1, <2>5, RecordIs
      <3> QED BY <1>1, <2>1, <2>2, <2>3, <3>1, <3>2, Numbers, Finite, SMT DEF Tallies
    <2> QED BY <2>4, <2>5
  <1> QED BY <1>2, <1>3, <1>4, <1>5 DEF Publisher

-----------------------------------------------------------------------------
(* The consumers.                                                           *)

LEMMA ConMinted ==
  ASSUME Shape, Minted, NEW c \in Consumers, Consumer(c)
  PROVE  Minted'
  <1>1. pub' = pub /\ seq' = seq /\ Unsent' = Unsent /\ Left' = Left
    BY ConFrame DEF Unsent, Left, Started
  <1>2. failed' = failed \/ failed'
    BY ConFrame DEF AckErr
  <1>3. wire' \union seen' = wire \union seen
    <2>1. CASE Receive(c)
      BY <2>1, ReceiveDoes
    <2>2. CASE ~Receive(c)
      BY <2>2, ConFrame
    <2> QED BY <2>1, <2>2
  <1>4. \A p \in Publishers : Holding(p)'
    BY <1>1, <1>3 DEF Minted, Holding
  <1>5. con'[c].seq <= seq
    <2>1. \A s \in wire : s <= seq
      BY SMT DEF Shape
    <2>2. con[c].seq <= seq /\ 0 <= seq
      BY SMT DEF Minted, Shape
    <2>3. CASE Receive(c)
      BY <2>1, <2>3, ReceiveDoes
    <2>4. CASE ~Receive(c)
      <3>1. con'[c].seq = con[c].seq \/ con'[c].seq = 0
        BY <2>4, ConMoves DEF Consumer
      <3> QED BY <2>2, <3>1
    <2> QED BY <2>3, <2>4
  <1>6. \A d \in Consumers : con'[d].seq <= seq'
    BY <1>1, <1>5, ConMoves DEF Minted
  <1> QED BY <1>1, <1>2, <1>4, <1>6 DEF Minted

LEMMA ConBooks ==
  ASSUME Shape, Books, NEW c \in Consumers, Consumer(c)
  PROVE  Books'
  <1>1. /\ pub' = pub /\ seq' = seq /\ dups' = dups
        /\ Minting' = Minting /\ Recording' = Recording
    BY ConFrame DEF Minting, Recording
  <1>2. CASE Receive(c)
    <2>1. PICK s \in wire :
            /\ wire' = wire \ {s} /\ seen' = seen \union {s}
            /\ all' = Add(all, DeliveryKinds(s \in seen))
      BY <1>2, ReceiveDoes
    <2>2. wire' \union seen' = wire \union seen /\ failed' = failed
      BY <1>2, <2>1 DEF Receive
    <2>3. Cardinality(Busy') = Cardinality(Busy) + 1
      BY <1>2, ConHands, Grows, Finite
    <2>4. CASE s \in seen
      <3>1. DeliveryKinds(s \in seen) = {"del", "dup"}
        BY <2>4 DEF DeliveryKinds
      <3>2. /\ all'["del"] = all["del"] + 1 /\ all'["dup"] = all["dup"] + 1
            /\ all'["cons"] = all["cons"] /\ all'["pub"] = all["pub"] /\ all'["ack"] = all["ack"]
        BY <2>1, <3>1, AddIs, SMT DEF Shape, Kinds
      <3>3. seen' = seen /\ wire' \intersect seen' = (wire \intersect seen) \ {s}
        BY <2>1, <2>4
      <3>4. Cardinality(wire' \intersect seen') = Cardinality(wire \intersect seen) - 1
        BY <2>4, <3>3, Shrinks, Finite
      <3> QED BY <1>1, <2>2, <2>3, <3>2, <3>3, <3>4, Numbers, Finite, SMT DEF Books
    <2>5. CASE s \notin seen
      <3>1. DeliveryKinds(s \in seen) = {"del", "cons"}
        BY <2>5 DEF DeliveryKinds
      <3>2. /\ all'["del"] = all["del"] + 1 /\ all'["cons"] = all["cons"] + 1
            /\ all'["dup"] = all["dup"] /\ all'["pub"] = all["pub"] /\ all'["ack"] = all["ack"]
        BY <2>1, <3>1, AddIs, SMT DEF Shape, Kinds
      <3>3. wire' \intersect seen' = wire \intersect seen
        BY <2>1, <2>5
      <3>4. Cardinality(seen') = Cardinality(seen) + 1
        BY <2>1, <2>5, Grows, Finite
      <3>5. /\ all["cons"] \in Nat /\ all["dup"] \in Nat /\ all["ack"] \in Nat
            /\ all["del"] \in Nat /\ Cardinality(seen) \in Nat /\ Cardinality(Busy) \in Nat
        BY Numbers, Finite
      <3>6. /\ all'["cons"] = Cardinality(seen') /\ all'["del"] = all'["cons"] + all'["dup"]
            /\ all'["ack"] + Cardinality(Busy') <= all'["del"]
        BY <2>3, <3>2, <3>4, <3>5, SMT DEF Books
      <3> QED BY <1>1, <2>2, <3>2, <3>3, <3>6 DEF Books
    <2> QED BY <2>4, <2>5
  <1>3. CASE RecordAck(c)
    <2>1. wire' = wire /\ seen' = seen /\ failed' = failed /\ all' = Add(all, {"ack"})
      BY <1>3 DEF RecordAck, linkVars
    <2>2. /\ all'["ack"] = all["ack"] + 1 /\ all'["pub"] = all["pub"] /\ all'["del"] = all["del"]
          /\ all'["cons"] = all["cons"] /\ all'["dup"] = all["dup"]
      BY <2>1, AddIs, SMT DEF Shape, Kinds
    <2>3. Cardinality(Busy') = Cardinality(Busy) - 1
      BY <1>3, ConHands, Shrinks, Finite
    <2> QED BY <1>1, <2>1, <2>2, <2>3, Numbers, Finite, SMT DEF Books
  <1>4. CASE RecordDeliver(c) \/ AckOk(c) \/ AckErr(c) \/ ConsumerReturns(c)
    <2>1. wire' = wire /\ seen' = seen /\ all' = all /\ (failed' = failed \/ failed')
      BY <1>4 DEF RecordDeliver, AckOk, AckErr, ConsumerReturns, linkVars, statVars
    <2>2. Busy' \subseteq Busy
      BY <1>4, ConHands
    <2>3. Cardinality(Busy') \in Nat /\ Cardinality(Busy') <= Cardinality(Busy)
      BY <2>2, Finite, FS_Subset, FS_CardinalityType
    <2> QED BY <1>1, <2>1, <2>3, Numbers, Finite, SMT DEF Books
  <1> QED BY <1>2, <1>3, <1>4 DEF Consumer

LEMMA ConTallies ==
  ASSUME Shape, Tallies, NEW c \in Consumers, Consumer(c)
  PROVE  Tallies'
  <1>1. /\ pub' = pub /\ seq' = seq /\ phaseFrom' = phaseFrom
        /\ MeasuredMinting' = MeasuredMinting
    BY ConFrame DEF MeasuredMinting
  <1>2. con[c].seq \in Nat /\ con[c].dup \in BOOLEAN
    BY DEF Shape
  <1>3. CASE Receive(c)
    <2>1. PICK s \in wire :
            /\ seen' = seen \union {s}
            /\ con'[c].seq = s /\ con'[c].dup = (s \in seen)
            /\ all' = Add(all, DeliveryKinds(s \in seen))
      BY <1>3, ReceiveDoes
    <2>2. failed' = failed /\ tot' = tot
      BY <1>3 DEF Receive
    <2>3. CASE s \in seen
      <3>1. DeliveryKinds(s \in seen) = {"del", "dup"}
        BY <2>3 DEF DeliveryKinds
      <3>2. all'["dup"] = all["dup"] + 1 /\ all'["pub"] = all["pub"] /\ all'["ack"] = all["ack"]
        <4>1. all \in [Kinds -> Nat] /\ all' = Add(all, {"del", "dup"})
          BY <2>1, <3>1 DEF Shape
        <4> QED BY <4>1, AddIs, SMT DEF Kinds
      <3>3. c \notin DupRecording /\ DupRecording' = DupRecording \union {c}
            /\ MeasuredRecording' = MeasuredRecording
        BY <1>3, <2>1, <2>3, ConHands
      <3>4. Cardinality(DupRecording') = Cardinality(DupRecording) + 1
        BY <3>3, Grows, Finite
      <3>5. MeasuredSeen' = MeasuredSeen
        BY <1>1, <2>1, <2>3 DEF MeasuredSeen
      <3> QED BY <1>1, <2>2, <3>2, <3>3, <3>4, <3>5, Numbers, Finite, SMT DEF Tallies
    <2>4. CASE s \notin seen
      <3>1. DeliveryKinds(s \in seen) = {"del", "cons"}
        BY <2>4 DEF DeliveryKinds
      <3>2. all'["dup"] = all["dup"] /\ all'["pub"] = all["pub"] /\ all'["ack"] = all["ack"]
        BY <2>1, <3>1, AddIs, SMT DEF Shape, Kinds
      <3>3. CASE Measured(s)
        <4>1. DupRecording' = DupRecording /\ c \notin MeasuredRecording
              /\ MeasuredRecording' = MeasuredRecording \union {c}
          BY <1>3, <2>1, <2>4, <3>3, ConHands
        <4>2. Cardinality(MeasuredRecording') = Cardinality(MeasuredRecording) + 1
          BY <4>1, Grows, Finite
        <4>3. s \notin MeasuredSeen /\ MeasuredSeen' = MeasuredSeen \union {s}
          BY <1>1, <2>1, <2>4, <3>3 DEF MeasuredSeen, Measured
        <4>4. Cardinality(MeasuredSeen') = Cardinality(MeasuredSeen) + 1
          BY <4>3, Grows, Finite
        <4> QED BY <1>1, <2>2, <3>2, <4>1, <4>2, <4>4, Numbers, Finite, SMT DEF Tallies
      <3>4. CASE ~Measured(s)
        <4>1. DupRecording' = DupRecording /\ MeasuredRecording' = MeasuredRecording
          BY <1>3, <2>1, <2>4, <3>4, ConHands
        <4>2. MeasuredSeen' = MeasuredSeen
          BY <1>1, <2>1, <3>4 DEF MeasuredSeen, Measured
        <4> QED BY <1>1, <2>2, <3>2, <4>1, <4>2, Numbers, Finite DEF Tallies
      <3> QED BY <3>3, <3>4
    <2> QED BY <2>3, <2>4
  <1>4. CASE RecordDeliver(c)
    <2>1. /\ Record(con[c].seq, DeliveryKinds(con[c].dup))
          /\ failed' = failed /\ seen' = seen /\ all' = all
      BY <1>4 DEF RecordDeliver
    <2>2. MeasuredSeen' = MeasuredSeen
      BY <1>1, <2>1 DEF MeasuredSeen
    <2>3. CASE ~Measured(con[c].seq)
      <3>1. tot' = tot
        BY <1>2, <2>1, <2>3, RecordIs
      <3>2. MeasuredRecording' = MeasuredRecording /\ DupRecording' \subseteq DupRecording
        BY <1>4, <2>3, ConHands
      <3>3. Cardinality(DupRecording') \in Nat /\ Cardinality(DupRecording') <= Cardinality(DupRecording)
        BY <3>2, Finite, FS_Subset, FS_CardinalityType
      <3> QED BY <1>1, <2>1, <2>2, <3>1, <3>2, <3>3, Numbers, Finite, SMT DEF Tallies
    <2>4. CASE Measured(con[c].seq) /\ con[c].dup
      <3>1. DeliveryKinds(con[c].dup) = {"del", "dup"}
        BY <2>4 DEF DeliveryKinds
      <3>2. /\ tot'["del"] = tot["del"] + 1 /\ tot'["dup"] = tot["dup"] + 1
            /\ tot'["cons"] = tot["cons"] /\ tot'["pub"] = tot["pub"] /\ tot'["ack"] = tot["ack"]
        <4>1. Record(con[c].seq, {"del", "dup"})
          BY <2>1, <3>1
        <4> QED BY <1>2, <2>4, <4>1, RecordIs, SMT DEF Kinds
      <3>3. /\ MeasuredRecording' = MeasuredRecording
            /\ c \in DupRecording /\ DupRecording' = DupRecording \ {c}
        BY <1>4, <2>4, ConHands
      <3>4. Cardinality(DupRecording') = Cardinality(DupRecording) - 1
        BY <3>3, Shrinks, Finite
      <3> QED BY <1>1, <2>1, <2>2, <3>2, <3>3, <3>4, Numbers, Finite, SMT DEF Tallies
    <2>5. CASE Measured(con[c].seq) /\ ~con[c].dup
      <3>1. DeliveryKinds(con[c].dup) = {"del", "cons"}
        BY <2>5 DEF DeliveryKinds
      <3>2. /\ tot'["del"] = tot["del"] + 1 /\ tot'["cons"] = tot["cons"] + 1
            /\ tot'["dup"] = tot["dup"] /\ tot'["pub"] = tot["pub"] /\ tot'["ack"] = tot["ack"]
        BY <1>2, <2>1, <2>5, <3>1, RecordIs, SMT DEF Kinds
      <3>3. /\ DupRecording' = DupRecording
            /\ c \in MeasuredRecording /\ MeasuredRecording' = MeasuredRecording \ {c}
        BY <1>4, <2>5, ConHands
      <3>4. Cardinality(MeasuredRecording') = Cardinality(MeasuredRecording) - 1
        BY <3>3, Shrinks, Finite
      <3> QED BY <1>1, <2>1, <2>2, <3>2, <3>3, <3>4, Numbers, Finite, SMT DEF Tallies
    <2> QED BY <1>2, <2>3, <2>4, <2>5
  <1>5. CASE AckOk(c) \/ AckErr(c) \/ ConsumerReturns(c) \/ RecordAck(c)
    <2>1. DupRecording' = DupRecording /\ MeasuredRecording' = MeasuredRecording
      BY <1>5, ConHands DEF AckOk, AckErr, ConsumerReturns, RecordAck, Receive, RecordDeliver
    <2>2. seen' = seen /\ (failed' = failed \/ failed')
      BY <1>5 DEF AckOk, AckErr, ConsumerReturns, RecordAck
    <2>3. MeasuredSeen' = MeasuredSeen
      BY <1>1, <2>2 DEF MeasuredSeen
    <2>4. /\ tot'["pub"] = tot["pub"] /\ tot'["del"] = tot["del"] /\ tot'["cons"] = tot["cons"]
          /\ tot'["dup"] = tot["dup"] /\ all'["pub"] = all["pub"] /\ all'["dup"] = all["dup"]
          /\ tot'["ack"] <= all'["ack"]
      <3>1. CASE RecordAck(c)
        <4>1. all' = Add(all, {"ack"}) /\ Record(con[c].seq, {"ack"})
          BY <3>1 DEF RecordAck
        <4>2. /\ all'["ack"] = all["ack"] + 1
              /\ all'["pub"] = all["pub"] /\ all'["dup"] = all["dup"]
          BY <4>1, AddIs, SMT DEF Shape, Kinds
        <4>3. /\ tot'["ack"] \in {tot["ack"], tot["ack"] + 1}
              /\ tot'["pub"] = tot["pub"] /\ tot'["del"] = tot["del"]
              /\ tot'["cons"] = tot["cons"] /\ tot'["dup"] = tot["dup"]
          BY <1>2, <4>1, RecordIs, SMT DEF Kinds
        <4> QED BY <4>2, <4>3, Numbers, SMT DEF Tallies
      <3>2. CASE ~RecordAck(c)
        BY <1>5, <3>2 DEF AckOk, AckErr, ConsumerReturns, statVars, Tallies
      <3> QED BY <3>1, <3>2
    <2> QED BY <1>1, <2>1, <2>2, <2>3, <2>4, Numbers, Finite DEF Tallies
  <1> QED BY <1>3, <1>4, <1>5 DEF Consumer

-----------------------------------------------------------------------------
(* The other steps that touch the books.                                    *)

LEMMA RedeliverCore ==
  ASSUME Shape, Minted, Books, Tallies, Redeliver
  PROVE  Minted' /\ Books' /\ Tallies'
  <1>1. PICK s \in seen \ wire : wire' = wire \union {s}
    BY DEF Redeliver
  <1>2. /\ pub' = pub /\ con' = con /\ seq' = seq /\ seen' = seen /\ dups' = dups + 1
        /\ failed' = failed /\ phaseFrom' = phaseFrom /\ all' = all /\ tot' = tot
    BY DEF Redeliver, pubVars, conVars, statVars
  <1>3. wire' \union seen' = wire \union seen
        /\ wire' \intersect seen' = (wire \intersect seen) \union {s}
    BY <1>1, <1>2
  <1>4. Cardinality(wire' \intersect seen') = Cardinality(wire \intersect seen) + 1
    BY <1>3, Grows, Finite
  <1>5. /\ Minting' = Minting /\ Recording' = Recording /\ MeasuredMinting' = MeasuredMinting
        /\ Unsent' = Unsent /\ Left' = Left
    BY <1>2 DEF Minting, Recording, MeasuredMinting, Unsent, Left, Started
  <1>6. /\ Busy' = Busy /\ DupRecording' = DupRecording
        /\ MeasuredRecording' = MeasuredRecording /\ MeasuredSeen' = MeasuredSeen
    BY <1>2 DEF Busy, DupRecording, MeasuredRecording, MeasuredSeen
  <1>7. Minted'
    BY <1>2, <1>3, <1>5 DEF Minted, Holding
  <1>8. Books'
    <2>1. all["dup"] \in Nat /\ dups \in Nat /\ Cardinality(wire \intersect seen) \in Nat
      BY Numbers, Finite
    <2>2. all'["dup"] + Cardinality(wire' \intersect seen') <= dups'
      BY <1>2, <1>4, <2>1, SMT DEF Books
    <2> QED BY <1>2, <1>3, <1>5, <1>6, <2>2 DEF Books
  <1>9. Tallies'
    BY <1>2, <1>5, <1>6 DEF Tallies
  <1> QED BY <1>7, <1>8, <1>9

LEMMA StartConsumerCore ==
  ASSUME Shape, Minted, Books, Tallies, StartConsumer
  PROVE  /\ Minted' /\ Books' /\ Tallies'
         /\ con' \in [Consumers -> ConRecord]
         /\ \A c \in Consumers : con'[c] # con[c] => c \in cfg.consumers /\ con'[c].pc = "range"
         /\ Busy' = Busy
  <1>1. PICK c \in cfg.consumers : con[c].pc = "off" /\ con' = [con EXCEPT ![c] = Idle("range")]
    BY DEF StartConsumer
  <1>2. /\ pub' = pub /\ seq' = seq /\ seen' = seen /\ wire' = wire /\ dups' = dups
        /\ failed' = failed /\ phaseFrom' = phaseFrom /\ all' = all /\ tot' = tot
    BY DEF StartConsumer, linkVars, pubVars, statVars
  <1>3. c \in Consumers /\ con \in [Consumers -> ConRecord] /\ seq \in Nat
    BY BenchAssumption DEF Shape, ConRecord
  <1>4. /\ con' \in [Consumers -> ConRecord] /\ con'[c].pc = "range" /\ con'[c].seq = 0
        /\ \A d \in Consumers \ {c} : con'[d] = con[d]
    BY <1>1, <1>3 DEF Idle, ConRecord, Stages
  <1>5. /\ Busy' = Busy /\ DupRecording' = DupRecording
        /\ MeasuredRecording' = MeasuredRecording /\ MeasuredSeen' = MeasuredSeen
    BY <1>1, <1>2, <1>4 DEF Busy, DupRecording, MeasuredRecording, MeasuredSeen
  <1>6. /\ Minting' = Minting /\ Recording' = Recording /\ MeasuredMinting' = MeasuredMinting
        /\ Unsent' = Unsent /\ Left' = Left
    BY <1>2 DEF Minting, Recording, MeasuredMinting, Unsent, Left, Started
  <1>7. Minted'
    BY <1>2, <1>3, <1>4, <1>6, SMT DEF Minted, Holding
  <1>8. Books'
    BY <1>2, <1>5, <1>6 DEF Books
  <1>9. Tallies'
    BY <1>2, <1>5, <1>6 DEF Tallies
  <1> QED BY <1>1, <1>4, <1>5, <1>7, <1>8, <1>9

LEMMA StartPublishersCore ==
  ASSUME Shape, Minted, Books, Tallies, StartPublishers,
         \A p \in Publishers : pub[p].pc = "off"
  PROVE  /\ Minted' /\ Books' /\ Tallies'
         /\ pub' \in [Publishers -> PubRecord]
         /\ \A p \in Publishers : pub'[p].pc = "loop"
  <1>1. /\ con' = con /\ seq' = seq /\ seen' = seen /\ wire' = wire /\ dups' = dups
        /\ failed' = failed /\ phaseFrom' = phaseFrom /\ all' = all /\ tot' = tot
    BY DEF StartPublishers, linkVars, conVars
  <1>2. pub \in [Publishers -> PubRecord]
    BY DEF Shape, PubRecord
  <1>3. pub' \in [Publishers -> PubRecord] /\ \A p \in Publishers :
          pub'[p].pc = "loop" /\ pub'[p].seq = pub[p].seq /\ pub'[p].sent = pub[p].sent
    BY <1>2 DEF StartPublishers, PubRecord, Points
  <1>4. /\ Minting' = Minting /\ Recording' = Recording /\ MeasuredMinting' = MeasuredMinting
    BY <1>3 DEF Minting, Recording, MeasuredMinting
  <1>5. \A p \in Publishers : Started(p)' = Started(p) /\ pub'[p].pc # "done" /\ pub[p].pc # "done"
    BY <1>3 DEF Started
  <1>6. Unsent' = Unsent /\ Left' = Left
    BY <1>5 DEF Unsent, Left
  <1>7. /\ Busy' = Busy /\ DupRecording' = DupRecording
        /\ MeasuredRecording' = MeasuredRecording /\ MeasuredSeen' = MeasuredSeen
    BY <1>1 DEF Busy, DupRecording, MeasuredRecording, MeasuredSeen
  <1>8. Minted'
    BY <1>1, <1>3, <1>6 DEF Minted, Holding
  <1>9. Books'
    BY <1>1, <1>4, <1>7 DEF Books
  <1>10. Tallies'
    BY <1>1, <1>4, <1>7 DEF Tallies
  <1> QED BY <1>3, <1>8, <1>9, <1>10

\* beginMeasured: every sequence number minted so far is warmup traffic.
LEMMA WarmupEndsCore ==
  ASSUME Shape, Minted, Books, Tallies, WarmupEnds
  PROVE  Minted' /\ Books' /\ Tallies'
  <1>1. /\ pub' = pub /\ con' = con /\ seq' = seq /\ seen' = seen /\ wire' = wire /\ dups' = dups
        /\ failed' = failed /\ all' = all /\ phaseFrom' = seq /\ tot' = Zero
    BY DEF WarmupEnds, BeginMeasured, linkVars, pubVars, conVars
  <1>2. /\ \A p \in Publishers : pub[p].seq \in Nat /\ pub[p].seq <= seq
        /\ \A c \in Consumers : con[c].seq \in Nat /\ con[c].seq <= seq
        /\ \A s \in seen : s \in Nat /\ s <= seq
        /\ seq \in Nat
    BY SMT DEF Shape, Minted, Holding
  <1>3. MeasuredMinting' = {} /\ MeasuredRecording' = {} /\ MeasuredSeen' = {}
    BY <1>1, <1>2, SMT DEF MeasuredMinting, MeasuredRecording, MeasuredSeen
  <1>4. /\ Minting' = Minting /\ Recording' = Recording
        /\ Unsent' = Unsent /\ Left' = Left
        /\ Busy' = Busy /\ DupRecording' = DupRecording
    BY <1>1 DEF Minting, Recording, Unsent, Left, Started, Busy, DupRecording
  <1>5. Minted'
    BY <1>1, <1>4 DEF Minted, Holding
  <1>6. Books'
    BY <1>1, <1>4 DEF Books
  <1>7. /\ tot'["pub"] = 0 /\ tot'["cons"] = 0 /\ tot'["dup"] = 0 /\ tot'["del"] = 0
        /\ tot'["ack"] = 0
    BY <1>1 DEF Zero, Kinds
  <1>8. Cardinality({}) = 0
    BY FS_EmptySet
  <1>9. Tallies'
    BY <1>1, <1>2, <1>3, <1>4, <1>7, <1>8, Numbers, Finite, SMT DEF Tallies
  <1> QED BY <1>5, <1>6, <1>9

-----------------------------------------------------------------------------
(* The steps of the caller, the sampler and Run that leave the workers and  *)
(* the broker alone.                                                        *)

Quiet ==
  \/ Cancel \/ ConnectionLost \/ Tick
  \/ ConnectSetup \/ DeclareFixture \/ ConnectClient \/ OpenCSV \/ ConsumeFails \/ Aborted
  \/ WarmupAborts \/ StopPublishers \/ MeasuredEnds \/ DrainComplete \/ DrainGivesUp
  \/ Tally \/ Shutdown \/ CloseClients \/ Return

LEMMA NextIs ==
  ASSUME Next
  PROVE  \/ Redeliver \/ StartConsumer \/ StartPublishers \/ WarmupEnds \/ Quiet
         \/ \E p \in Publishers : Publisher(p)
         \/ \E c \in Consumers : Consumer(c)
  BY DEF Next, Run, Setup, Quiet

LEMMA ReturnDoes ==
  ASSUME sampler \in {"off", "on", "dead"}, Return
  PROVE  /\ phaseFrom' = phaseFrom /\ all' = all /\ tot' = tot /\ drops' = drops /\ ticks' = ticks
         /\ \/ /\ sampler = "off" /\ result' = ending
               /\ win' = win /\ rows' = rows /\ sampler' = sampler
            \/ /\ sampler = "dead" /\ result' = Outcome("dead")
               /\ win' = win /\ rows' = rows /\ sampler' = sampler
            \/ /\ sampler = "on" /\ rows' = Plus(rows, win) /\ win' = Zero
               /\ sampler' = "done" /\ result' = Outcome("done")
            \/ /\ sampler = "on" /\ rows' = rows /\ win' = Zero
               /\ sampler' = "dead" /\ result' = Outcome("dead")
  <1>1. CASE sampler = "off"
    BY <1>1 DEF Return, statVars
  <1>2. CASE sampler = "dead"
    BY <1>2 DEF Return, statVars
  <1>3. CASE sampler = "on"
    <2>1. /\ ticks' = ticks
          /\ \/ SampleWindow /\ sampler' = "done" /\ result' = Outcome("done")
             \/ SampleWindowErr /\ result' = Outcome("dead")
      BY <1>3 DEF Return
    <2> QED BY <1>3, <2>1 DEF SampleWindow, SampleWindowErr
  <1> QED BY <1>1, <1>2, <1>3

LEMMA OutcomeIs ==
  ASSUME NEW csv, ctx \in BOOLEAN, failed \in BOOLEAN
  PROVE  /\ Outcome(csv) \in {"interrupted", "failed", "csv", "ok"}
         /\ Outcome(csv) = "ok" => ~ctx /\ ~failed /\ csv # "dead"
  <1>1. CASE ctx
    BY <1>1 DEF Outcome
  <1>2. CASE ~ctx /\ failed
    BY <1>2 DEF Outcome
  <1>3. CASE ~ctx /\ ~failed /\ csv = "dead"
    BY <1>3 DEF Outcome
  <1>4. CASE ~ctx /\ ~failed /\ csv # "dead"
    BY <1>4 DEF Outcome
  <1> QED BY <1>1, <1>2, <1>3, <1>4

LEMMA QuietFrame ==
  ASSUME Quiet, Return => sampler \in {"off", "on", "dead"}
  PROVE  /\ pub' = pub /\ con' = con /\ seq' = seq /\ seen' = seen /\ wire' = wire /\ dups' = dups
         /\ failed' = failed /\ phaseFrom' = phaseFrom /\ all' = all /\ tot' = tot
         /\ cfg' = cfg
  <1> USE DEF setupVars, linkVars, engineVars, pubVars, conVars, statVars
  <1>1. CASE Cancel \/ ConnectionLost
    BY <1>1 DEF Cancel, ConnectionLost
  <1>2. CASE Tick
    BY <1>2 DEF Tick, SampleWindow, SampleWindowErr
  <1>3. CASE ConnectSetup \/ DeclareFixture \/ Aborted
    BY <1>3 DEF ConnectSetup, DeclareFixture, Aborted
  <1>4. CASE ConnectClient \/ OpenCSV \/ ConsumeFails \/ CloseClients
    BY <1>4 DEF ConnectClient, OpenCSV, ConsumeFails, CloseClients
  <1>5. CASE WarmupAborts \/ StopPublishers \/ MeasuredEnds
    BY <1>5 DEF WarmupAborts, StopPublishers, MeasuredEnds
  <1>6. CASE DrainComplete \/ DrainGivesUp \/ Tally \/ Shutdown
    BY <1>6 DEF DrainComplete, DrainGivesUp, Tally, Shutdown
  <1>7. CASE Return
    BY <1>7, ReturnDoes DEF Return
  <1> QED BY <1>1, <1>2, <1>3, <1>4, <1>5, <1>6, <1>7 DEF Quiet

\* Return finds the sampler as Run left it.
LEMMA ReturnSampler ==
  ASSUME Shape, Phases, Return
  PROVE  sampler \in {"off", "on", "dead"}
  BY DEF Shape, Phases, Return

LEMMA CoreStep ==
  ASSUME Shape, Minted, Books, Tallies, Phases, Next
  PROVE  Minted' /\ Books' /\ Tallies'
  <1>1. CASE Redeliver
    BY <1>1, RedeliverCore
  <1>2. CASE StartConsumer
    BY <1>2, StartConsumerCore
  <1>3. CASE StartPublishers
    <2>1. \A p \in Publishers : pub[p].pc = "off"
      BY <1>3 DEF StartPublishers, Phases, Before
    <2> QED BY <1>3, <2>1, StartPublishersCore
  <1>4. CASE WarmupEnds
    BY <1>4, WarmupEndsCore
  <1>5. CASE Quiet
    <2>1. Return => sampler \in {"off", "on", "dead"}
      BY ReturnSampler
    <2> QED BY <1>5, <2>1, QuietFrame, CoreStays
  <1>6. CASE \E p \in Publishers : Publisher(p)
    BY <1>6, PubMinted, PubBooks, PubTallies
  <1>7. CASE \E c \in Consumers : Consumer(c)
    BY <1>7, ConMinted, ConBooks, ConTallies
  <1> QED BY <1>1, <1>2, <1>3, <1>4, <1>5, <1>6, <1>7, NextIs

-----------------------------------------------------------------------------
(* Bounds.                                                                  *)

LEMMA Bounds ==
  ASSUME Shape, Minted, Books, Tallies
  PROVE  /\ seq <= Total
         /\ \A k \in Kinds : all[k] <= Total + MaxDup /\ tot[k] <= Total + MaxDup
         /\ tot["pub"] <= Total
         /\ tot["cons"] + Cardinality(MeasuredRecording) <= seq - phaseFrom
  <1>1. seq <= Total
    BY Finite, TotalType, Numbers, SMT DEF Minted
  <1>2. Cardinality(seen) <= seq
    <2>1. seen \subseteq 1..seq /\ IsFiniteSet(1..seq) /\ Cardinality(1..seq) = seq
      BY Numbers, Numbered DEF Shape
    <2> QED BY <2>1, FS_Subset
  <1>3. Cardinality(MeasuredSeen) <= seq - phaseFrom
    <2>1. MeasuredSeen \subseteq (phaseFrom + 1)..seq
      <3>1. seen \subseteq 1..seq /\ seq \in Nat /\ phaseFrom \in Nat
        BY DEF Shape
      <3>2. \A s \in 1..seq : s > phaseFrom => s \in (phaseFrom + 1)..seq
        BY <3>1, SMT
      <3> QED BY <3>1, <3>2 DEF MeasuredSeen
    <2>2. IsFiniteSet((phaseFrom + 1)..seq) /\ Cardinality((phaseFrom + 1)..seq) = seq - phaseFrom
      BY Numbers, Numbered
    <2> QED BY <2>1, <2>2, FS_Subset
  <1>4. dups <= MaxDup /\ MaxDup \in Nat /\ Total \in Nat
    BY BenchAssumption, TotalType, SMT DEF Shape
  <1>5. /\ all["pub"] <= Total /\ all["cons"] <= Total /\ all["dup"] <= MaxDup
        /\ all["del"] <= Total + MaxDup /\ all["ack"] <= Total + MaxDup
    BY <1>1, <1>2, <1>4, Finite, Numbers, SMT DEF Books
  <1>6. /\ tot["pub"] <= all["pub"] /\ tot["ack"] <= all["ack"] /\ tot["dup"] <= all["dup"]
        /\ tot["cons"] + Cardinality(MeasuredRecording) <= seq - phaseFrom
        /\ tot["del"] = tot["cons"] + tot["dup"]
    BY <1>3, Finite, Numbers, SMT DEF Tallies
  <1>7. tot["cons"] <= Total
    BY <1>1, <1>4, <1>6, Finite, Numbers, SMT
  <1>8. /\ tot["pub"] <= Total /\ tot["dup"] <= MaxDup
        /\ tot["del"] <= Total + MaxDup /\ tot["ack"] <= Total + MaxDup
    BY <1>4, <1>5, <1>6, <1>7, Numbers, SMT
  <1>9. \A k \in Kinds : all[k] <= Total + MaxDup /\ tot[k] <= Total + MaxDup
    BY <1>4, <1>5, <1>7, <1>8, Numbers, SMT DEF Kinds
  <1> QED BY <1>1, <1>6, <1>8, <1>9

-----------------------------------------------------------------------------
(* Types.                                                                   *)

LEMMA PubShape ==
  ASSUME Shape, Minted, NEW p \in Publishers, Publisher(p)
  PROVE  Shape'
  <1>1. pub' \in [Publishers -> PubRecord]
    BY PubMoves
  <1>2. seq' \in Nat /\ seq <= seq'
    <2>1. seq' = seq \/ seq' = seq + 1
      BY PubFrame DEF Mint
    <2> QED BY <2>1, Numbers, SMT
  <1>3. wire' \subseteq 1..seq'
    <2>1. wire \subseteq 1..seq' /\ seq' \in Nat
      BY <1>2, Numbers, SMT DEF Shape
    <2>2. CASE PublishOk(p)
      <3>1. pub[p].pc = "publish" /\ wire' = wire \union {pub[p].seq} /\ seq' = seq
        BY <2>2 DEF PublishOk
      <3>2. pub[p].seq \in 1..seq
        BY <3>1, Numbers, SMT DEF Minted, Holding, Shape
      <3> QED BY <2>1, <3>1, <3>2
    <2>3. CASE ~PublishOk(p)
      BY <2>1, <2>3, PubFrame
    <2> QED BY <2>2, <2>3
  <1>4. all' \in [Kinds -> Nat] /\ tot' \in [Kinds -> Nat] /\ win' \in [Kinds -> Nat]
    <2>1. CASE RecordPublish(p)
      <3>1. /\ all' = Add(all, {"pub"}) /\ Record(pub[p].seq, {"pub"}) /\ pub[p].seq \in Nat
        BY <2>1 DEF RecordPublish, Shape
      <3> QED BY <3>1, AddIs, RecordIs DEF Shape
    <2>2. CASE ~RecordPublish(p)
      BY <2>2, PubFrame DEF Shape
    <2> QED BY <2>1, <2>2
  <1>5. failed' \in BOOLEAN
    BY PubFrame DEF Shape, PublishErr
  <1>6. phaseFrom <= seq' /\ seen \subseteq 1..seq'
    BY <1>2, Numbers, SMT DEF Shape
  <1> QED BY <1>1, <1>2, <1>3, <1>4, <1>5, <1>6, PubFrame DEF Shape, PubRecord

LEMMA ConShape ==
  ASSUME Shape, NEW c \in Consumers, Consumer(c)
  PROVE  Shape'
  <1>1. con' \in [Consumers -> ConRecord]
    BY ConMoves
  <1>2. wire' \subseteq 1..seq /\ seen' \subseteq 1..seq
    <2>1. CASE Receive(c)
      BY <2>1, ReceiveDoes DEF Shape
    <2>2. CASE ~Receive(c)
      BY <2>2, ConFrame DEF Shape
    <2> QED BY <2>1, <2>2
  <1>3. all' \in [Kinds -> Nat]
    <2>1. all \in [Kinds -> Nat]
      BY DEF Shape
    <2>2. all' = all \/ \E ks : all' = Add(all, ks)
      BY ConFrame, ReceiveDoes DEF RecordAck
    <2> QED BY <2>1, <2>2, AddIs, SMT
  <1>4. tot' \in [Kinds -> Nat] /\ win' \in [Kinds -> Nat]
    <2>1. CASE RecordDeliver(c) \/ RecordAck(c)
      <3>1. con[c].seq \in Nat /\ \E ks : Record(con[c].seq, ks)
        BY <2>1 DEF RecordDeliver, RecordAck, Shape
      <3> QED BY <3>1, RecordIs
    <2>2. CASE ~RecordDeliver(c) /\ ~RecordAck(c)
      BY <2>2, ConFrame DEF Shape
    <2> QED BY <2>1, <2>2
  <1>5. failed' \in BOOLEAN
    BY ConFrame DEF Shape, AckErr
  <1> QED BY <1>1, <1>2, <1>3, <1>4, <1>5, ConFrame DEF Shape, ConRecord

LEMMA CountersAre ==
  /\ Zero \in [Kinds -> Nat] /\ \A k \in Kinds : Zero[k] = 0
  /\ \A f, g \in [Kinds -> Nat] :
       Plus(f, g) \in [Kinds -> Nat] /\ \A k \in Kinds : Plus(f, g)[k] = f[k] + g[k]
  BY SMT DEF Zero, Plus

\* The ranges of what the steps of Quiet set.
LEMMA QuietRanges ==
  ASSUME Shape, Minted, Books, Tallies, Phases, Reasons, Quiet
  PROVE  /\ ctx' \in BOOLEAN /\ open' \in BOOLEAN /\ stop' \in BOOLEAN
         /\ held' \subseteq {"setup", "csv"} /\ clients' \in 0..Clients
         /\ engine' \in Engines /\ ending' \in Endings /\ result' \in Results
         /\ win' \in [Kinds -> Nat] /\ rows' \in [Kinds -> Nat]
         /\ drops' \in Nat /\ drops' <= Total
         /\ sampler' \in {"off", "on", "dead", "done"} /\ ticks' \in 0..MaxTick
  <1> USE DEF setupVars, linkVars, engineVars, statVars
  <1>1. Clients \in Nat \ {0} /\ MaxTick \in Nat
    BY BenchAssumption
  <1>2. CASE Cancel \/ ConnectionLost
    BY <1>2 DEF Cancel, ConnectionLost, Shape
  <1>3. CASE Tick
    <2>1. /\ win' \in [Kinds -> Nat] /\ rows' \in [Kinds -> Nat]
          /\ drops' = drops /\ sampler' \in {"on", "dead"}
      BY <1>3, CountersAre, SMT DEF Tick, SampleWindow, SampleWindowErr, Shape
    <2>2. ticks' \in 0..MaxTick
      BY <1>1, <1>3, SMT DEF Tick, Shape
    <2> QED BY <1>3, <2>1, <2>2 DEF Tick, Shape
  <1>4. CASE ConnectSetup \/ DeclareFixture \/ Aborted
    <2>1. /\ held' \in {held, {}, {"setup"}} /\ result' \in {result, "setup"}
          /\ engine' \in {"fixture", "connect", "done"}
          /\ clients' = clients /\ open' = open
          /\ ctx' = ctx /\ stop' = stop /\ ending' = ending /\ win' = win /\ rows' = rows
          /\ drops' = drops /\ sampler' = sampler /\ ticks' = ticks
      BY <1>4 DEF ConnectSetup, DeclareFixture, Aborted, SetupFails
    <2>2. held' \subseteq {"setup", "csv"}
      BY <2>1 DEF Shape
    <2>3. engine' \in Engines /\ result' \in Results
      BY <2>1 DEF Shape, Engines, Results
    <2> QED BY <2>1, <2>2, <2>3 DEF Shape
  <1>5. CASE ConnectClient
    <2>1. clients < Clients /\ clients \in 0..Clients
      BY <1>5 DEF ConnectClient, Phases, Shape
    <2>2. clients' \in 0..Clients
      BY <1>1, <1>5, <2>1, SMT DEF ConnectClient, CloseAll
    <2> QED BY <1>5, <2>2 DEF ConnectClient, CloseAll, SetupFails, Shape, Engines, Results
  <1>6. CASE OpenCSV \/ ConsumeFails \/ CloseClients
    <2>1. /\ clients' \in {0, clients} /\ open' \in {FALSE, open}
          /\ held' \in {held, {}, {"csv"}} /\ result' \in {result, "setup"}
          /\ engine' \in {"consume", "done", "abort", "joining"}
          /\ ctx' = ctx /\ stop' = stop /\ ending' = ending /\ win' = win /\ rows' = rows
          /\ drops' = drops /\ sampler' = sampler /\ ticks' = ticks
      BY <1>6 DEF OpenCSV, ConsumeFails, CloseClients, CloseAll, SetupFails
    <2>2. clients \in 0..Clients /\ 0 \in 0..Clients
      BY <1>1, SMT DEF Shape
    <2>3. clients' \in 0..Clients
      BY <2>1, <2>2
    <2>4. open' \in BOOLEAN /\ held' \subseteq {"setup", "csv"}
      BY <2>1 DEF Shape
    <2>5. engine' \in Engines /\ result' \in Results
      BY <2>1 DEF Shape, Engines, Results
    <2> QED BY <2>1, <2>3, <2>4, <2>5 DEF Shape
  <1>7. CASE WarmupAborts \/ StopPublishers \/ MeasuredEnds
    BY <1>7 DEF WarmupAborts, StopPublishers, MeasuredEnds, Shape, Engines, Endings
  <1>8. CASE DrainComplete \/ DrainGivesUp \/ Shutdown
    BY <1>8 DEF DrainComplete, DrainGivesUp, Shutdown, Shape, Engines, Endings
  <1>9. CASE Tally
    <2>1. drops' \in Nat /\ drops' <= Total
      <3>1. drops \in Nat /\ drops <= Total /\ Total \in Nat
        BY TotalType DEF Shape
      <3>2. tot["pub"] \in Nat /\ tot["cons"] \in Nat /\ tot["pub"] <= Total
        BY Bounds, Numbers
      <3>3. drops' = drops \/ (tot["pub"] > tot["cons"] /\ drops' = tot["pub"] - tot["cons"])
        BY <1>9 DEF Tally
      <3> QED BY <3>1, <3>2, <3>3, SMT
    <2> QED BY <1>9, <2>1 DEF Tally, Shape, Engines
  <1>10. CASE Return
    <2>1. sampler \in {"off", "on", "dead"}
      BY <1>10, ReturnSampler
    <2>2. sampler = "off" => ending \in {"interrupted", "rejected"}
      BY <1>10 DEF Return, Reasons, Measuring
    <2>3. Outcome("dead") \in Results /\ Outcome("done") \in Results
      BY OutcomeIs, SMT DEF Shape, Results
    <2>4. result' \in Results
      BY <1>10, <2>1, <2>2, <2>3, ReturnDoes DEF Results
    <2>5. /\ win' \in [Kinds -> Nat] /\ rows' \in [Kinds -> Nat] /\ drops' = drops
          /\ ticks' = ticks /\ sampler' \in {"off", "on", "dead", "done"}
      BY <1>10, <2>1, ReturnDoes, CountersAre, SMT DEF Shape
    <2> QED BY <1>10, <2>4, <2>5 DEF Return, Shape, Engines
  <1> QED BY <1>2, <1>3, <1>4, <1>5, <1>6, <1>7, <1>8, <1>9, <1>10 DEF Quiet

LEMMA ShapeStep ==
  ASSUME Shape, Minted, Books, Tallies, Phases, Reasons, Next
  PROVE  Shape'
  <1>1. CASE Redeliver
    <2>1. wire' \subseteq 1..seq /\ dups' \in 0..MaxDup
      BY <1>1, BenchAssumption, SMT DEF Redeliver, Shape
    <2> QED BY <1>1, <2>1 DEF Redeliver, Shape, setupVars, engineVars, pubVars, conVars, statVars
  <1>2. CASE StartConsumer
    <2>1. con' \in [Consumers -> ConRecord]
      BY <1>2, StartConsumerCore
    <2> QED BY <1>2, <2>1
             DEF StartConsumer, Shape, ConRecord, setupVars, linkVars, engineVars, pubVars, statVars
  <1>3. CASE StartPublishers
    <2>1. \A p \in Publishers : pub[p].pc = "off"
      BY <1>3 DEF StartPublishers, Phases, Before
    <2>2. pub' \in [Publishers -> PubRecord]
      BY <1>3, <2>1, StartPublishersCore
    <2> QED BY <1>3, <2>2
             DEF StartPublishers, Shape, PubRecord, Engines, setupVars, linkVars, conVars
  <1>4. CASE WarmupEnds
    <2>1. /\ tot' = Zero /\ win' = Zero /\ drops' = 0 /\ phaseFrom' = seq
          /\ engine' \in Engines /\ ending' \in Endings /\ sampler' \in {sampler, "on"}
      BY <1>4 DEF WarmupEnds, BeginMeasured, Shape, Engines, Endings
    <2>2. drops' \in Nat /\ drops' <= Total
      BY <2>1, TotalType, SMT
    <2>3. phaseFrom' \in Nat /\ phaseFrom' <= seq
      BY <2>1, Numbers, SMT
    <2> QED BY <1>4, <2>1, <2>2, <2>3, CountersAre
             DEF WarmupEnds, Shape, setupVars, linkVars, pubVars, conVars
  <1>5. CASE Quiet
    <2>1. Return => sampler \in {"off", "on", "dead"}
      BY ReturnSampler
    <2> QED BY <1>5, <2>1, QuietFrame, QuietRanges DEF Shape
  <1>6. CASE \E p \in Publishers : Publisher(p)
    BY <1>6, PubShape
  <1>7. CASE \E c \in Consumers : Consumer(c)
    BY <1>7, ConShape
  <1> QED BY <1>1, <1>2, <1>3, <1>4, <1>5, <1>6, <1>7, NextIs

-----------------------------------------------------------------------------
(* The windows.                                                             *)

\* A record* call adds the same to the window and to the totals.
LEMMA RecordWindows ==
  ASSUME Shape, Windows, NEW s \in Nat, NEW ks, Record(s, ks)
  PROVE  Windows'
  <1>1. rows' = rows /\ sampler' = sampler
    BY DEF Record
  <1>2. \A k \in Kinds : win'[k] - win[k] = tot'[k] - tot[k]
    <2>1. CASE Measured(s)
      <3>1. ASSUME NEW k \in Kinds PROVE win'[k] - win[k] = tot'[k] - tot[k]
        <4>1. CASE k \in ks
          BY <2>1, <4>1, RecordIs, Counters, SMT
        <4>2. CASE k \notin ks
          BY <2>1, <4>2, RecordIs, Counters, SMT
        <4> QED BY <4>1, <4>2
      <3> QED BY <3>1
    <2>2. CASE ~Measured(s)
      BY <2>2, RecordIs, Counters, SMT
    <2> QED BY <2>1, <2>2
  <1>3. \A k \in Kinds : /\ tot[k] \in Nat /\ win[k] \in Nat /\ rows[k] \in Nat
                         /\ tot'[k] \in Nat /\ win'[k] \in Nat
    BY Counters, RecordIs
  <1>4. \A k \in Kinds : /\ rows[k] + win[k] <= tot[k] => rows'[k] + win'[k] <= tot'[k]
                         /\ rows[k] + win[k] = tot[k] => rows'[k] + win'[k] = tot'[k]
    BY <1>1, <1>2, <1>3, SMT
  <1> QED BY <1>1, <1>4 DEF Windows

LEMMA WindowsStep ==
  ASSUME Shape, Windows, Phases, Next
  PROVE  Windows'
  <1> USE DEF setupVars, linkVars, engineVars, pubVars, conVars, statVars
  <1>1. ASSUME rows' = rows, win' = win, tot' = tot, sampler' = sampler
        PROVE  Windows'
    BY <1>1 DEF Windows
  <1>2. CASE Redeliver \/ StartConsumer
    BY <1>1, <1>2 DEF Redeliver, StartConsumer
  <1>3. CASE StartPublishers
    BY <1>3 DEF StartPublishers, Windows, Phases, Before
  <1>4. CASE WarmupEnds
    <2>1. /\ tot' = Zero /\ win' = Zero /\ rows' = rows /\ sampler = "off"
          /\ sampler' \in {"off", "on"}
      BY <1>4 DEF WarmupEnds, BeginMeasured, Phases
    <2>2. \A k \in Kinds : rows'[k] = 0 /\ tot'[k] = 0 /\ win'[k] = 0
      BY <2>1, CountersAre DEF Windows
    <2> QED BY <2>2, SMT DEF Windows
  <1>5. CASE \E p \in Publishers : Publisher(p)
    <2>1. PICK p \in Publishers : Publisher(p)
      BY <1>5
    <2>2. CASE RecordPublish(p)
      <3>1. Record(pub[p].seq, {"pub"}) /\ pub[p].seq \in Nat
        BY <2>2 DEF RecordPublish, Shape
      <3> QED BY <3>1, RecordWindows
    <2>3. CASE ~RecordPublish(p)
      BY <1>1, <2>1, <2>3, PubFrame
    <2> QED BY <2>2, <2>3
  <1>6. CASE \E c \in Consumers : Consumer(c)
    <2>1. PICK c \in Consumers : Consumer(c)
      BY <1>6
    <2>2. CASE RecordDeliver(c) \/ RecordAck(c)
      <3>1. con[c].seq \in Nat /\ \E ks : Record(con[c].seq, ks)
        BY <2>2 DEF RecordDeliver, RecordAck, Shape
      <3> QED BY <3>1, RecordWindows
    <2>3. CASE ~RecordDeliver(c) /\ ~RecordAck(c)
      BY <1>1, <2>1, <2>3, ConFrame
    <2> QED BY <2>2, <2>3
  <1>7. ASSUME tot' = tot, win' = Zero, sampler # "off", sampler' # "off",
               \/ rows' = Plus(rows, win) /\ (sampler' # "dead" => sampler # "dead")
               \/ rows' = rows /\ sampler' = "dead"
        PROVE  Windows'
    <2>1. \A k \in Kinds : tot[k] \in Nat /\ win[k] \in Nat /\ rows[k] \in Nat /\ win'[k] = 0
      BY <1>7, Counters, CountersAre
    <2>2. CASE rows' = Plus(rows, win) /\ (sampler' # "dead" => sampler # "dead")
      <3>1. \A k \in Kinds : rows'[k] = rows[k] + win[k]
        BY <2>2, CountersAre, SMT DEF Shape
      <3> QED BY <1>7, <2>1, <2>2, <3>1, SMT DEF Windows
    <2>3. CASE rows' = rows /\ sampler' = "dead"
      BY <1>7, <2>1, <2>3, SMT DEF Windows
    <2> QED BY <1>7, <2>2, <2>3
  <1>8. CASE Quiet
    <2>1. CASE Tick
      <3>1. /\ sampler = "on" /\ tot' = tot /\ win' = Zero
            /\ \/ rows' = Plus(rows, win) /\ sampler' = "on"
               \/ rows' = rows /\ sampler' = "dead"
        BY <2>1 DEF Tick, SampleWindow, SampleWindowErr
      <3> QED BY <1>7, <3>1
    <2>2. CASE Return
      <3>1. sampler \in {"off", "on", "dead"}
        BY <2>2, ReturnSampler
      <3> QED BY <1>1, <1>7, <2>2, <3>1, ReturnDoes
    <2>3. CASE Cancel \/ ConnectionLost \/ ConnectSetup \/ DeclareFixture \/ ConnectClient \/ OpenCSV
      BY <1>1, <2>3 DEF Cancel, ConnectionLost, ConnectSetup, DeclareFixture, ConnectClient, OpenCSV
    <2>4. CASE ConsumeFails \/ Aborted \/ WarmupAborts \/ StopPublishers \/ MeasuredEnds
      BY <1>1, <2>4 DEF ConsumeFails, Aborted, WarmupAborts, StopPublishers, MeasuredEnds
    <2>5. CASE DrainComplete \/ DrainGivesUp \/ Tally \/ Shutdown \/ CloseClients
      BY <1>1, <2>5 DEF DrainComplete, DrainGivesUp, Tally, Shutdown, CloseClients
    <2> QED BY <1>8, <2>1, <2>2, <2>3, <2>4, <2>5 DEF Quiet
  <1> QED BY <1>2, <1>3, <1>4, <1>5, <1>6, <1>8, NextIs

-----------------------------------------------------------------------------
(* The phases.                                                              *)

\* Only a phase that has publishers has one that is neither off nor done.
LEMMA PubActive ==
  ASSUME Phases, NEW p \in Publishers, pub[p].pc \notin {"off", "done"}
  PROVE  /\ engine \notin Before /\ engine \notin {"joining", "done"}
         /\ ~(Measuring /\ engine \in After)
  BY DEF Phases, PubDone, NothingLeaks

LEMMA PubPhases ==
  ASSUME Shape, Phases, NEW p \in Publishers, Publisher(p)
  PROVE  /\ Phases' /\ engine \notin Before /\ engine \notin {"joining", "done"}
         /\ ~(Measuring /\ engine \in After)
  <1>1. pub[p].pc \notin {"off", "done"}
    BY DEF Publisher, PublisherReturns, Mint, PublishOk, PublishErr, RecordPublish
  <1>2. /\ engine \notin Before /\ engine \notin {"joining", "done"}
        /\ ~(Measuring /\ engine \in After)
    BY <1>1, PubActive
  <1>3. Phases'
    BY <1>2, PubFrame DEF Phases, Measuring, NothingLeaks
  <1> QED BY <1>2, <1>3

LEMMA ConPhases ==
  ASSUME Shape, Phases, NEW c \in Consumers, Consumer(c)
  PROVE  Phases' /\ engine # "done"
  <1>1. con[c].pc \notin {"off", "done"}
    BY DEF Consumer, Receive, RecordDeliver, AckOk, AckErr, RecordAck, ConsumerReturns
  <1>2. /\ engine \notin {"setup", "fixture", "connect", "csv", "done"} /\ c \in cfg.consumers
    BY <1>1 DEF Phases, NothingLeaks
  <1>3. \A d \in Consumers \ cfg.consumers : con'[d].pc = "off"
    BY <1>2, ConMoves, SMT DEF Phases
  <1>4. PubDone => PubDone'
    BY ConFrame DEF PubDone
  <1> QED BY <1>2, <1>3, <1>4, ConFrame DEF Phases, Measuring, NothingLeaks

LEMMA QuietPhases ==
  ASSUME Shape, Phases, Reasons, Quiet
  PROVE  Phases'
  <1> USE DEF setupVars, linkVars, engineVars, statVars
  <1>1. Return => sampler \in {"off", "on", "dead"}
    BY ReturnSampler
  <1>2. /\ pub' = pub /\ con' = con /\ phaseFrom' = phaseFrom /\ cfg' = cfg
        /\ PubDone' = PubDone
    BY <1>1, QuietFrame DEF PubDone
  <1>3. CASE Cancel \/ ConnectionLost
    <2>1. /\ open' => open
          /\ held' = held /\ clients' = clients
          /\ engine' = engine /\ sampler' = sampler
      BY <1>3, SMT DEF Cancel, ConnectionLost
    <2> QED BY <1>2, <2>1 DEF Phases, Measuring, NothingLeaks
  <1>4. CASE Tick
    <2>1. /\ sampler = "on" /\ engine # "done" /\ sampler' \in {"on", "dead"}
          /\ engine' = engine /\ held' = held /\ clients' = clients /\ open' = open
      BY <1>4 DEF Tick, SampleWindowErr
    <2> QED BY <1>2, <2>1 DEF Phases, Measuring, NothingLeaks
  <1>5. CASE ConnectSetup
    <2>1. /\ engine = "setup" /\ clients' = clients /\ open' = open /\ sampler' = sampler
          /\ \/ engine' = "fixture"
             \/ engine' = "done" /\ held' = held
      BY <1>5 DEF ConnectSetup, SetupFails
    <2> QED BY <1>2, <2>1 DEF Phases, Measuring, NothingLeaks, Before, After
  <1>6. CASE DeclareFixture
    <2>1. /\ engine = "fixture" /\ clients' = clients /\ open' = open /\ sampler' = sampler
          /\ held' = {} /\ engine' \in {"connect", "done"}
      BY <1>6 DEF DeclareFixture, SetupFails
    <2>2. 0 < Clients
      BY BenchAssumption, SMT
    <2> QED BY <1>2, <2>1, <2>2 DEF Phases, Measuring, NothingLeaks, Before, After
  <1>7. CASE ConnectClient
    <2>1. clients \in Nat /\ Clients \in Nat /\ clients < Clients
      BY <1>7, BenchAssumption, SMT DEF ConnectClient, Shape, Phases
    <2>2. /\ engine = "connect" /\ held' = held /\ sampler' = sampler
          /\ \/ engine' \in {"connect", "csv"} /\ clients' # 0
                /\ (engine' = "connect" => clients' < Clients)
             \/ engine' = "done" /\ clients' = 0 /\ ~open'
      BY <1>7, <2>1, SMT DEF ConnectClient, SetupFails, CloseAll
    <2> QED BY <1>2, <2>2 DEF Phases, Measuring, NothingLeaks, Before, After
  <1>8. CASE OpenCSV
    <2>1. /\ engine = "csv" /\ sampler' = sampler
          /\ \/ engine' = "consume" /\ clients' = clients /\ open' = open
             \/ engine' = "done" /\ held' = {} /\ clients' = 0 /\ ~open'
      BY <1>8 DEF OpenCSV, SetupFails, CloseAll
    <2>2. /\ \A c \in Consumers : con[c].pc = "off"
          /\ \A q \in Publishers : pub[q].pc = "off"
          /\ sampler = "off" /\ phaseFrom = 0
      BY <2>1 DEF Phases, Before
    <2>3. CASE engine' = "consume"
      BY <1>2, <2>1, <2>2, <2>3, SMT DEF Phases, Measuring, NothingLeaks, After
    <2>4. CASE engine' = "done"
      BY <1>2, <2>1, <2>2, <2>4 DEF Phases, Measuring, NothingLeaks, Before
    <2> QED BY <2>1, <2>3, <2>4
  <1>9. CASE ConsumeFails
    <2>1. /\ engine = "consume" /\ sampler' = sampler /\ engine' = "abort"
          /\ clients' = 0 /\ ~open'
      BY <1>9 DEF ConsumeFails, CloseAll
    <2> QED BY <1>2, <2>1 DEF Phases, Measuring, NothingLeaks, Before, After
  <1>10. CASE Aborted
    <2>1. /\ engine = "abort" /\ sampler' = sampler /\ engine' = "done" /\ held' = {}
          /\ clients' = clients /\ open' = open
          /\ \A c \in Consumers : con[c].pc \in {"off", "done"}
      BY <1>10 DEF Aborted, SetupFails
    <2> QED BY <1>2, <2>1 DEF Phases, Measuring, NothingLeaks, Before, After
  <1>11. CASE WarmupAborts
    <2>1. /\ engine = "warmup" /\ sampler' = sampler /\ engine' = "shutdown"
          /\ clients' = clients /\ open' = open
      BY <1>11 DEF WarmupAborts
    <2> QED BY <1>2, <2>1 DEF Phases, Measuring, NothingLeaks, Before, After
  <1>12. CASE StopPublishers
    BY <1>2, <1>12 DEF StopPublishers, Phases, Measuring, NothingLeaks
  <1>13. CASE MeasuredEnds
    <2>1. /\ engine = "measured" /\ PubDone /\ sampler' = sampler /\ engine' \in {"drain", "tally"}
          /\ clients' = clients /\ open' = open
      BY <1>13 DEF MeasuredEnds
    <2> QED BY <1>2, <2>1 DEF Phases, Measuring, NothingLeaks, Before, After
  <1>14. CASE DrainComplete \/ DrainGivesUp \/ Tally \/ Shutdown
    <2>1. /\ sampler' = sampler /\ clients' = clients /\ open' = open
          /\ \/ engine = "drain" /\ engine' = "tally"
             \/ engine = "tally" /\ engine' = "shutdown"
             \/ engine = "shutdown" /\ engine' = "closing"
      BY <1>14 DEF DrainComplete, DrainGivesUp, Tally, Shutdown
    <2> QED BY <1>2, <2>1 DEF Phases, Measuring, NothingLeaks, Before, After
  <1>15. CASE CloseClients
    <2>1. /\ engine = "closing" /\ PubDone /\ sampler' = sampler /\ engine' = "joining"
          /\ clients' = 0 /\ ~open'
      BY <1>15 DEF CloseClients, CloseAll
    <2> QED BY <1>2, <2>1 DEF Phases, Measuring, NothingLeaks, Before, After
  <1>16. CASE Return
    <2>1. /\ engine = "joining" /\ engine' = "done" /\ held' = {}
          /\ clients' = clients /\ open' = open
          /\ \A c \in cfg.consumers : con[c].pc = "done"
      BY <1>16 DEF Return
    <2>2. sampler' # "on" /\ (sampler = "off" <=> sampler' = "off")
      BY <1>1, <1>16, ReturnDoes
    <2>3. \A c \in Consumers : con[c].pc \in {"off", "done"}
      BY <2>1 DEF Phases
    <2>4. \A p \in Publishers : pub[p].pc = "done"
      BY <2>1 DEF Phases, PubDone
    <2> QED BY <1>2, <2>1, <2>2, <2>3, <2>4 DEF Phases, Measuring, NothingLeaks, Before, After, PubDone
  <1> QED BY <1>3, <1>4, <1>5, <1>6, <1>7, <1>8, <1>9, <1>10, <1>11, <1>12, <1>13, <1>14, <1>15,
             <1>16 DEF Quiet

LEMMA PhasesStep ==
  ASSUME Shape, Minted, Books, Tallies, Phases, Reasons, Next
  PROVE  Phases'
  <1> USE DEF setupVars, linkVars, engineVars, pubVars, conVars, statVars
  <1>1. CASE Redeliver
    BY <1>1 DEF Redeliver, Phases, Measuring, NothingLeaks, PubDone
  <1>2. CASE StartConsumer
    <2>1. /\ engine = "consume" /\ engine' = engine /\ pub' = pub /\ cfg' = cfg
          /\ held' = held /\ clients' = clients /\ open' = open
          /\ sampler' = sampler /\ phaseFrom' = phaseFrom
      BY <1>2 DEF StartConsumer
    <2>2. \A c \in Consumers \ cfg.consumers : con'[c].pc = "off"
      BY <1>2, StartConsumerCore DEF Phases
    <2> QED BY <2>1, <2>2 DEF Phases, Measuring, NothingLeaks, PubDone, Before, After
  <1>3. CASE StartPublishers
    <2>1. /\ engine = "consume" /\ con' = con /\ cfg' = cfg
          /\ held' = held /\ clients' = clients /\ open' = open /\ phaseFrom' = phaseFrom
          /\ \/ engine' = "warmup" /\ sampler' = "off"
             \/ engine' = "measured" /\ sampler' = "on"
      BY <1>3 DEF StartPublishers
    <2>2. phaseFrom = 0 /\ 0 < Total
      BY <2>1, TotalType, SMT DEF Phases, Before
    <2> QED BY <2>1, <2>2 DEF Phases, Measuring, NothingLeaks, Before, After
  <1>4. CASE WarmupEnds
    <2>1. /\ engine = "warmup" /\ con' = con /\ pub' = pub /\ cfg' = cfg
          /\ held' = held /\ clients' = clients /\ open' = open /\ phaseFrom' = seq
          /\ sampler = "off"
          /\ \/ engine' = "shutdown" /\ sampler' = "off"
             \/ ~(seq >= Total) /\ engine' = "measured" /\ sampler' = "on"
      BY <1>4 DEF WarmupEnds, BeginMeasured, Phases
    <2>2. ~(seq >= Total) => seq < Total
      BY TotalType, Numbers, SMT
    <2> QED BY <2>1, <2>2 DEF Phases, Measuring, NothingLeaks, Before, After
  <1>5. CASE Quiet
    BY <1>5, QuietPhases
  <1>6. CASE \E p \in Publishers : Publisher(p)
    BY <1>6, PubPhases
  <1>7. CASE \E c \in Consumers : Consumer(c)
    BY <1>7, ConPhases
  <1> QED BY <1>1, <1>2, <1>3, <1>4, <1>5, <1>6, <1>7, NextIs

-----------------------------------------------------------------------------
(* The reasons.                                                             *)

LEMMA PubReasons ==
  ASSUME Shape, Phases, Reasons, NEW p \in Publishers, Publisher(p)
  PROVE  Reasons'
  <1>1. /\ engine \notin {"joining", "done"} /\ ~(Measuring /\ engine \in After)
    BY PubPhases
  <1>2. pub'[p].pc = "done" => pub'[p].sent = Msgs \/ stop \/ failed'
    BY PubMoves DEF Publisher, PublisherReturns, PublishErr
  <1>3. failed => failed'
    BY PubFrame DEF PublishErr
  <1>4. \A q \in Publishers : pub'[q].pc = "done" => pub'[q].sent = Msgs \/ stop \/ failed'
    <2> TAKE q \in Publishers
    <2>1. CASE q = p
      BY <1>2, <2>1
    <2>2. CASE q # p
      BY <1>3, <2>2, PubMoves DEF Reasons
    <2> QED BY <2>1, <2>2
  <1>5. /\ ending' = ending /\ engine' = engine /\ sampler' = sampler /\ stop' = stop
        /\ cfg' = cfg /\ ctx' = ctx /\ result' = result
    BY PubFrame
  <1> QED BY <1>1, <1>3, <1>4, <1>5 DEF Reasons, Measuring

LEMMA ConReasons ==
  ASSUME Shape, Phases, Reasons, NEW c \in Consumers, Consumer(c)
  PROVE  Reasons'
  <1>1. engine # "done"
    BY ConPhases
  <1>2. failed => failed'
    BY ConFrame DEF AckErr
  <1>3. /\ ending' = ending /\ engine' = engine /\ sampler' = sampler /\ stop' = stop
        /\ cfg' = cfg /\ ctx' = ctx /\ result' = result /\ pub' = pub
    BY ConFrame
  <1> QED BY <1>1, <1>2, <1>3 DEF Reasons, Measuring

LEMMA QuietReasons ==
  ASSUME Shape, Windows, Phases, Reasons, Quiet
  PROVE  Reasons'
  <1> USE DEF setupVars, linkVars, engineVars, statVars
  <1>1. Return => sampler \in {"off", "on", "dead"}
    BY ReturnSampler
  <1>2. pub' = pub /\ cfg' = cfg /\ failed' = failed /\ tot' = tot
    BY <1>1, QuietFrame
  <1>3. CASE Cancel
    <2>1. /\ ending' = ending /\ engine' = engine /\ sampler' = sampler /\ stop' = stop
          /\ result' = result /\ rows' = rows /\ ctx' = TRUE /\ engine # "done"
      BY <1>3 DEF Cancel
    <2> QED BY <1>2, <2>1 DEF Reasons, Measuring
  <1>4. CASE ConnectionLost
    <2>1. /\ ending' = ending /\ engine' = engine /\ sampler' = sampler /\ stop' = stop
          /\ result' = result /\ rows' = rows /\ ctx' = ctx
      BY <1>4 DEF ConnectionLost
    <2> QED BY <1>2, <2>1 DEF Reasons, Measuring
  <1>5. CASE Tick
    <2>1. /\ sampler = "on" /\ sampler' \in {"on", "dead"} /\ engine # "done"
          /\ engine' = engine /\ stop' = stop /\ ending' = ending /\ result' = result /\ ctx' = ctx
      BY <1>5 DEF Tick, SampleWindowErr
    <2> QED BY <1>2, <2>1 DEF Reasons, Measuring
  <1>6. CASE ConnectSetup \/ DeclareFixture \/ ConnectClient \/ OpenCSV \/ ConsumeFails \/ Aborted
    <2>1. /\ engine \in Before /\ engine # "done"
          /\ engine' \notin {"shutdown", "closing", "joining"}
          /\ result' \in {result, "setup"} /\ sampler' = sampler
          /\ stop' = stop /\ ending' = ending /\ ctx' = ctx
      BY <1>6 DEF ConnectSetup, DeclareFixture, ConnectClient, OpenCSV, ConsumeFails, Aborted,
                  SetupFails, Before
    <2>2. ~Measuring /\ engine \notin {"closing", "joining", "done"}
      BY <2>1 DEF Phases, Measuring, Before
    <2> QED BY <1>2, <2>1, <2>2 DEF Reasons, Measuring
  <1>7. CASE WarmupAborts
    <2>1. /\ engine = "warmup" /\ engine' = "shutdown" /\ result' = result /\ sampler' = sampler
          /\ stop' = stop /\ ctx' = ctx
          /\ \/ ctx /\ ending' = "interrupted"
             \/ ending' = "rejected"
      BY <1>7 DEF WarmupAborts
    <2>2. ~Measuring
      BY <2>1 DEF Phases, Measuring
    <2> QED BY <1>2, <2>1, <2>2 DEF Reasons, Measuring
  <1>8. CASE StopPublishers
    BY <1>2, <1>8 DEF StopPublishers, Reasons, Measuring
  <1>9. CASE MeasuredEnds
    <2>1. /\ engine = "measured" /\ engine' \in {"drain", "tally"} /\ PubDone
          /\ result' = result /\ sampler' = sampler /\ stop' = stop /\ ctx' = ctx
          /\ ending' = IF ctx THEN "interrupted" ELSE ending
      BY <1>9 DEF MeasuredEnds
    <2>2. ~cfg.duration /\ ~ctx /\ ~failed => \A p \in Publishers : pub[p].sent = Msgs
      BY <2>1 DEF Reasons, PubDone
    <2>3. ending' # "drained"
      BY <2>1 DEF Reasons, After
    <2> QED BY <1>2, <2>1, <2>2, <2>3 DEF Reasons, Measuring
  <1>10. CASE DrainComplete \/ DrainGivesUp \/ Tally \/ Shutdown \/ CloseClients
    <2>1. /\ engine \in After \ {"done"} /\ engine' \in After \ {"done"}
          /\ result' = result /\ sampler' = sampler /\ ctx' = ctx
          /\ engine \in {"closing", "joining"} => engine' \in {"closing", "joining"}
      BY <1>10 DEF DrainComplete, DrainGivesUp, Tally, Shutdown, CloseClients, After
    <2>2. stop' => stop \/ engine' \in {"closing", "joining"}
      BY <1>10 DEF DrainComplete, DrainGivesUp, Tally, Shutdown, CloseClients
    <2>3. stop => stop'
      BY <1>10 DEF DrainComplete, DrainGivesUp, Tally, Shutdown, CloseClients
    <2>4. /\ ending' = "interrupted" => ctx
          /\ ending' = "drained" => Measuring
          /\ engine' \in {"shutdown", "closing", "joining"} /\ ~Measuring =>
               ending' \in {"interrupted", "rejected"}
      BY <1>10 DEF DrainComplete, DrainGivesUp, Tally, Shutdown, CloseClients, Reasons, Phases, Measuring
    <2> QED BY <1>2, <2>1, <2>2, <2>3, <2>4 DEF Reasons, Measuring
  <1>11. CASE Return
    <2>1. /\ engine = "joining" /\ engine' = "done" /\ stop' = stop /\ ending' = ending /\ ctx' = ctx
      BY <1>11 DEF Return
    <2>2. sampler = "off" <=> sampler' = "off"
      BY <1>1, <1>11, ReturnDoes
    <2>3. result' = "ok" => sampler' = "done" /\ ~ctx /\ ~failed /\ rows' = Plus(rows, win) /\ sampler = "on"
      <3>1. sampler = "off" => ending \in {"interrupted", "rejected"}
        BY <2>1 DEF Reasons, Measuring
      <3>2. ctx \in BOOLEAN /\ failed \in BOOLEAN
        BY DEF Shape
      <3> QED BY <1>1, <1>11, <3>1, <3>2, ReturnDoes, OutcomeIs, SMT
    <2>4. sampler = "on" => Plus(rows, win) = tot
      <3>1. sampler = "on" => \A k \in Kinds : rows[k] + win[k] = tot[k]
        BY DEF Windows
      <3>2. tot \in [Kinds -> Nat]
        BY DEF Shape
      <3> QED BY <3>1, <3>2 DEF Plus
    <2>5. engine \in After
      BY <2>1 DEF After
    <2> QED BY <1>2, <2>1, <2>2, <2>3, <2>4, <2>5 DEF Reasons, Measuring, After
  <1> QED BY <1>3, <1>4, <1>5, <1>6, <1>7, <1>8, <1>9, <1>10, <1>11 DEF Quiet

LEMMA ReasonsStep ==
  ASSUME Shape, Minted, Books, Tallies, Windows, Phases, Reasons, Next
  PROVE  Reasons'
  <1> USE DEF setupVars, linkVars, engineVars, pubVars, conVars, statVars
  <1>1. CASE Redeliver
    BY <1>1 DEF Redeliver, Reasons, Measuring
  <1>2. CASE StartConsumer
    BY <1>2 DEF StartConsumer, Reasons, Measuring
  <1>3. CASE StartPublishers
    <2>1. /\ engine = "consume" /\ cfg' = cfg /\ ctx' = ctx /\ engine' \in {"warmup", "measured"}
          /\ stop' = stop /\ ending' = ending /\ result' = result
      BY <1>3 DEF StartPublishers
    <2>2. \A p \in Publishers : pub'[p].pc = "loop"
      <3>1. \A p \in Publishers : pub[p].pc = "off"
        BY <2>1 DEF Phases, Before
      <3> QED BY <1>3, <3>1, StartPublishersCore
    <2> QED BY <2>1, <2>2 DEF Reasons, Measuring, After
  <1>4. CASE WarmupEnds
    <2>1. /\ engine = "warmup" /\ cfg' = cfg /\ ctx' = ctx /\ stop' = stop /\ result' = result
          /\ pub' = pub /\ failed' = failed /\ sampler = "off"
          /\ \/ engine' = "shutdown" /\ ending' = "rejected" /\ sampler' = "off"
             \/ engine' = "measured" /\ ending' = ending
      BY <1>4 DEF WarmupEnds, Phases
    <2> QED BY <2>1, SMT DEF Reasons, Measuring, After
  <1>5. CASE Quiet
    BY <1>5, QuietReasons
  <1>6. CASE \E p \in Publishers : Publisher(p)
    BY <1>6, PubReasons
  <1>7. CASE \E c \in Consumers : Consumer(c)
    BY <1>7, ConReasons
  <1> QED BY <1>1, <1>2, <1>3, <1>4, <1>5, <1>6, <1>7, NextIs

-----------------------------------------------------------------------------
(* The drain and the loss.                                                  *)

\* Once the publishers are done, what was published in the measured phase is
\* what was minted in it, and no more than that is consumed.
LEMMA PubDoneCounts ==
  ASSUME Shape, Minted, Books, Tallies, PubDone
  PROVE  /\ Minting = {} /\ Recording = {} /\ MeasuredMinting = {}
         /\ ~failed => tot["pub"] = seq - phaseFrom
         /\ ~failed => tot["cons"] + Cardinality(MeasuredRecording) <= tot["pub"]
  <1>1. Minting = {} /\ Recording = {} /\ MeasuredMinting = {}
    BY DEF PubDone, Minting, Recording, MeasuredMinting
  <1>2. ~failed => tot["pub"] = seq - phaseFrom
    BY <1>1, FS_EmptySet, Numbers, SMT DEF Tallies
  <1> QED BY <1>1, <1>2, Bounds, Numbers, Finite

\* What drained has established when it lets the engine go on.
LEMMA DrainedMeans ==
  ASSUME Shape, Minted, Books, Tallies, PubDone, Drained
  PROVE  /\ ~failed => tot["cons"] = tot["pub"]
         /\ cfg.ack => wire \subseteq seen /\ Busy = {}
  <1>1. /\ Cardinality(Minting) = 0 /\ Cardinality(Recording) = 0
        /\ ~failed => tot["pub"] = seq - phaseFrom
        /\ ~failed => tot["cons"] + Cardinality(MeasuredRecording) <= tot["pub"]
    BY PubDoneCounts, FS_EmptySet
  <1>2. CASE cfg.ack
    <2>1. all["cons"] >= all["pub"] /\ all["ack"] >= all["del"]
      BY <1>2 DEF Drained
    <2>2. Cardinality(Busy) = 0 /\ Cardinality(wire \union seen) <= Cardinality(seen)
      BY <1>1, <2>1, Numbers, Finite, SMT DEF Books
    <2>3. Busy = {}
      BY <2>2, Finite, FS_EmptySet
    <2>4. wire \subseteq seen
      <3>1. seen \subseteq wire \union seen
        OBVIOUS
      <3>2. seen = wire \union seen
        BY <2>2, <3>1, Finite, FS_Subset, SMT
      <3> QED BY <3>2
    <2>5. ASSUME ~failed PROVE tot["cons"] = tot["pub"]
      <3>1. Cardinality(seen) >= seq
        BY <1>1, <2>1, <2>5, Numbers, Finite, SMT DEF Books
      <3>2. seen \subseteq 1..seq /\ IsFiniteSet(1..seq) /\ Cardinality(1..seq) = seq
        BY Numbers, Numbered DEF Shape
      <3>3. seen = 1..seq
        <4>1. /\ Cardinality(seen) <= Cardinality(1..seq)
              /\ Cardinality(seen) = Cardinality(1..seq) => seen = 1..seq
          BY <3>2, FS_Subset
        <4>2. Cardinality(seen) \in Nat /\ seq \in Nat
          BY Numbers, Finite
        <4> QED BY <3>1, <3>2, <4>1, <4>2, SMT
      <3>4. MeasuredSeen = (phaseFrom + 1)..seq
        BY <3>3, Numbers, SMT DEF MeasuredSeen
      <3>5. Cardinality(MeasuredSeen) = seq - phaseFrom
        BY <3>4, Numbers, FS_Interval, SMT
      <3>6. MeasuredRecording = {}
        BY <2>3 DEF Busy, MeasuredRecording
      <3>7. Cardinality(MeasuredRecording) = 0
        BY <3>6, FS_EmptySet
      <3> QED BY <1>1, <2>5, <3>5, <3>7, Numbers, SMT DEF Tallies
    <2> QED BY <1>2, <2>3, <2>4, <2>5
  <1>3. CASE ~cfg.ack
    <2>1. tot["cons"] >= tot["pub"]
      BY <1>3 DEF Drained
    <2> QED BY <1>1, <1>3, <2>1, Numbers, Finite, SMT
  <1> QED BY <1>2, <1>3

\* The publishers of a drained run are done.
LEMMA DrainedDone ==
  ASSUME Phases, Reasons, ending = "drained"
  PROVE  PubDone
  BY DEF Phases, Reasons

LEMMA PubDrops ==
  ASSUME Shape, Phases, Reasons, Drops, NEW p \in Publishers, Publisher(p)
  PROVE  Drops'
  <1>1. ~(Measuring /\ engine \in After)
    BY PubPhases
  <1>2. ending # "drained"
    BY <1>1 DEF Reasons
  <1> QED BY <1>1, <1>2, PubFrame DEF Drops, Measuring, After

LEMMA ConDrops ==
  ASSUME Shape, Minted, Books, Tallies, Phases, Reasons, Drops, NEW c \in Consumers, Consumer(c)
  PROVE  Drops'
  <1>1. /\ engine' = engine /\ ending' = ending /\ drops' = drops /\ sampler' = sampler
        /\ cfg' = cfg /\ (failed => failed')
    BY ConFrame DEF AckErr
  <1>2. /\ tot'["pub"] = tot["pub"] /\ tot'["pub"] \in Nat /\ tot["cons"] \in Nat
        /\ tot'["cons"] \in Nat /\ tot["cons"] <= tot'["cons"]
        /\ tot'["cons"] # tot["cons"] => c \in MeasuredRecording
    <2>1. CASE RecordDeliver(c)
      <3>1. Record(con[c].seq, DeliveryKinds(con[c].dup)) /\ con[c].seq \in Nat /\ con[c].dup \in BOOLEAN
        BY <2>1 DEF RecordDeliver, Shape
      <3>2. /\ c \in MeasuredRecording <=> ~con[c].dup /\ Measured(con[c].seq)
        BY <2>1, ConHands
      <3>3. /\ "pub" \notin DeliveryKinds(con[c].dup)
            /\ "cons" \in DeliveryKinds(con[c].dup) <=> ~con[c].dup
        BY <3>1 DEF DeliveryKinds
      <3>4. /\ tot'["pub"] = tot["pub"]
            /\ \/ tot'["cons"] = tot["cons"]
               \/ tot'["cons"] = tot["cons"] + 1 /\ c \in MeasuredRecording
        BY <3>1, <3>2, <3>3, RecordIs DEF Kinds
      <3> QED BY <3>4, Numbers, SMT
    <2>2. CASE RecordAck(c)
      <3>1. Record(con[c].seq, {"ack"}) /\ con[c].seq \in Nat
        BY <2>2 DEF RecordAck, Shape
      <3>2. tot'["pub"] = tot["pub"] /\ tot'["cons"] = tot["cons"]
        BY <3>1, RecordIs, SMT DEF Kinds
      <3> QED BY <3>2, Numbers, SMT
    <2>3. CASE ~RecordDeliver(c) /\ ~RecordAck(c)
      BY <2>3, ConFrame, Numbers, SMT
    <2> QED BY <2>1, <2>2, <2>3
  <1>3. ending = "drained" /\ ~failed' => drops' = 0 /\ tot'["cons"] = tot'["pub"]
    <2>1. SUFFICES ASSUME ending = "drained", ~failed' PROVE drops' = 0 /\ tot'["cons"] = tot'["pub"]
      OBVIOUS
    <2>2. ~failed /\ PubDone /\ drops = 0 /\ tot["cons"] = tot["pub"]
      BY <1>1, <2>1, DrainedDone DEF Drops
    <2>3. tot["cons"] + Cardinality(MeasuredRecording) <= tot["pub"]
      BY <2>2, PubDoneCounts
    <2>4. Cardinality(MeasuredRecording) = 0
      BY <2>2, <2>3, Numbers, Finite, SMT
    <2>5. MeasuredRecording = {}
      BY <2>4, Finite, FS_EmptySet
    <2> QED BY <1>1, <1>2, <2>2, <2>5
  <1>4. cfg.ack /\ ending = "drained" => wire' \subseteq seen' /\ \A d \in Busy' : con'[d].dup
    <2>1. SUFFICES ASSUME cfg.ack, ending = "drained"
                   PROVE  wire' \subseteq seen' /\ \A d \in Busy' : con'[d].dup
      OBVIOUS
    <2>2. wire \subseteq seen /\ \A d \in Busy : con[d].dup
      BY <2>1 DEF Drops
    <2>3. wire' \subseteq seen'
      <3>1. CASE Receive(c)
        BY <2>2, <3>1, ReceiveDoes
      <3>2. CASE ~Receive(c)
        BY <2>2, <3>2, ConFrame
      <3> QED BY <3>1, <3>2
    <2>4. \A d \in Busy' \ {c} : con'[d].dup
      <3>1. \A d \in Consumers \ {c} : con'[d] = con[d]
        BY ConMoves
      <3> QED BY <2>2, <3>1 DEF Busy
    <2>5. c \in Busy' => con'[c].dup
      <3>1. CASE Receive(c)
        BY <2>2, <3>1, ReceiveDoes
      <3>2. CASE RecordDeliver(c) \/ AckOk(c)
        <4>1. c \in Busy
          BY <3>2 DEF RecordDeliver, AckOk, Busy
        <4> QED BY <2>1, <2>2, <3>2, <4>1, ConMoves
      <3>3. CASE AckErr(c) \/ RecordAck(c) \/ ConsumerReturns(c)
        BY <3>3, ConMoves DEF Busy
      <3> QED BY <3>1, <3>2, <3>3 DEF Consumer
    <2> QED BY <2>3, <2>4, <2>5
  <1>5. Measuring /\ engine \in {"shutdown", "closing", "joining", "done"} /\ ending # "interrupted" =>
          tot'["pub"] <= tot'["cons"] + drops'
    BY <1>1, <1>2, Numbers, SMT DEF Drops
  <1> QED BY <1>1, <1>3, <1>4, <1>5 DEF Drops, Measuring

LEMMA QuietDrops ==
  ASSUME Shape, Minted, Books, Tallies, Phases, Reasons, Drops, Quiet
  PROVE  Drops'
  <1> USE DEF setupVars, linkVars, engineVars, statVars
  <1>1. Return => sampler \in {"off", "on", "dead"}
    BY ReturnSampler
  <1>2. /\ tot' = tot /\ wire' = wire /\ seen' = seen /\ con' = con /\ cfg' = cfg /\ failed' = failed
        /\ Busy' = Busy
    BY <1>1, QuietFrame DEF Busy
  <1>3. CASE Cancel \/ ConnectionLost \/ StopPublishers
    BY <1>2, <1>3 DEF Cancel, ConnectionLost, StopPublishers, Drops, Measuring
  <1>4. CASE Tick
    <2>1. /\ sampler = "on" /\ sampler' # "off" /\ drops' = drops
          /\ engine' = engine /\ ending' = ending
      BY <1>4 DEF Tick, SampleWindow, SampleWindowErr
    <2> QED BY <1>2, <2>1 DEF Drops, Measuring
  <1>5. CASE ConnectSetup \/ DeclareFixture \/ ConnectClient \/ OpenCSV \/ ConsumeFails \/ Aborted
             \/ WarmupAborts
    <2>1. /\ engine \in Before \union {"warmup"} /\ drops' = drops /\ sampler' = sampler
          /\ ending' \in {ending, "interrupted", "rejected"}
      BY <1>5 DEF ConnectSetup, DeclareFixture, ConnectClient, OpenCSV, ConsumeFails, Aborted,
                  WarmupAborts, Before
    <2>2. ~Measuring /\ drops = 0 /\ ending # "drained"
      BY <2>1 DEF Phases, Drops, Reasons, Measuring
    <2> QED BY <1>2, <2>1, <2>2 DEF Drops, Measuring
  <1>6. CASE MeasuredEnds \/ DrainGivesUp
    <2>1. /\ engine \in {"measured", "drain"} /\ drops' = drops /\ sampler' = sampler
          /\ engine' \in {"drain", "tally"} /\ ending' \in {ending, "interrupted", "timeout"}
      BY <1>6 DEF MeasuredEnds, DrainGivesUp
    <2>2. drops = 0
      BY <2>1 DEF Drops
    <2> QED BY <1>2, <2>1, <2>2 DEF Drops, Before
  <1>7. CASE DrainComplete
    <2>1. /\ engine = "drain" /\ Drained /\ engine' = "tally" /\ drops' = drops
      BY <1>7 DEF DrainComplete
    <2>2. PubDone /\ drops = 0
      BY <2>1 DEF Phases, Drops, Measuring, After
    <2>3. /\ ~failed => tot["cons"] = tot["pub"]
          /\ cfg.ack => wire \subseteq seen /\ Busy = {}
      BY <2>1, <2>2, DrainedMeans
    <2> QED BY <1>2, <2>1, <2>2, <2>3 DEF Drops, Before
  <1>8. CASE Tally
    <2>1. /\ engine = "tally" /\ engine' = "shutdown" /\ ending' = ending /\ sampler' = sampler
          /\ drops' = IF ending # "interrupted" /\ tot["pub"] > tot["cons"]
                        THEN tot["pub"] - tot["cons"] ELSE drops
      BY <1>8 DEF Tally
    <2>2. drops = 0 /\ tot["pub"] \in Nat /\ tot["cons"] \in Nat
      BY <2>1, Numbers DEF Drops
    <2>3. ending # "interrupted" => tot["pub"] <= tot["cons"] + drops'
      BY <2>1, <2>2, SMT
    <2>4. ending = "drained" /\ ~failed => drops' = 0 /\ tot["cons"] = tot["pub"]
      BY <2>1, <2>2, SMT DEF Drops
    <2> QED BY <1>2, <2>1, <2>3, <2>4 DEF Drops, Before
  <1>9. CASE Shutdown \/ CloseClients \/ Return
    <2>1. /\ engine \in {"shutdown", "closing", "joining"} /\ ending' = ending
          /\ engine' \in {"closing", "joining", "done"}
      BY <1>9 DEF Shutdown, CloseClients, Return
    <2>2. drops' = drops /\ (sampler' # "off" => sampler # "off")
      BY <1>1, <1>9, ReturnDoes DEF Shutdown, CloseClients
    <2> QED BY <1>2, <2>1, <2>2 DEF Drops, Measuring, Before
  <1> QED BY <1>3, <1>4, <1>5, <1>6, <1>7, <1>8, <1>9 DEF Quiet

LEMMA DropsStep ==
  ASSUME Shape, Minted, Books, Tallies, Phases, Reasons, Drops, Next
  PROVE  Drops'
  <1> USE DEF setupVars, linkVars, engineVars, pubVars, conVars, statVars
  <1>1. CASE Redeliver
    <2>1. wire \subseteq seen => wire' \subseteq seen
      BY <1>1 DEF Redeliver
    <2>2. Busy' = Busy
      BY <1>1 DEF Redeliver, Busy
    <2> QED BY <1>1, <2>1, <2>2 DEF Redeliver, Drops, Measuring
  <1>2. CASE StartConsumer
    <2>1. /\ engine = "consume" /\ engine' = engine /\ sampler' = sampler /\ ending' = ending
          /\ drops' = drops
      BY <1>2 DEF StartConsumer
    <2>2. ending # "drained" /\ drops = 0
      BY <2>1 DEF Reasons, Drops, After, Before
    <2> QED BY <2>1, <2>2 DEF Drops
  <1>3. CASE StartPublishers
    <2>1. /\ engine = "consume" /\ engine' \in {"warmup", "measured"} /\ ending' = ending
          /\ drops' = drops
      BY <1>3 DEF StartPublishers
    <2>2. ending # "drained" /\ drops = 0
      BY <2>1 DEF Reasons, Drops, After, Before
    <2> QED BY <2>1, <2>2 DEF Drops
  <1>4. CASE WarmupEnds
    <2>1. /\ engine = "warmup" /\ drops' = 0 /\ sampler = "off"
          /\ \/ engine' = "shutdown" /\ ending' = "rejected" /\ sampler' = "off"
             \/ engine' = "measured" /\ ending' = ending
      BY <1>4 DEF WarmupEnds, BeginMeasured, Phases
    <2>2. ending # "drained"
      BY <2>1 DEF Reasons, Measuring
    <2> QED BY <2>1, <2>2 DEF Drops, Measuring
  <1>5. CASE Quiet
    BY <1>5, QuietDrops
  <1>6. CASE \E p \in Publishers : Publisher(p)
    BY <1>6, PubDrops
  <1>7. CASE \E c \in Consumers : Consumer(c)
    BY <1>7, ConDrops
  <1> QED BY <1>1, <1>2, <1>3, <1>4, <1>5, <1>6, <1>7, NextIs

-----------------------------------------------------------------------------
(* The theorems.                                                            *)

LEMMA InitInv ==
  ASSUME Init
  PROVE  BenchInv
  <1>1. /\ \A p \in Publishers : pub[p].pc = "off" /\ pub[p].seq = 0 /\ pub[p].sent = 0
        /\ \A c \in Consumers : con[c].pc = "off" /\ con[c].seq = 0
        /\ pub \in [Publishers -> PubRecord] /\ con \in [Consumers -> ConRecord]
    BY DEF Init, Idle, PubRecord, ConRecord, Points, Stages
  <1>2. Shape
    <2>1. /\ all \in [Kinds -> Nat] /\ tot \in [Kinds -> Nat]
          /\ win \in [Kinds -> Nat] /\ rows \in [Kinds -> Nat]
      BY CountersAre DEF Init
    <2>2. /\ 0 \in 0..MaxDup /\ 0 \in 0..Clients /\ 0 \in 0..MaxTick
          /\ 0 \in Nat /\ 0 <= Total /\ 0 <= 0
      BY BenchAssumption, TotalType, SMT
    <2> QED BY <1>1, <2>1, <2>2
            DEF Init, Shape, PubRecord, ConRecord, Engines, Endings, Results
  <1>3. /\ Minting = {} /\ Recording = {} /\ MeasuredMinting = {}
        /\ Busy = {} /\ DupRecording = {} /\ MeasuredRecording = {} /\ MeasuredSeen = {}
        /\ wire = {} /\ seen = {}
    BY <1>1 DEF Init, Minting, Recording, MeasuredMinting, Busy, DupRecording, MeasuredRecording,
                MeasuredSeen
  <1>4. \A p \in Publishers : Started(p) = 0
    BY <1>1, SMT DEF Started
  <1>5. Unsent = Publishers \X (1..Msgs) /\ Left = Publishers \X (1..Msgs)
    BY <1>1, <1>4, SMT DEF Unsent, Left
  <1>6. Cardinality(Unsent) = Total /\ Cardinality(Left) = Total
    <2>1. IsFiniteSet(1..Msgs) /\ Cardinality(1..Msgs) = Msgs
      BY BenchAssumption, FS_Interval, SMT
    <2> QED BY <1>5, <2>1, BenchAssumption, FS_Product DEF Total
  <1>7. \A p \in Publishers : Holding(p)
    BY <1>1, BenchAssumption, SMT DEF Init, Holding
  <1>8. Minted
    BY <1>1, <1>6, <1>7, TotalType, SMT DEF Init, Minted
  <1>9. /\ all = Zero /\ tot = Zero /\ win = Zero /\ rows = Zero /\ Cardinality({}) = 0
        /\ Zero["pub"] = 0 /\ Zero["cons"] = 0 /\ Zero["dup"] = 0 /\ Zero["del"] = 0
        /\ Zero["ack"] = 0 /\ seq = 0 /\ phaseFrom = 0 /\ dups = 0
    BY CountersAre, FS_EmptySet DEF Init, Kinds
  <1>10. Books
    <2>1. wire \union seen = {} /\ wire \intersect seen = {}
      BY <1>3
    <2> QED BY <1>3, <1>9, <2>1, SMT DEF Books
  <1>11. Tallies
    BY <1>3, <1>9, SMT DEF Tallies
  <1>12. Windows
    BY <1>9, CountersAre, SMT DEF Init, Windows
  <1>13. Phases
    BY <1>1, BenchAssumption DEF Init, Phases, Measuring, NothingLeaks, After
  <1>14. Reasons
    BY <1>1 DEF Init, Reasons, Measuring
  <1>15. Drops
    BY DEF Init, Drops
  <1> QED BY <1>2, <1>8, <1>10, <1>11, <1>12, <1>13, <1>14, <1>15 DEF BenchInv

LEMMA InvStutters ==
  ASSUME BenchInv, UNCHANGED vars
  PROVE  BenchInv'
  <1>1. /\ pub' = pub /\ con' = con /\ seq' = seq /\ seen' = seen /\ wire' = wire /\ dups' = dups
        /\ failed' = failed /\ phaseFrom' = phaseFrom /\ all' = all /\ tot' = tot /\ cfg' = cfg
    BY DEF vars, linkVars, pubVars, conVars, statVars
  <1>2. /\ ctx' = ctx /\ held' = held /\ clients' = clients /\ open' = open /\ engine' = engine
        /\ stop' = stop /\ ending' = ending /\ result' = result /\ win' = win /\ rows' = rows
        /\ drops' = drops /\ sampler' = sampler /\ ticks' = ticks
    BY DEF vars, setupVars, linkVars, engineVars, statVars
  <1>3. Minted' /\ Books' /\ Tallies'
    BY <1>1, CoreStays DEF BenchInv
  <1>4. Shape'
    BY <1>1, <1>2 DEF BenchInv, Shape
  <1>5. Windows'
    BY <1>1, <1>2 DEF BenchInv, Windows
  <1>6. Phases'
    BY <1>1, <1>2 DEF BenchInv, Phases, Measuring, NothingLeaks, PubDone
  <1>7. Reasons'
    BY <1>1, <1>2 DEF BenchInv, Reasons, Measuring
  <1>8. Drops'
    BY <1>1, <1>2 DEF BenchInv, Drops, Measuring, Busy
  <1> QED BY <1>3, <1>4, <1>5, <1>6, <1>7, <1>8 DEF BenchInv

\* The inductive invariant.  None of the properties is inductive: what the
\* summary says at the end rests on the counters of the whole run being in step
\* with the messages all the time, on the publishers being done from the end of
\* the measured phase on, and on why each phase was left.
THEOREM BenchInvariant == Spec => []BenchInv
  <1>1. Init => BenchInv
    BY InitInv
  <1>2. ASSUME BenchInv, [Next]_vars PROVE BenchInv'
    <2>1. CASE Next
      <3>1. Shape /\ Minted /\ Books /\ Tallies /\ Windows /\ Phases /\ Reasons /\ Drops
        BY <1>2 DEF BenchInv
      <3>2. Minted' /\ Books' /\ Tallies'
        BY <2>1, <3>1, CoreStep
      <3>3. Shape'
        BY <2>1, <3>1, ShapeStep
      <3>4. Windows' /\ Phases'
        BY <2>1, <3>1, WindowsStep, PhasesStep
      <3>5. Reasons' /\ Drops'
        BY <2>1, <3>1, ReasonsStep, DropsStep
      <3> QED BY <3>2, <3>3, <3>4, <3>5 DEF BenchInv
    <2>2. CASE UNCHANGED vars
      BY <1>2, <2>2, InvStutters
    <2> QED BY <1>2, <2>1, <2>2
  <1> QED BY <1>1, <1>2, PTL DEF Spec

\* The types, with the bounds of every counter: no more sequence numbers are
\* minted than there are messages to send, and no counter passes the messages
\* and redeliveries there were (metrics.go, worker.go).
THEOREM BenchTypeCorrect == Spec => []TypeOK
  <1>1. ASSUME BenchInv PROVE TypeOK
    <2>1. Shape /\ Minted /\ Books /\ Tallies /\ Windows
      BY <1>1 DEF BenchInv
    <2>2. /\ seq <= Total /\ Total \in Nat /\ MaxDup \in Nat /\ Msgs \in Nat
          /\ \A k \in Kinds : all[k] <= Total + MaxDup /\ tot[k] <= Total + MaxDup
      BY <2>1, Bounds, TotalType, BenchAssumption
    <2>3. \A k \in Kinds : /\ all[k] \in 0..(Total + MaxDup) /\ tot[k] \in 0..(Total + MaxDup)
                           /\ win[k] \in 0..(Total + MaxDup) /\ rows[k] \in 0..(Total + MaxDup)
      BY <2>1, <2>2, Counters, SMT DEF Windows
    <2>4. \A f \in {all, tot, win, rows} : f \in [Kinds -> 0..(Total + MaxDup)]
      BY <2>1, <2>3 DEF Shape
    <2>5. /\ seq \in 0..Total /\ phaseFrom \in 0..Total /\ drops \in 0..Total
      BY <2>1, <2>2, Numbers, SMT DEF Shape
    <2>6. \A p \in Publishers : pub[p].seq \in 0..Total /\ pub[p].sent \in 0..Msgs
      <3>1. \A p \in Publishers : pub[p].seq \in Nat /\ pub[p].sent \in Nat
        BY <2>1 DEF Shape
      <3>2. \A p \in Publishers : pub[p].seq <= seq /\ pub[p].sent <= Msgs
        BY <2>1 DEF Minted, Holding
      <3> QED BY <2>1, <2>2, <3>1, <3>2, Numbers, SMT
    <2>7. \A c \in Consumers : con[c].seq \in 0..Total
      BY <2>1, <2>2, Numbers, SMT DEF Shape, Minted
    <2>8. pub \in [Publishers -> [pc : Points, seq : 0..Total, sent : 0..Msgs]]
      BY <2>1, <2>6 DEF Shape
    <2>9. con \in [Consumers -> [pc : Stages, seq : 0..Total, dup : BOOLEAN]]
      BY <2>1, <2>7 DEF Shape
    <2> QED BY <2>1, <2>4, <2>5, <2>8, <2>9 DEF Shape, TypeOK, Points, Stages, Engines, Endings, Results
  <1> QED BY <1>1, BenchInvariant, PTL

\* beginMeasured's cutoff splits the traffic exactly: what is minted after it is
\* counted as published once, and what of it is received is counted as consumed
\* once, whatever the workers were doing at the cutoff.
THEOREM MeasuredExactCorrect == Spec => []MeasuredExact
  <1>1. BenchInv => MeasuredExact
    BY DEF BenchInv, Tallies, MeasuredExact, MeasuredMinting, MeasuredRecording, MeasuredSeen
  <1> QED BY <1>1, BenchInvariant, PTL

\* The rows of the CSV file and the open window add up to the totals, although
\* sampleWindow swaps the counters while the workers record.
THEOREM WindowsConserveCorrect == Spec => []WindowsConserve
  <1>1. ASSUME BenchInv PROVE WindowsConserve
    <2>1. tot \in [Kinds -> Nat]
      BY <1>1 DEF BenchInv, Shape
    <2>2. sampler # "dead" => \A k \in Kinds : rows[k] + win[k] = tot[k]
      BY <1>1 DEF BenchInv, Windows
    <2> QED BY <2>1, <2>2 DEF WindowsConserve, Plus
  <1> QED BY <1>1, BenchInvariant, PTL

\* With -ack, no first delivery is unacknowledged once drained has let the engine
\* go on, so that closing the clients fails no ack.
THEOREM DrainedIsQuietCorrect == Spec => []DrainedIsQuiet
  <1>1. BenchInv => DrainedIsQuiet
    BY DEF BenchInv, Drops, DrainedIsQuiet, Busy
  <1> QED BY <1>1, BenchInvariant, PTL

\* Whatever Run returns with, nothing it started is still there.
THEOREM NothingLeaksCorrect == Spec => []NothingLeaks
  <1>1. BenchInv => NothingLeaks
    BY DEF BenchInv, Phases
  <1> QED BY <1>1, BenchInvariant, PTL

\* A summary without an error is right: the rows are its totals, no more was
\* consumed than published, the loss is not underreported, a drained run lost
\* nothing, and a run that was not cut short measured everything after the warmup.
THEOREM SuccessAccountedCorrect == Spec => []SuccessAccounted
  <1>1. ASSUME BenchInv, result = "ok"
        PROVE  /\ rows = tot
               /\ tot["del"] = tot["cons"] + tot["dup"]
               /\ tot["cons"] <= tot["pub"]
               /\ tot["pub"] <= tot["cons"] + drops
               /\ ending = "drained" => drops = 0 /\ tot["cons"] = tot["pub"]
               /\ ~cfg.duration => tot["pub"] = Total - phaseFrom /\ tot["pub"] > 0
    <2>1. Shape /\ Minted /\ Books /\ Tallies /\ Phases /\ Reasons /\ Drops
      BY <1>1 DEF BenchInv
    <2>2. engine = "done" /\ sampler = "done" /\ ~ctx /\ ~failed /\ rows = tot
      BY <1>1, <2>1 DEF Reasons
    <2>3. Measuring /\ engine \in After
      BY <2>2 DEF Measuring, After
    <2>4. PubDone /\ phaseFrom < Total
      BY <2>1, <2>3 DEF Phases
    <2>5. ending # "interrupted"
      BY <2>1, <2>2 DEF Reasons
    <2>6. tot["pub"] <= tot["cons"] + drops /\ (ending = "drained" => drops = 0 /\ tot["cons"] = tot["pub"])
      BY <2>1, <2>2, <2>3, <2>5 DEF Drops
    <2>7. /\ tot["pub"] = seq - phaseFrom
          /\ tot["cons"] + Cardinality(MeasuredRecording) <= tot["pub"]
      BY <2>1, <2>2, <2>4, PubDoneCounts
    <2>8. tot["cons"] <= tot["pub"]
      BY <2>1, <2>7, Numbers, Finite, SMT
    <2>9. tot["del"] = tot["cons"] + tot["dup"]
      BY <2>1 DEF Tallies
    <2>10. ASSUME ~cfg.duration PROVE tot["pub"] = Total - phaseFrom /\ tot["pub"] > 0
      <3>1. \A p \in Publishers : pub[p].sent = Msgs /\ pub[p].pc = "done"
        BY <2>1, <2>2, <2>3, <2>4, <2>10 DEF Reasons, PubDone
      <3>2. Msgs \in Nat
        BY BenchAssumption
      <3>3. \A p \in Publishers : Started(p) = Msgs
        BY <3>1, <3>2, SMT DEF Started
      <3>4. Unsent = {}
        BY <3>2, <3>3, SMT DEF Unsent
      <3>5. seq = Total
        BY <2>1, <2>2, <3>4, FS_EmptySet, Numbers, TotalType, SMT DEF Minted
      <3> QED BY <2>1, <2>4, <2>7, <3>5, Numbers, SMT
    <2> QED BY <2>2, <2>6, <2>8, <2>9, <2>10
  <1>2. BenchInv => SuccessAccounted
    BY <1>1 DEF SuccessAccounted
  <1> QED BY <1>2, BenchInvariant, PTL
=============================================================================
