------------------------------ MODULE Topology ------------------------------
(***************************************************************************)
(* From the command line of the load generator to its plan:                *)
(* cmd/benchmark/main.go, internal/bench/config.go and topology.go.        *)
(*                                                                         *)
(* Flags are read in order; -distribution applies to the axis flag read    *)
(* last.  Then channels are placed on connections, channels get roles,     *)
(* publisher and consumer goroutines are placed on the channels whose role *)
(* allows them.  Build is a pure function of the configuration, and one    *)
(* step here.                                                              *)
(*                                                                         *)
(* A channel is its global index.  The code's slices in global-index order *)
(* are sets with the order of the integers: position i of such a slice is  *)
(* the element with i smaller ones.                                        *)
(***************************************************************************)
EXTENDS Integers, FiniteSets, FiniteSetsExt, Sequences

CONSTANTS Configs,       \* configurations to plan as they are
          CommandLines   \* command lines to read first

Dists == {"even", "uneven"}

\* The flags that take an integer, and the Config.
IntFlags == {"conns", "pubConns", "consConns", "channels", "pubChannels", "consChannels",
             "publishers", "consumers", "maxChannelsPerConn", "maxConsumersPerChannel",
             "maxPublishersPerChannel"}
Config == [conns : Int, pubConns : Int, consConns : Int, channels : Int,
           pubChannels : Int, consChannels : Int, publishers : Int, consumers : Int,
           connsDist : Dists, channelsDist : Dists, pubChannelsDist : Dists,
           maxChannelsPerConn : Int, maxConsumersPerChannel : Int,
           maxPublishersPerChannel : Int]
Flags == [name : IntFlags, value : Int] \union [name : {"distribution"}, value : STRING]

ASSUME ConfigsAssumption == Configs \subseteq Config
ASSUME CommandLinesAssumption == CommandLines \subseteq Seq(Flags)

\* A usage error, or what Build returns with an error.
Rejected == [error |-> TRUE]

VARIABLES config,  \* the Config
          line,    \* the command line
          at,      \* how many of its flags are read
          last,    \* AxisCursor.last
          plan     \* <<>> until there is one

vars == <<config, line, at, last, plan>>

-----------------------------------------------------------------------------
(* The flags.                                                              *)

DefaultConfig ==
  [conns |-> 1, pubConns |-> 0, consConns |-> 0, channels |-> 1,
   pubChannels |-> 0, consChannels |-> 0, publishers |-> 1, consumers |-> 1,
   connsDist |-> "even", channelsDist |-> "even", pubChannelsDist |-> "even",
   maxChannelsPerConn |-> 0, maxConsumersPerChannel |-> 0, maxPublishersPerChannel |-> 0]

\* The distribution that belongs to each axis flag.
DistOf == [conns |-> "connsDist", channels |-> "channelsDist", pubChannels |-> "pubChannelsDist"]

Axes == DOMAIN DistOf

\* The values -distribution takes, in any case of letters.
Spellings == [even |-> "even", uneven |-> "uneven", Uneven |-> "uneven"]

Flag == line[at + 1]

\* An integer flag; an axis flag also moves the cursor.
SetInt ==
  /\ at < Len(line) /\ Flag.name # "distribution"
  /\ config' = [config EXCEPT ![Flag.name] = Flag.value]
  /\ last' = IF Flag.name \in Axes THEN Flag.name ELSE last
  /\ at' = at + 1
  /\ UNCHANGED <<line, plan>>

\* Mutant: a -distribution uses its axis up.
SetDistributionOnce ==
  /\ at < Len(line) /\ Flag.name = "distribution"
  /\ Flag.value \in DOMAIN Spellings /\ last \in Axes
  /\ config' = [config EXCEPT ![DistOf[last]] = Spellings[Flag.value]]
  /\ last' = "" /\ at' = at + 1
  /\ UNCHANGED <<line, plan>>

SetDistribution ==
  /\ at < Len(line) /\ Flag.name = "distribution"
  /\ Flag.value \in DOMAIN Spellings /\ last \in Axes
  /\ config' = [config EXCEPT ![DistOf[last]] = Spellings[Flag.value]]
  /\ at' = at + 1
  /\ UNCHANGED <<line, last, plan>>

\* Parse returns the first error and main gives up.
UsageError ==
  /\ at < Len(line) /\ Flag.name = "distribution" /\ plan = <<>>
  /\ Flag.value \notin DOMAIN Spellings \/ last \notin Axes
  /\ plan' = Rejected
  /\ UNCHANGED <<config, line, at, last>>

-----------------------------------------------------------------------------
(* Placement of channels on connections, and roles.                        *)

Channels(c) == 0..(c.channels - 1)

\* Position of g in the slice that holds S in global-index order.
Position(S, g) == Cardinality({h \in S : h < g})

\* Mutant: the cap is exceeded by one.
ConnOfOverCap(c, g) ==
  CASE c.connsDist = "even" -> g % c.conns
    [] c.connsDist = "uneven" /\ c.maxChannelsPerConn <= 0 -> 0
    [] OTHER -> g \div (c.maxChannelsPerConn + 1)

ConnOf(c, g) ==
  CASE c.connsDist = "even" -> g % c.conns
    [] c.connsDist = "uneven" /\ c.maxChannelsPerConn <= 0 -> 0
    [] OTHER -> g \div c.maxChannelsPerConn

ConnRole(c, n) ==
  CASE n < c.pubConns -> "pub"
    [] c.pubConns <= n /\ n < c.pubConns + c.consConns -> "cons"
    [] OTHER -> "mixed"

Mixed(c) == {g \in Channels(c) : ConnRole(c, ConnOf(c, g)) = "mixed"}

\* Mutant: the first channels are carved, on whatever connection they are.
RoleCarvedAnywhere(c, g) ==
  CASE g < c.pubChannels -> "publish"
    [] c.pubChannels <= g /\ g < c.pubChannels + c.consChannels -> "consume"
    [] OTHER -> "both"

\* A dedicated connection decides the role of its channels; on the mixed ones
\* the first -pub-channels publish, the next -cons-channels consume.
Role(c, g) ==
  LET role == ConnRole(c, ConnOf(c, g))
      i == Position(Mixed(c), g)
  IN CASE role = "pub" -> "publish"
       [] role = "cons" -> "consume"
       [] role = "mixed" /\ i < c.pubChannels -> "publish"
       [] role = "mixed" /\ c.pubChannels <= i /\ i < c.pubChannels + c.consChannels -> "consume"
       [] OTHER -> "both"

PublishCapable(c) == {g \in Channels(c) : Role(c, g) \in {"publish", "both"}}

ConsumeCapable(c) == {g \in Channels(c) : Role(c, g) \in {"consume", "both"}}

-----------------------------------------------------------------------------
(* placeWorkers                                                            *)

\* The position of the slot goroutine j is assigned to, among n slots.
Slot(j, n, mode, capN) ==
  CASE mode = "even" -> j % n
    [] mode = "uneven" /\ capN <= 0 -> 0
    [] OTHER -> (j \div capN) % n

\* Mutant: an exact fit is refused.
WorkersFitLoosely(count, slots, mode, capN) ==
  \/ count = 0
  \/ /\ slots # {}
     /\ mode = "uneven" /\ capN > 0 => count < Cardinality(slots) * capN

WorkersFit(count, slots, mode, capN) ==
  \/ count = 0
  \/ /\ slots # {}
     /\ mode = "uneven" /\ capN > 0 => count <= Cardinality(slots) * capN

\* The goroutines assigned to each channel.
PlaceWorkers(c, count, slots, mode, capN) ==
  [g \in Channels(c) |->
     {j \in 0..(count - 1) :
        g \in slots /\ Position(slots, g) = Slot(j, Cardinality(slots), mode, capN)}]

-----------------------------------------------------------------------------
(* Config.Validate and Build                                               *)

ValidScalars(c) ==
  /\ c.conns >= 1 /\ c.channels >= 1
  /\ \A n \in {c.pubConns, c.consConns, c.pubChannels, c.consChannels,
               c.publishers, c.consumers} : n >= 0
  /\ c.pubConns + c.consConns <= c.conns

ChannelsFit(c) ==
  c.connsDist = "uneven" /\ c.maxChannelsPerConn > 0 =>
    c.channels <= c.conns * c.maxChannelsPerConn

\* Mutant: only the publish channels are checked.
CarvingFitsPublishers(c) == c.pubChannels <= Cardinality(Mixed(c))

CarvingFits(c) == c.pubChannels + c.consChannels <= Cardinality(Mixed(c))

Build(c) ==
  IF /\ ValidScalars(c) /\ ChannelsFit(c) /\ CarvingFits(c)
     /\ WorkersFit(c.consumers, ConsumeCapable(c), c.channelsDist, c.maxConsumersPerChannel)
     /\ WorkersFit(c.publishers, PublishCapable(c), c.pubChannelsDist, c.maxPublishersPerChannel)
    THEN [conn |-> [g \in Channels(c) |-> ConnOf(c, g)],
          role |-> [g \in Channels(c) |-> Role(c, g)],
          cons |-> PlaceWorkers(c, c.consumers, ConsumeCapable(c),
                                c.channelsDist, c.maxConsumersPerChannel),
          pubs |-> PlaceWorkers(c, c.publishers, PublishCapable(c),
                                c.pubChannelsDist, c.maxPublishersPerChannel)]
    ELSE Rejected

\* Mutant: the caps of the two kinds of worker are confused.
IgnoredCapsSwapped(c) ==
  {x \in {"maxChannelsPerConn", "maxConsumersPerChannel", "maxPublishersPerChannel"} :
     /\ c[x] > 0
     /\ CASE x = "maxChannelsPerConn" -> c.connsDist # "uneven"
          [] x = "maxConsumersPerChannel" -> c.pubChannelsDist # "uneven"
          [] x = "maxPublishersPerChannel" -> c.channelsDist # "uneven"}

\* The caps that Warnings calls ignored.
IgnoredCaps(c) ==
  {x \in {"maxChannelsPerConn", "maxConsumersPerChannel", "maxPublishersPerChannel"} :
     /\ c[x] > 0
     /\ CASE x = "maxChannelsPerConn" -> c.connsDist # "uneven"
          [] x = "maxConsumersPerChannel" -> c.channelsDist # "uneven"
          [] x = "maxPublishersPerChannel" -> c.pubChannelsDist # "uneven"}

Init ==
  /\ \/ config \in Configs /\ line = <<>>
     \/ config = DefaultConfig /\ line \in CommandLines
  /\ at = 0 /\ last = "" /\ plan = <<>>

Resolve ==
  /\ plan = <<>> /\ at = Len(line)
  /\ plan' = Build(config)
  /\ UNCHANGED <<config, line, at, last>>

Next == SetInt \/ SetDistribution \/ UsageError \/ Resolve

Spec == Init /\ [][Next]_vars

-----------------------------------------------------------------------------
(* Properties                                                              *)

Planned == plan # <<>> /\ plan # Rejected

Capable(roles) == {g \in DOMAIN plan.role : plan.role[g] \in roles}

\* Every one of count workers is on exactly one channel, and that channel's
\* role is one of roles.
PlacedOnce(workers, count, roles) ==
  /\ \A j \in 0..(count - 1) : Cardinality({g \in DOMAIN workers : j \in workers[g]}) = 1
  /\ \A g \in DOMAIN workers \ Capable(roles) : workers[g] = {}
  /\ \A g \in DOMAIN workers : workers[g] \subseteq 0..(count - 1)

\* What a distribution promises of the loads of the slots: even ones differ by
\* at most one, packed ones stay under the cap and fill the slots in order.
Shaped(load, slots, mode, capN) ==
  CASE mode = "even" ->
         \A g, h \in slots : g < h => load[h] <= load[g] /\ load[g] <= load[h] + 1
    [] mode = "uneven" /\ capN > 0 ->
         \A g, h \in slots : load[g] <= capN /\ (g < h /\ load[h] > 0 => load[g] = capN)
    [] OTHER ->
         \A g, h \in slots : g < h => load[h] = 0

\* The axis flag nearest before position i of the line, 0 when there is none.
AxisBefore(i) == Max({0} \union {j \in 1..(i - 1) : line[j].name \in Axes})

Distributions == {i \in DOMAIN line : line[i].name = "distribution"}

(* A command line means what it says whatever its order: each axis has the *)
(* last -distribution that follows a flag of that axis with no other axis  *)
(* in between, integer flags have their last value, and the line is        *)
(* refused exactly when some -distribution has a bad value or no axis      *)
(* before it (AxisCursor, intAxisFlag.Set, distributionFlag.Set).          *)
FlagsBind ==
  plan # <<>> /\ line # <<>> =>
    LET bad == \E i \in Distributions : AxisBefore(i) = 0 \/ line[i].value \notin DOMAIN Spellings
        bound(a) == {i \in Distributions : AxisBefore(i) # 0 /\ line[AxisBefore(i)].name = a}
        given(f) == {i \in DOMAIN line : line[i].name = f}
    IN /\ bad <=> at < Len(line)
       /\ ~bad =>
            /\ \A a \in Axes : config[DistOf[a]] =
                 IF bound(a) = {} THEN "even" ELSE Spellings[line[Max(bound(a))].value]
            /\ \A f \in DOMAIN config : given(f) # {} => config[f] = line[Max(given(f))].value

(* A cap that Warnings calls ignored really is: planning without it gives  *)
(* the same plan, or the same refusal.                                     *)
IgnoredCapsIgnored ==
  plan # <<>> /\ at = Len(line) =>
    \A x \in IgnoredCaps(config) : plan = Build([config EXCEPT ![x] = 0])

(* Every goroutine of an accepted plan runs on exactly one channel whose   *)
(* role lets it, and no consumer lands on a publish-only connection nor a  *)
(* publisher on a consume-only one (buildTopology, steps 3 and 4).         *)
PlacementSound ==
  Planned =>
    /\ PlacedOnce(plan.cons, config.consumers, {"consume", "both"})
    /\ PlacedOnce(plan.pubs, config.publishers, {"publish", "both"})
    /\ \A g \in DOMAIN plan.conn :
         /\ plan.cons[g] # {} => plan.conn[g] >= config.pubConns
         /\ plan.pubs[g] # {} => plan.conn[g] \notin
              config.pubConns..(config.pubConns + config.consConns - 1)

(* Connections and channels carry the load their distribution promises:    *)
(* round-robin is balanced, packing fills to the cap and no further.  The  *)
(* connections that exist are enough for every channel.                    *)
LoadsShaped ==
  Planned =>
    LET conns == 0..(config.conns - 1)
        onConn == [n \in conns |-> Cardinality({g \in DOMAIN plan.conn : plan.conn[g] = n})]
        load(workers) == [g \in DOMAIN workers |-> Cardinality(workers[g])]
    IN /\ \A g \in DOMAIN plan.conn : plan.conn[g] \in conns
       /\ Shaped(onConn, conns, config.connsDist, config.maxChannelsPerConn)
       /\ Shaped(load(plan.cons), Capable({"consume", "both"}),
                 config.channelsDist, config.maxConsumersPerChannel)
       /\ Shaped(load(plan.pubs), Capable({"publish", "both"}),
                 config.pubChannelsDist, config.maxPublishersPerChannel)

(* The carving keeps its numbers: the mixed connections carry exactly the  *)
(* dedicated channels asked for, the lowest global indices first, so that  *)
(* the capability lists do not depend on the order of the connections.     *)
CarvingExact ==
  Planned =>
    LET mixed == {g \in DOMAIN plan.conn :
                    plan.conn[g] >= config.pubConns + config.consConns}
        with(role) == {g \in mixed : plan.role[g] = role}
    IN /\ Cardinality(with("publish")) = config.pubChannels
       /\ Cardinality(with("consume")) = config.consChannels
       /\ \A g, h \in mixed : g < h =>
            \/ plan.role[g] = plan.role[h]
            \/ plan.role[g] = "publish"
            \/ plan.role[h] = "both"

\* Some assignment of workers to slots respects the cap.
Placeable(count, slots, mode, capN) ==
  \E f \in [0..(count - 1) -> slots] :
    mode = "uneven" /\ capN > 0 =>
      \A g \in slots : Cardinality({j \in 0..(count - 1) : f[j] = g}) <= capN

(* Build refuses no configuration whose workers could be placed: with the  *)
(* flags in range and the channels and roles carved, an error means that   *)
(* no assignment at all respects the caps.                                 *)
RejectsOnlyInfeasible ==
  /\ plan = Rejected /\ at = Len(line)
  /\ ValidScalars(config) /\ ChannelsFit(config) /\ CarvingFits(config)
  => \/ ~Placeable(config.consumers, ConsumeCapable(config),
                   config.channelsDist, config.maxConsumersPerChannel)
     \/ ~Placeable(config.publishers, PublishCapable(config),
                   config.pubChannelsDist, config.maxPublishersPerChannel)
=============================================================================
