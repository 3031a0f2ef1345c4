----------------------------- MODULE MCTopology -----------------------------
(* Small configurations: up to three connections and four channels, each     *)
(* role present or absent, caps absent or tight, both distributions on     *)
(* every axis.                                                             *)
EXTENDS Topology

SmallConfigs ==
  [conns : 1..3, pubConns : 0..1, consConns : 0..1, channels : 1..4,
   pubChannels : 0..2, consChannels : 0..1, publishers : {0, 3}, consumers : {1, 3},
   connsDist : Dists, channelsDist : Dists, pubChannelsDist : Dists,
   maxChannelsPerConn : {0, 2}, maxConsumersPerChannel : {0, 2},
   maxPublishersPerChannel : {0, 1}]

\* Lines of up to four flags: the three axes, one of them with two values,
\* a cap, both distributions and a misspelt one.
FewFlags ==
  [name : {"distribution"}, value : {"even", "Uneven", "unevn"}]
    \union [name : Axes, value : {2}] \union [name : {"conns"}, value : {3}]
    \union [name : {"maxChannelsPerConn"}, value : {1}]

SmallLines == UNION {[1..n -> FewFlags] : n \in 1..4}
=============================================================================
