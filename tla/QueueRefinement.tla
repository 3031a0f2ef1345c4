--------------------------- MODULE QueueRefinement ---------------------------
(***************************************************************************)
(* How a queue implements Delivery: who owns a message, read off the       *)
(* queue, the consumers' books and the history of settled messages.        *)
(***************************************************************************)
EXTENDS Queue

\* An owner that is not a consumer is told apart from all of them.
ASSUME OwnersAssumption == {"nobody", "broker", "settled"} \cap Consumers = {}

\* Who has m, for the abstract specification of a queue.
Holders(m) == {c \in Consumers : pendingMessages[c][tagOf[m]] = m}

Owner(m) ==
  IF m \in settled THEN "settled"
  ELSE IF Holders(m) # {} THEN CHOOSE c \in Holders(m) : TRUE
  ELSE IF stage[m] \in {"queued", "sent"} THEN "broker" ELSE "nobody"

D == INSTANCE Delivery WITH owner <- [m \in Msgs |-> Owner(m)]

\* While no connection breaks, acks, nacks, repeated answers and channel closes,
\* in any order against dispatchLoop, leave every message with one owner.
ImplementsDelivery == D!Spec
=============================================================================
