----------------------------- MODULE Delivery ------------------------------
(***************************************************************************)
(* What a queue promises while its connections hold: every message has     *)
(* one owner.  It waits in the broker, or one consumer has it, at most     *)
(* Prefetch at a time, until that consumer settles it or it comes back.    *)
(***************************************************************************)
EXTENDS Integers, FiniteSets

CONSTANTS
  Msgs,
  Consumers,
  Prefetch

VARIABLE owner  \* "nobody" before it is accepted, "broker", a consumer, "settled"

Owned(c) == {m \in Msgs : owner[m] = c}

Init == owner = [m \in Msgs |-> "nobody"]

\* The broker takes responsibility for m.
Accept(m) ==
  /\ owner[m] = "nobody"
  /\ owner' = [owner EXCEPT ![m] = "broker"]

Give(m, c) ==
  /\ owner[m] = "broker"
  /\ Cardinality(Owned(c)) < Prefetch
  /\ owner' = [owner EXCEPT ![m] = c]

\* c refuses m for now.
Return(m, c) ==
  /\ owner[m] = c
  /\ owner' = [owner EXCEPT ![m] = "broker"]

\* c leaves: everything it has comes back at once.
Leave(c) ==
  owner' = [m \in Msgs |-> IF owner[m] = c THEN "broker" ELSE owner[m]]

\* c acks m, or refuses it for good.
Settle(m, c) ==
  /\ owner[m] = c
  /\ owner' = [owner EXCEPT ![m] = "settled"]

Next ==
  \/ \E m \in Msgs : Accept(m)
  \/ \E m \in Msgs, c \in Consumers : Give(m, c) \/ Return(m, c) \/ Settle(m, c)
  \/ \E c \in Consumers : Leave(c)

Spec == Init /\ [][Next]_owner

=============================================================================
