------------------------------ MODULE MCBench ------------------------------
(* One instance of Bench for all the option combinations. *)
EXTENDS Bench

(* Every option both ways, with no consumer, one and two.                  *)
MixedOptions ==
  LET one == CHOOSE c \in Consumers : TRUE IN
  {[warmup |-> TRUE, duration |-> FALSE, ack |-> TRUE, consumers |-> {one}],
   [warmup |-> TRUE, duration |-> TRUE, ack |-> FALSE, consumers |-> {one}],
   [warmup |-> FALSE, duration |-> TRUE, ack |-> TRUE, consumers |-> {one}],
   [warmup |-> FALSE, duration |-> FALSE, ack |-> FALSE, consumers |-> Consumers],
   [warmup |-> FALSE, duration |-> FALSE, ack |-> TRUE, consumers |-> {}]}
=============================================================================
