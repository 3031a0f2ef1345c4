------------------------------ MODULE MCQueue ------------------------------
(* Instances of Queue for TLC. *)
EXTENDS QueueRefinement, TLC

\* Messages are told apart by identity only.
MessageSymmetry == Permutations(Msgs)

\* When every consumer is fragile, or none is, consumers are alike too.
Symmetry == Permutations(Msgs) \cup Permutations(Consumers)

=============================================================================
