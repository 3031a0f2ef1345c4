----------------------------- MODULE MCRouting -----------------------------
(* Instances of Routing for TLC. *)
EXTENDS Routing, TLC

\* A queue without dead letters, one whose dead letters keep their routing
\* key and one that gives them another.
ThreeKinds ==
  {[exchange |-> None, key |-> None]}
  \cup {[exchange |-> "x", key |-> k] : k \in {None, "dead"}}

Symmetry == Permutations(Sessions) \cup Permutations(Queues)

=============================================================================
