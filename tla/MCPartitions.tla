---------------------------- MODULE MCPartitions ----------------------------
(* Instances of Partitions for TLC. *)
EXTENDS Partitions, TLC

Symmetry == Permutations(Tickets) \cup Permutations(Partitions)

=============================================================================
