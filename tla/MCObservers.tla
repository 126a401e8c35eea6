---------------------------- MODULE MCObservers ----------------------------
(* An instance of Observers for TLC. *)
EXTENDS Observers

=============================================================================
