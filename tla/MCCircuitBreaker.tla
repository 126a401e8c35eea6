-------------------------- MODULE MCCircuitBreaker --------------------------
(***************************************************************************)
(* Instances of CircuitBreaker for TLC.  One generation more than callers  *)
(* plus the present one is always enough for a fresh generation to exist.  *)
(***************************************************************************)
EXTENDS CircuitBreaker

MCGenerations == 1..(Cardinality(Callers) + 2)

=============================================================================
