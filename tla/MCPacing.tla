------------------------------ MODULE MCPacing ------------------------------
(* Instances of Pacing for TLC. *)
EXTENDS Pacing

CONSTANTS a1, a2, a3

=============================================================================
