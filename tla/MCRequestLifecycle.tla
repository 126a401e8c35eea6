------------------------- MODULE MCRequestLifecycle -------------------------
(***************************************************************************)
(* One ticket with a deadline and one without.                             *)
(***************************************************************************)
EXTENDS RequestLifecycle

CONSTANTS bounded, unbounded

=============================================================================
