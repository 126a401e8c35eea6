----------------------------- MODULE MCBulkhead -----------------------------
(***************************************************************************)
(* Two partitions over one semaphore; one attempt is a first attempt that  *)
(* needs no slot.                                                          *)
(***************************************************************************)
EXTENDS Bulkhead

CONSTANTS p, q, a1, a2, a3, b1, b2, f

MCAttempts == {a1, a2, a3, b1, b2, f}
MCPartitionOf == [a \in MCAttempts |-> IF a \in {b1, b2} THEN q ELSE p]
MCLimited == MCAttempts \ {f}

=============================================================================
