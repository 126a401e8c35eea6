------------------------------ MODULE FifoPool ------------------------------
(***************************************************************************)
(* A pool of Capacity places with a first-come first-served line: what the *)
(* global semaphore promises.  A place that comes free passes to the head  *)
(* of the line in the same step, so nobody waits while a place is free and *)
(* nobody who arrives later overtakes the line.                            *)
(***************************************************************************)
EXTENDS Naturals, SequencesExt

CONSTANTS Clients, Capacity, LineLimit

VARIABLES
  holders,    \* the clients that hold a place
  line        \* the clients waiting for one, longest wait first

vars == <<holders, line>>

Init == holders = {} /\ line = <<>>

Enter(c) ==
  /\ c \notin holders
  /\ line = <<>>
  /\ Cardinality(holders) < Capacity
  /\ holders' = holders \cup {c}
  /\ UNCHANGED line

Wait(c) ==
  /\ c \notin holders
  /\ Cardinality(holders) = Capacity
  /\ Len(line) < LineLimit
  /\ line' = Append(line, c)
  /\ UNCHANGED holders

Leave(c) ==
  /\ c \in holders
  /\ \/ /\ line = <<>>
        /\ holders' = holders \ {c}
        /\ UNCHANGED line
     \/ /\ line # <<>>
        /\ holders' = (holders \ {c}) \cup {Head(line)}
        /\ line' = Tail(line)

Withdraw(i) ==
  /\ line' = RemoveAt(line, i)
  /\ UNCHANGED holders

Next ==
  \/ \E c \in Clients : Enter(c) \/ Wait(c) \/ Leave(c)
  \/ \E i \in DOMAIN line : Withdraw(i)

Spec == Init /\ [][Next]_vars

=============================================================================
