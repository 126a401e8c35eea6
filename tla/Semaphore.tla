----------------------------- MODULE Semaphore -----------------------------
(***************************************************************************)
(* The global semaphore (src/queue/semaphore.ts).  Its fields are one      *)
(* record, and each synchronous call is an operator from record to record, *)
(* so that Bulkhead can run several calls inside one step, as the code     *)
(* does inside one turn of the event loop.                                 *)
(*                                                                         *)
(* The specification below drives the semaphore alone: callers acquire,    *)
(* release what they were granted, and abort while they wait.  A refused   *)
(* or aborted acquire leaves its caller idle.  The second call of a        *)
(* release function, and an abort after the grant removed the listener,    *)
(* change nothing and are left out.                                        *)
(***************************************************************************)
EXTENDS Naturals, SequencesExt

CONSTANTS
  Callers,
  Permits,          \* ClientConfig.concurrency
  MaxQueueSize      \* ClientConfig.maxQueueSize

ASSUME CallersAssumption == IsFiniteSet(Callers)

ASSUME LimitsAssumption == Permits \in Nat \ {0} /\ MaxQueueSize \in Nat

VARIABLES
  sem,              \* [available, waitQueue]
  call              \* where each caller's acquire stands

vars == <<sem, call>>

-----------------------------------------------------------------------------
(* The semaphore's methods *)

Fresh == [available |-> Permits, waitQueue |-> <<>>]

\* What acquire() answers: a permit, a place in the queue, or QueueFullError.
Outcome(s) ==
  IF s.available > 0 THEN "granted"
  ELSE IF Len(s.waitQueue) >= MaxQueueSize THEN "refused"
  ELSE "waiting"

\* Mutant: the newest waiter goes to the front.
AcquireInFront(s, c) ==
  CASE Outcome(s) = "granted" -> [s EXCEPT !.available = @ - 1]
    [] Outcome(s) = "refused" -> s
    [] Outcome(s) = "waiting" -> [s EXCEPT !.waitQueue = <<c>> \o @]

Acquire(s, c) ==
  CASE Outcome(s) = "granted" -> [s EXCEPT !.available = @ - 1]
    [] Outcome(s) = "refused" -> s
    [] Outcome(s) = "waiting" -> [s EXCEPT !.waitQueue = Append(@, c)]

\* Mutants: a release serves the whole queue; a release serves nobody.
ServedAll(s) == Len(s.waitQueue)

ServedNobody(s) == 0

\* How many waiters _drain() grants: one per free permit, from the front.
Served(s) == IF s.available < Len(s.waitQueue) THEN s.available ELSE Len(s.waitQueue)

Drain(s) ==
  [available |-> s.available - Served(s),
   waitQueue |-> SubSeq(s.waitQueue, Served(s) + 1, Len(s.waitQueue))]

Freed(s) == [s EXCEPT !.available = @ + 1]

Release(s) == Drain(Freed(s))

\* The waiters whose promise resolves when a permit is released.
GrantedBy(s) == {s.waitQueue[i] : i \in 1..Served(Freed(s))}

\* Mutant: a waiter that leaves hands back a permit it never had.
AbandonFreeing(s, i) == [s EXCEPT !.waitQueue = RemoveAt(@, i), !.available = @ + 1]

\* The waiter in place i aborts: it leaves the queue.
Abandon(s, i) == [s EXCEPT !.waitQueue = RemoveAt(@, i)]

-----------------------------------------------------------------------------
(* Callers of the semaphore alone *)

Init ==
  /\ sem = Fresh
  /\ call = [c \in Callers |-> "idle"]

AcquireCall(c) ==
  /\ call[c] = "idle"
  /\ Outcome(sem) # "refused"
  /\ call' = [call EXCEPT ![c] = Outcome(sem)]
  /\ sem' = Acquire(sem, c)

ReleaseCall(c) ==
  /\ call[c] = "granted"
  /\ call' = [d \in Callers |-> IF d = c THEN "idle"
                                ELSE IF d \in GrantedBy(sem) THEN "granted"
                                ELSE call[d]]
  /\ sem' = Release(sem)

AbortCall(i) ==
  /\ call' = [call EXCEPT ![sem.waitQueue[i]] = "idle"]
  /\ sem' = Abandon(sem, i)

Next ==
  \/ \E c \in Callers : AcquireCall(c) \/ ReleaseCall(c)
  \/ \E i \in DOMAIN sem.waitQueue : AbortCall(i)

Spec == Init /\ [][Next]_vars

\* A permit is released when its attempt settles (finally).
FairSpec == Spec /\ \A c \in Callers : WF_vars(ReleaseCall(c))

-----------------------------------------------------------------------------
(* Properties *)

Holders == {c \in Callers : call[c] = "granted"}

(* The shape of the semaphore, and a caller waits exactly once: in the     *)
(* queue at one place when its promise is pending, nowhere otherwise.      *)
TypeOK ==
  /\ sem \in [available : 0..Permits, waitQueue : Seq(Callers)]
  /\ call \in [Callers -> {"idle", "waiting", "granted"}]
  /\ \A c \in Callers : call[c] = "waiting" <=> \E i \in DOMAIN sem.waitQueue : sem.waitQueue[i] = c
  /\ \A i, j \in DOMAIN sem.waitQueue : sem.waitQueue[i] = sem.waitQueue[j] => i = j

(* Every permit is free or held by one caller, whatever is aborted and     *)
(* whenever: none leaks, none is handed to two callers.                    *)
PermitsConserved == sem.available + Cardinality(Holders) = Permits

(* Nobody waits while a permit is free.                                    *)
NoIdlePermit == sem.available > 0 => sem.waitQueue = <<>>

(* The semaphore is a first-come first-served pool: no overtaking, and a   *)
(* freed permit goes to the head of the queue in the same turn.            *)
Pool == INSTANCE FifoPool WITH
  Clients <- Callers,
  Capacity <- Permits,
  LineLimit <- MaxQueueSize,
  holders <- Holders,
  line <- sem.waitQueue

ImplementsPool == Pool!Spec

(* Every waiter is granted a permit or aborts.                             *)
EveryWaiterServed ==
  \A c \in Callers : call[c] = "waiting" ~> call[c] # "waiting"

=============================================================================
