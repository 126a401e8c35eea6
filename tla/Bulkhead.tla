------------------------------ MODULE Bulkhead ------------------------------
(***************************************************************************)
(* The per-partition bulkheads (src/queue/bulkhead.ts, run and the slot    *)
(* queue) over the one global semaphore, as the attempts of all tickets    *)
(* use them: a retry, and a first attempt under limitFirstAttempts, takes  *)
(* its partition's slot and then a global permit; any other first attempt  *)
(* takes the permit alone (client.ts, dispatch).                           *)
(*                                                                         *)
(* One step is one turn of JavaScript: a synchronous call with everything  *)
(* it calls, or the continuation of a settled promise.  Between the turn   *)
(* that settles acquire()'s promise and the turn that resumes run(), any   *)
(* other turn may run; an attempt is then "granted" or "refused".          *)
(*                                                                         *)
(* An attempt that ended may be dispatched again, with a fresh signal: the *)
(* set Attempts bounds how many are about at one time.  Partitions keep    *)
(* the same Concurrency and MaxQueueSize here.                             *)
(***************************************************************************)
EXTENDS Naturals, SequencesExt

CONSTANTS
  Attempts,
  Partitions,
  PartitionOf,        \* the partition of each attempt
  Limited,            \* the attempts that need a partition slot
  Concurrency,        \* slots of a partition
  MaxQueueSize,       \* places in a partition's slot queue
  Permits,            \* global permits
  GlobalQueueSize     \* places in the semaphore's queue

ASSUME AttemptsAssumption ==
  /\ IsFiniteSet(Attempts)
  /\ PartitionOf \in [Attempts -> Partitions]
  /\ Limited \subseteq Attempts

ASSUME LimitsAssumption ==
  /\ Concurrency \in Nat \ {0}
  /\ MaxQueueSize \in Nat \ {0}
  /\ Permits \in Nat \ {0}
  /\ GlobalQueueSize \in Nat

VARIABLES
  running,            \* slots counted as taken, by partition
  slotQueue,          \* attempts waiting for a slot, by partition
  sem,                \* the global semaphore
  at,                 \* where each attempt stands
  aborted             \* the attempts whose ticket's signal has fired

vars == <<running, slotQueue, sem, at, aborted>>

Sem == INSTANCE Semaphore WITH
  Callers <- Attempts,
  MaxQueueSize <- GlobalQueueSize,
  call <- at

(***************************************************************************)
(* Where an attempt can stand.                                             *)
(*   idle        not dispatched, or ended                                  *)
(*   slotQueued  in its partition's queue                                  *)
(*   waiting     in the semaphore's queue (holding its slot, if limited)   *)
(*   granted     acquire() resolved; run() has not resumed yet             *)
(*   refused     acquire() rejected: queue full, or aborted in the queue;  *)
(*               run() has not resumed yet                                 *)
(*   running     its task was started                                      *)
(***************************************************************************)
Places == {"idle", "slotQueued", "waiting", "granted", "refused", "running"}

Home(a) == PartitionOf[a]

-----------------------------------------------------------------------------
(* Synchronous calls, as operators on the records of the fields they use,  *)
(* so that a turn can make several of them in the code's order.            *)

System == [running |-> running, slotQueue |-> slotQueue, sem |-> sem, at |-> at]

Become(s) ==
  /\ running' = s.running
  /\ slotQueue' = s.slotQueue
  /\ sem' = s.sem
  /\ at' = s.at

\* semaphore.acquire(signal), on an attempt whose signal has not fired.
AcquirePermit(s, a) ==
  [s EXCEPT !.sem = Sem!Acquire(@, a), !.at[a] = Sem!Outcome(s.sem)]

\* A rejected acquire, on an aborted signal.
RejectPermit(s, a) == [s EXCEPT !.at[a] = "refused"]

\* The release callback: the permit goes to the waiters at the front.
ReleasePermit(s) ==
  [s EXCEPT !.sem = Sem!Release(@),
            !.at = [b \in Attempts |-> IF b \in Sem!GrantedBy(s.sem)
                                       THEN "granted" ELSE s.at[b]]]

\* execute: count the slot, then ask for the permit.
Execute(s, a) ==
  LET held == [s EXCEPT !.running[Home(a)] = @ + 1] IN
  IF a \in aborted THEN RejectPermit(held, a) ELSE AcquirePermit(held, a)

\* Mutant: a freed slot does not go to the queue.
DrainNoSlots(s, p) == s

\* _drainWaitQueue.  A slot is only ever freed when one was taken, so one
\* turn of the while loop fills it again.
DrainSlots(s, p) ==
  IF s.running[p] < Concurrency /\ s.slotQueue[p] # <<>>
  THEN Execute([s EXCEPT !.slotQueue[p] = Tail(@)], Head(s.slotQueue[p]))
  ELSE s

\* _releaseSlot
ReleaseSlot(s, p) == DrainSlots([s EXCEPT !.running[p] = @ - 1], p)

Ended(s, a) == [s EXCEPT !.at[a] = "idle"]

-----------------------------------------------------------------------------
(* Dispatch.  An attempt whose signal fired, or that finds the slot queue  *)
(* (or, without a slot, the semaphore's queue) full, is rejected at once   *)
(* and stays idle.                                                         *)

RunWithSlot(a) ==
  /\ a \in Limited
  /\ IF running[Home(a)] < Concurrency
     THEN Become(Execute(System, a))
     ELSE /\ Len(slotQueue[Home(a)]) < MaxQueueSize
          /\ slotQueue' = [slotQueue EXCEPT ![Home(a)] = Append(@, a)]
          /\ at' = [at EXCEPT ![a] = "slotQueued"]
          /\ UNCHANGED <<running, sem>>

RunWithoutSlot(a) ==
  /\ a \notin Limited
  /\ Sem!Outcome(sem) # "refused"
  /\ Become(AcquirePermit(System, a))

Dispatch(a) ==
  /\ at[a] = "idle"
  /\ a \notin aborted
  /\ RunWithSlot(a) \/ RunWithoutSlot(a)
  /\ UNCHANGED aborted

-----------------------------------------------------------------------------
(* Continuations *)

\* run() resumes with its permit and starts the task.
Start(a) ==
  /\ at[a] = "granted"
  /\ at' = [at EXCEPT ![a] = "running"]
  /\ UNCHANGED <<running, slotQueue, sem, aborted>>

\* Mutant: an attempt the semaphore turned away keeps its slot.
RefusedKeepingSlot(a) ==
  /\ at[a] = "refused"
  /\ Become(Ended(System, a))
  /\ aborted' = aborted \ {a}

\* run() resumes with a rejection and hands back the slot it had counted.
Refused(a) ==
  /\ at[a] = "refused"
  /\ LET gone == Ended(System, a) IN
     Become(IF a \in Limited THEN ReleaseSlot(gone, Home(a)) ELSE gone)
  /\ aborted' = aborted \ {a}

\* Mutant: the slot first, then the permit.
FinishSlotFirst(a) ==
  /\ at[a] = "running"
  /\ LET gone == Ended(System, a) IN
     Become(ReleasePermit(IF a \in Limited THEN ReleaseSlot(gone, Home(a)) ELSE gone))
  /\ aborted' = aborted \ {a}

\* The task settled: the permit first, then the slot.
Finish(a) ==
  /\ at[a] = "running"
  /\ LET gone == ReleasePermit(Ended(System, a)) IN
     Become(IF a \in Limited THEN ReleaseSlot(gone, Home(a)) ELSE gone)
  /\ aborted' = aborted \ {a}

-----------------------------------------------------------------------------
(* The ticket's signal fires: cancel(), close() or the deadline.  The      *)
(* listeners run in the same turn: an attempt still in the slot queue is   *)
(* rejected at once, one in the semaphore's queue leaves it and its run()  *)
(* hears of it later.  A granted or running attempt has no listener here.  *)

\* Mutant: an aborted attempt stays in the slot queue (B9).
LeaveSlotQueueStale(a) ==
  /\ at[a] = "slotQueued"
  /\ at' = [at EXCEPT ![a] = "idle"]
  /\ UNCHANGED <<running, slotQueue, sem, aborted>>

LeaveSlotQueue(a) ==
  /\ at[a] = "slotQueued"
  /\ \E i \in DOMAIN slotQueue[Home(a)] :
       /\ slotQueue[Home(a)][i] = a
       /\ slotQueue' = [slotQueue EXCEPT ![Home(a)] = RemoveAt(@, i)]
  /\ at' = [at EXCEPT ![a] = "idle"]
  /\ UNCHANGED <<running, sem, aborted>>

LeavePermitQueue(a) ==
  /\ at[a] = "waiting"
  /\ \E i \in DOMAIN sem.waitQueue :
       /\ sem.waitQueue[i] = a
       /\ sem' = Sem!Abandon(sem, i)
  /\ at' = [at EXCEPT ![a] = "refused"]
  /\ aborted' = aborted \cup {a}
  /\ UNCHANGED <<running, slotQueue>>

AbortUnderWay(a) ==
  /\ at[a] \in {"granted", "refused", "running"}
  /\ aborted' = aborted \cup {a}
  /\ UNCHANGED <<running, slotQueue, sem, at>>

Abort(a) ==
  /\ a \notin aborted
  /\ LeaveSlotQueue(a) \/ LeavePermitQueue(a) \/ AbortUnderWay(a)

-----------------------------------------------------------------------------

Init ==
  /\ running = [p \in Partitions |-> 0]
  /\ slotQueue = [p \in Partitions |-> <<>>]
  /\ sem = Sem!Fresh
  /\ at = [a \in Attempts |-> "idle"]
  /\ aborted = {}

Next ==
  \E a \in Attempts :
    Dispatch(a) \/ Start(a) \/ Refused(a) \/ Finish(a) \/ Abort(a)

Spec == Init /\ [][Next]_vars

\* Promise continuations run, and every started task settles (the attempt
\* timeout or its abort bounds it); nobody is obliged to dispatch or abort.
Fairness ==
  \A a \in Attempts : WF_vars(Start(a)) /\ WF_vars(Refused(a)) /\ WF_vars(Finish(a))

FairSpec == Spec /\ Fairness

-----------------------------------------------------------------------------
(* Properties *)

SlotHolders(p) ==
  {a \in Limited : Home(a) = p /\ at[a] \in {"waiting", "granted", "refused", "running"}}

PermitHolders == {a \in Attempts : at[a] \in {"granted", "running"}}

(* The shape of the fields.  Every queued attempt is queued once, where    *)
(* its place says, and is live: an aborted attempt never keeps a place in  *)
(* a queue, where it would keep a live one out or be started (B9).         *)
TypeOK ==
  /\ running \in [Partitions -> 0..Concurrency]
  /\ slotQueue \in [Partitions -> Seq(Limited)]
  /\ sem \in [available : 0..Permits, waitQueue : Seq(Attempts)]
  /\ at \in [Attempts -> Places]
  /\ \A p \in Partitions :
       /\ IsInjective(slotQueue[p])
       /\ ToSet(slotQueue[p]) = {a \in Limited : Home(a) = p /\ at[a] = "slotQueued"}
  /\ IsInjective(sem.waitQueue)
  /\ ToSet(sem.waitQueue) = {a \in Attempts : at[a] = "waiting"}
  /\ aborted \subseteq {a \in Attempts : at[a] \in {"granted", "refused", "running"}}

(* A partition counts as running exactly the attempts that hold its slot,  *)
(* those the semaphore has just turned away included: no phantom slot.     *)
SlotsConserved ==
  \A p \in Partitions : running[p] = Cardinality(SlotHolders(p))

(* Permits are free or held by attempts that were granted one, also when   *)
(* the grant and the abort of the same attempt cross.                      *)
PermitsConserved == sem.available + Cardinality(PermitHolders) = Permits

(* No attempt queues for a slot or a permit that is free.                  *)
WorkConserving ==
  /\ \A p \in Partitions : slotQueue[p] # <<>> => running[p] = Concurrency
  /\ sem.waitQueue # <<>> => sem.available = 0

(* Between any two turns, whatever grants, refusals and aborts have        *)
(* crossed, every slot and every permit is either free or held by an       *)
(* attempt that will give it back, and none is free while somebody queues  *)
(* for it.                                                                 *)
CapacityConserved == SlotsConserved /\ PermitsConserved /\ WorkConserving

(* A live attempt is turned away by the semaphore only in a turn that      *)
(* leaves no permit free and the global queue full: the attempt that takes *)
(* over a slot sees the permit of the attempt that gave the slot up (the   *)
(* comment on `release`).                                                  *)
RefusedOnlyWhenSaturated ==
  [][\A a \in Attempts \ aborted' :
       (at'[a] = "refused" /\ at[a] # "refused") =>
         /\ sem'.available = 0
         /\ Len(sem'.waitQueue) = GlobalQueueSize]_vars

(* Slots and permits are taken in the same order by every attempt, so no   *)
(* two attempts wait for each other: whoever queues starts, or is turned   *)
(* away, or gives up.                                                      *)
EveryQueuedAttemptLeaves ==
  \A a \in Attempts : at[a] \in {"slotQueued", "waiting"}
                        ~> at[a] \in {"running", "idle"}

=============================================================================
