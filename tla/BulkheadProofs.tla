---------------------------- MODULE BulkheadProofs ----------------------------
(***************************************************************************)
(* Proofs about Bulkhead, for any attempts, partitions and limits.  The    *)
(* inductive invariant is TypeOK and CapacityConserved, and that the       *)
(* semaphore's queue is within its limit.                                  *)
(*                                                                         *)
(* A turn makes several calls, and between them the books do not balance:  *)
(* a task that settled still counts in its slot, and its permit is nobody's*)
(* until release() hands it on.  So each call is proved for any record of  *)
(* the fields, with what is owed at that point (SlotsUpTo, PermitsUpTo),   *)
(* and each action from the calls it makes.                                *)
(***************************************************************************)
EXTENDS Bulkhead, SequenceTheorems, FiniteSetTheorems, TLAPS

-----------------------------------------------------------------------------
(* Lines in which everybody stands once *)

(* Removing place i shifts the places behind it forward.                   *)
LEMMA RemoveAtProperties ==
  ASSUME NEW S, NEW s \in Seq(S), NEW i \in 1..Len(s)
  PROVE  /\ RemoveAt(s, i) \in Seq(S)
         /\ Len(RemoveAt(s, i)) = Len(s) - 1
         /\ \A j \in 1..(Len(s) - 1) :
              RemoveAt(s, i)[j] = IF j < i THEN s[j] ELSE s[j + 1]
<1> DEFINE front == SubSeq(s, 1, i - 1)
           back == SubSeq(s, i + 1, Len(s))
<1>1. /\ front \in Seq(S) /\ Len(front) = i - 1 /\ \A j \in 1..(i - 1) : front[j] = s[j]
      /\ back \in Seq(S) /\ Len(back) = Len(s) - i
      /\ \A j \in 1..(Len(s) - i) : back[j] = s[i + j]
  OBVIOUS
<1>2. RemoveAt(s, i) = front \o back
  BY DEF RemoveAt
<1> HIDE DEF front, back
<1>3. /\ front \o back \in Seq(S) /\ Len(front \o back) = Len(front) + Len(back)
      /\ \A j \in 1..(Len(front) + Len(back)) :
           (front \o back)[j] = IF j <= Len(front) THEN front[j] ELSE back[j - Len(front)]
  BY <1>1, ConcatProperties
<1>4. ASSUME NEW j \in 1..(Len(s) - 1)
      PROVE  (front \o back)[j] = IF j < i THEN s[j] ELSE s[j + 1]
  <2>1. CASE j < i
    BY <1>1, <1>3, <2>1
  <2>2. CASE ~(j < i)
    <3>1. /\ j - (i - 1) \in 1..(Len(s) - i) /\ i + (j - (i - 1)) = j + 1
          /\ j \in 1..((i - 1) + (Len(s) - i)) /\ ~(j <= i - 1)
      BY <2>2
    <3>2. (front \o back)[j] = back[j - (i - 1)]
      BY <1>1, <1>3, <3>1
    <3>3. back[j - (i - 1)] = s[j + 1]
      BY <1>1, <3>1
    <3> QED
      BY <2>2, <3>2, <3>3
  <2> QED
    BY <2>1, <2>2
<1>5. Len(front) + Len(back) = Len(s) - 1
  BY <1>1
<1> QED
  BY <1>2, <1>3, <1>4, <1>5

Lists(q, S) == IsInjective(q) /\ ToSet(q) = S

(* What it is for a queue to list a set, place by place.                   *)
LEMMA ListsByPlace ==
  ASSUME NEW q, NEW S
  PROVE  Lists(q, S) <=> /\ \A i, j \in DOMAIN q : q[i] = q[j] => i = j
                         /\ \A x : x \in S <=> \E i \in DOMAIN q : q[i] = x
BY DEF Lists, IsInjective, ToSet

(* Whoever joins a queue it does not stand in stands in it once.           *)
LEMMA ListAppend ==
  ASSUME NEW T, NEW q \in Seq(T), NEW S, Lists(q, S), NEW c \in T, c \notin S
  PROVE  /\ Append(q, c) \in Seq(T)
         /\ Append(q, c) # <<>>
         /\ Lists(Append(q, c), S \cup {c})
<1> DEFINE r == Append(q, c)
<1>1. /\ r \in Seq(T)
      /\ Len(q) \in Nat
      /\ DOMAIN q = 1..Len(q)
      /\ DOMAIN r = 1..(Len(q) + 1)
      /\ \A i \in 1..Len(q) : r[i] = q[i]
      /\ r[Len(q) + 1] = c
      /\ r # <<>>
  BY AppendProperties
<1>2. /\ \A i, j \in DOMAIN q : q[i] = q[j] => i = j
      /\ \A x : x \in S <=> \E i \in DOMAIN q : q[i] = x
  BY ListsByPlace
<1> HIDE DEF r
<1>3. \A i, j \in DOMAIN r : r[i] = r[j] => i = j
  BY <1>1, <1>2
<1>4. \A x : x \in S \cup {c} <=> \E i \in DOMAIN r : r[i] = x
  BY <1>1, <1>2
<1>5. Lists(r, S \cup {c})
  BY <1>3, <1>4, ListsByPlace
<1> QED
  BY <1>1, <1>5 DEF r

(* The head served, everybody else stands as before.                       *)
LEMMA ListTail ==
  ASSUME NEW T, NEW q \in Seq(T), NEW S, Lists(q, S), q # <<>>
  PROVE  /\ Tail(q) \in Seq(T)
         /\ Head(q) \in T
         /\ Head(q) \in S
         /\ Len(Tail(q)) = Len(q) - 1
         /\ Lists(Tail(q), S \ {Head(q)})
<1> DEFINE r == Tail(q)
<1>1. /\ r \in Seq(T)
      /\ Len(q) \in Nat
      /\ DOMAIN q = 1..Len(q)
      /\ 1 \in DOMAIN q
      /\ Len(r) = Len(q) - 1
      /\ DOMAIN r = 1..(Len(q) - 1)
      /\ \A i \in 1..(Len(q) - 1) : r[i] = q[i + 1]
      /\ Head(q) = q[1]
      /\ Head(q) \in T
  BY HeadTailProperties, EmptySeq
<1>2. /\ \A i, j \in DOMAIN q : q[i] = q[j] => i = j
      /\ \A x : x \in S <=> \E i \in DOMAIN q : q[i] = x
  BY ListsByPlace
<1> HIDE DEF r
<1>3. \A i, j \in DOMAIN r : r[i] = r[j] => i = j
  BY <1>1, <1>2
<1>4. ASSUME NEW x
      PROVE  x \in S \ {Head(q)} <=> \E i \in DOMAIN r : r[i] = x
  <2>1. ASSUME x \in S \ {Head(q)} PROVE \E i \in DOMAIN r : r[i] = x
    <3>1. PICK j \in DOMAIN q : q[j] = x /\ j # 1
      BY <1>1, <1>2, <2>1
    <3>2. j - 1 \in DOMAIN r /\ r[j - 1] = x
      BY <1>1, <3>1
    <3> QED
      BY <3>2
  <2>2. ASSUME NEW i \in DOMAIN r, r[i] = x PROVE x \in S \ {Head(q)}
    <3>1. i + 1 \in DOMAIN q /\ i + 1 # 1 /\ q[i + 1] = x
      BY <1>1, <2>2
    <3> QED
      BY <1>1, <1>2, <3>1
  <2> QED
    BY <2>1, <2>2
<1>5. Lists(r, S \ {Head(q)})
  BY <1>3, <1>4, ListsByPlace
<1> QED
  BY <1>1, <1>2, <1>5 DEF r

(* Whoever leaves a queue leaves everybody else as before.                 *)
LEMMA ListRemoveAt ==
  ASSUME NEW T, NEW q \in Seq(T), NEW S, Lists(q, S), NEW i \in DOMAIN q
  PROVE  /\ RemoveAt(q, i) \in Seq(T)
         /\ q[i] \in T
         /\ q[i] \in S
         /\ Len(RemoveAt(q, i)) = Len(q) - 1
         /\ Lists(RemoveAt(q, i), S \ {q[i]})
<1> DEFINE r == RemoveAt(q, i)
<1>0. Len(q) \in Nat /\ DOMAIN q = 1..Len(q) /\ i \in 1..Len(q) /\ q[i] \in T
  BY ElementOfSeq
<1>1. /\ r \in Seq(T)
      /\ Len(r) = Len(q) - 1
      /\ \A j \in 1..(Len(q) - 1) : r[j] = IF j < i THEN q[j] ELSE q[j + 1]
  BY <1>0, RemoveAtProperties
<1>2. /\ \A j, k \in DOMAIN q : q[j] = q[k] => j = k
      /\ \A x : x \in S <=> \E j \in DOMAIN q : q[j] = x
  BY ListsByPlace
<1>3. DOMAIN r = 1..(Len(q) - 1)
  BY <1>0, <1>1
<1> HIDE DEF r
<1>4. \A j, k \in DOMAIN r : r[j] = r[k] => j = k
  <2> DEFINE old(j) == IF j < i THEN j ELSE j + 1
  <2>1. \A j \in DOMAIN r : old(j) \in DOMAIN q /\ r[j] = q[old(j)]
    BY <1>0, <1>1, <1>3
  <2>2. \A j, k \in DOMAIN r : old(j) = old(k) => j = k
    BY <1>0, <1>3
  <2> HIDE DEF old
  <2> QED
    BY <1>2, <2>1, <2>2
<1>5. ASSUME NEW x
      PROVE  x \in S \ {q[i]} <=> \E j \in DOMAIN r : r[j] = x
  <2>1. ASSUME x \in S \ {q[i]} PROVE \E j \in DOMAIN r : r[j] = x
    <3>1. PICK k \in DOMAIN q : q[k] = x /\ k # i
      BY <1>2, <2>1
    <3>2. CASE k < i
      <4>1. k \in DOMAIN r /\ r[k] = x
        BY <1>0, <1>1, <1>3, <3>1, <3>2
      <4> QED
        BY <4>1
    <3>3. CASE k > i
      <4>1. k - 1 \in DOMAIN r /\ r[k - 1] = x
        BY <1>0, <1>1, <1>3, <3>1, <3>3
      <4> QED
        BY <4>1
    <3> QED
      BY <1>0, <3>1, <3>2, <3>3
  <2>2. ASSUME NEW j \in DOMAIN r, r[j] = x PROVE x \in S \ {q[i]}
    <3> DEFINE k == IF j < i THEN j ELSE j + 1
    <3>1. k \in DOMAIN q /\ k # i /\ q[k] = x
      BY <1>0, <1>1, <1>3, <2>2
    <3> HIDE DEF k
    <3> QED
      BY <1>0, <1>2, <3>1
  <2> QED
    BY <2>1, <2>2
<1>6. Lists(r, S \ {q[i]})
  BY <1>4, <1>5, ListsByPlace
<1> QED
  BY <1>0, <1>1, <1>2, <1>6 DEF r

-----------------------------------------------------------------------------
(* What the books say of a record of the fields *)

Slotted == {"waiting", "granted", "refused", "running"}

SlotsOf(s, p) == {a \in Limited : Home(a) = p /\ s.at[a] \in Slotted}

PermitsOf(s) == {a \in Attempts : s.at[a] \in {"granted", "running"}}

InLine(s, p) == {a \in Limited : Home(a) = p /\ s.at[a] = "slotQueued"}

Waiters(s) == {a \in Attempts : s.at[a] = "waiting"}

IsSem(x) ==
  /\ x = [available |-> x.available, waitQueue |-> x.waitQueue]
  /\ x.available \in Nat
  /\ x.waitQueue \in Seq(Attempts)
  /\ Len(x.waitQueue) <= GlobalQueueSize
  /\ x.waitQueue # <<>> => x.available = 0

Systems == [running : [Partitions -> Nat],
            slotQueue : [Partitions -> Seq(Limited)],
            sem : [available : Nat, waitQueue : Seq(Attempts)],
            at : [Attempts -> Places]]

\* Sound but for the attempts in D, which stand in no queue whatever their place.
SoundBut(s, D) ==
  /\ s \in Systems
  /\ IsSem(s.sem)
  /\ \A p \in Partitions : Lists(s.slotQueue[p], InLine(s, p) \ D)
  /\ Lists(s.sem.waitQueue, Waiters(s) \ D)

Sound(s) ==
  /\ s \in Systems
  /\ IsSem(s.sem)
  /\ \A p \in Partitions : Lists(s.slotQueue[p], InLine(s, p))
  /\ Lists(s.sem.waitQueue, Waiters(s))

\* k permits were given up and are not free yet.
PermitsUpTo(s, k) == s.sem.available + Cardinality(PermitsOf(s)) + k = Permits

\* In each partition of D one slot is counted that nobody holds.
SlotsUpTo(s, D) ==
  \A p \in Partitions :
    s.running[p] = Cardinality(SlotsOf(s, p)) + IF p \in D THEN 1 ELSE 0

\* Outside D nobody queues for a slot that is free.
SlotsFull(s, D) ==
  \A p \in Partitions :
    /\ s.running[p] <= Concurrency
    /\ (p \notin D /\ s.slotQueue[p] # <<>>) => s.running[p] = Concurrency

-----------------------------------------------------------------------------
(* The semaphore's calls *)

(* A release frees a permit when nobody waits, and otherwise passes it to  *)
(* the head of the queue and to no one else (release, _drain).             *)
LEMMA SemRelease ==
  ASSUME NEW x, IsSem(x)
  PROVE  /\ x.waitQueue = <<>> =>
              /\ Sem!Release(x) = [available |-> x.available + 1, waitQueue |-> <<>>]
              /\ Sem!GrantedBy(x) = {}
         /\ x.waitQueue # <<>> =>
              /\ Sem!Release(x) = [available |-> 0, waitQueue |-> Tail(x.waitQueue)]
              /\ Sem!GrantedBy(x) = {Head(x.waitQueue)}
<1>1. /\ x.available \in Nat
      /\ x.waitQueue \in Seq(Attempts)
      /\ Len(x.waitQueue) \in Nat
  BY DEF IsSem
<1>2. Sem!Freed(x).available = x.available + 1 /\ Sem!Freed(x).waitQueue = x.waitQueue
  <2>1. Sem!Freed(x) = [available |-> x.available + 1, waitQueue |-> x.waitQueue]
    BY DEF IsSem, Sem!Freed
  <2> QED
    BY <2>1
<1> DEFINE f == Sem!Freed(x)
<1>3. Sem!Release(x) = [available |-> f.available - Sem!Served(f),
                        waitQueue |-> SubSeq(f.waitQueue, Sem!Served(f) + 1, Len(f.waitQueue))]
  BY DEF Sem!Release, Sem!Drain
<1>4. CASE x.waitQueue = <<>>
  <2>1. Sem!Served(Sem!Freed(x)) = 0
    BY <1>1, <1>2, <1>4 DEF Sem!Served
  <2>2. SubSeq(x.waitQueue, 1, Len(x.waitQueue)) = <<>>
    BY <1>4
  <2>3. Sem!Release(x) = [available |-> x.available + 1, waitQueue |-> <<>>]
    <3>1. /\ f.available - Sem!Served(f) = x.available + 1
          /\ Sem!Served(f) + 1 = 1
          /\ f.waitQueue = x.waitQueue
      BY <1>1, <1>2, <2>1
    <3> HIDE DEF f
    <3> QED
      BY <1>3, <2>2, <3>1
  <2>4. Sem!GrantedBy(x) = {}
    BY <2>1 DEF Sem!GrantedBy
  <2> QED
    BY <1>4, <2>3, <2>4
<1>5. CASE x.waitQueue # <<>>
  <2>1. x.available = 0
    BY <1>5 DEF IsSem
  <2>2. \A n \in Nat : (n # 0 /\ Len(x.waitQueue) = n) => Sem!Served(Sem!Freed(x)) = 1
    BY <1>2, <2>1 DEF Sem!Served
  <2>3. Sem!Served(Sem!Freed(x)) = 1
    BY <1>1, <1>5, <2>2, EmptySeq
  <2>4. SubSeq(x.waitQueue, 2, Len(x.waitQueue)) = Tail(x.waitQueue)
    BY <1>1, <1>5, TailIsSubSeq
  <2>5. Sem!Release(x) = [available |-> 0, waitQueue |-> Tail(x.waitQueue)]
    <3>1. /\ f.available - Sem!Served(f) = 0
          /\ Sem!Served(f) + 1 = 2
          /\ f.waitQueue = x.waitQueue
      BY <1>2, <2>1, <2>3
    <3> HIDE DEF f
    <3> QED
      BY <1>3, <2>4, <3>1
  <2>6. Sem!GrantedBy(x) = {Head(x.waitQueue)}
    BY <2>3, <1>2 DEF Sem!GrantedBy
  <2> QED
    BY <1>5, <2>5, <2>6
<1> QED
  BY <1>4, <1>5

(* acquire() takes a free permit, or a place at the end of the queue, or   *)
(* is refused by a full queue when no permit is free.                      *)
LEMMA SemAcquire ==
  ASSUME NEW x, IsSem(x), NEW a \in Attempts
  PROVE  \/ /\ x.available > 0
            /\ x.waitQueue = <<>>
            /\ Sem!Outcome(x) = "granted"
            /\ Sem!Acquire(x, a) = [available |-> x.available - 1, waitQueue |-> <<>>]
         \/ /\ x.available = 0
            /\ Len(x.waitQueue) < GlobalQueueSize
            /\ Sem!Outcome(x) = "waiting"
            /\ Sem!Acquire(x, a) = [available |-> 0, waitQueue |-> Append(x.waitQueue, a)]
         \/ /\ x.available = 0
            /\ Len(x.waitQueue) = GlobalQueueSize
            /\ Sem!Outcome(x) = "refused"
            /\ Sem!Acquire(x, a) = x
<1>1. /\ x.available \in Nat
      /\ Len(x.waitQueue) \in Nat
      /\ Len(x.waitQueue) <= GlobalQueueSize
      /\ GlobalQueueSize \in Nat
      /\ x = [available |-> x.available, waitQueue |-> x.waitQueue]
      /\ x.waitQueue # <<>> => x.available = 0
  BY LimitsAssumption DEF IsSem
<1>2. CASE x.available > 0
  <2>1. Sem!Outcome(x) = "granted"
    BY <1>2 DEF Sem!Outcome
  <2>2. Sem!Acquire(x, a) = [x EXCEPT !.available = @ - 1]
    BY <2>1 DEF Sem!Acquire
  <2> QED
    BY <1>1, <1>2, <2>1, <2>2
<1>3. CASE x.available = 0 /\ Len(x.waitQueue) < GlobalQueueSize
  <2>1. Sem!Outcome(x) = "waiting"
    BY <1>1, <1>3 DEF Sem!Outcome
  <2>2. Sem!Acquire(x, a) = [x EXCEPT !.waitQueue = Append(@, a)]
    BY <2>1 DEF Sem!Acquire
  <2> QED
    BY <1>1, <1>3, <2>1, <2>2
<1>4. CASE x.available = 0 /\ Len(x.waitQueue) = GlobalQueueSize
  <2>1. Sem!Outcome(x) = "refused"
    BY <1>1, <1>4 DEF Sem!Outcome
  <2>2. Sem!Acquire(x, a) = x
    BY <2>1 DEF Sem!Acquire
  <2> QED
    BY <1>4, <2>1, <2>2
<1> QED
  BY <1>1, <1>2, <1>3, <1>4

(* A sound semaphore has its two fields and no other.                      *)
LEMMA SemType ==
  ASSUME NEW x, IsSem(x)
  PROVE  x \in [available : Nat, waitQueue : Seq(Attempts)]
BY DEF IsSem

-----------------------------------------------------------------------------
(* The holders *)

(* The holders of a permit, and of a partition's slot, are finitely many.  *)
LEMMA HoldersFinite ==
  ASSUME NEW s
  PROVE  /\ IsFiniteSet(PermitsOf(s))
         /\ Cardinality(PermitsOf(s)) \in Nat
         /\ \A p : IsFiniteSet(SlotsOf(s, p)) /\ Cardinality(SlotsOf(s, p)) \in Nat
<1>1. PermitsOf(s) \in SUBSET Attempts /\ \A p : SlotsOf(s, p) \in SUBSET Attempts
  BY AttemptsAssumption DEF PermitsOf, SlotsOf
<1> QED
  BY <1>1, AttemptsAssumption, FS_Subset, FS_CardinalityType

-----------------------------------------------------------------------------
(* What a turn's calls keep *)

(* An attempt that ends, having held its permit or been refused one, stood *)
(* in no queue.                                                            *)
LEMMA EndedKeeps ==
  ASSUME NEW s, Sound(s), NEW a \in Attempts, s.at[a] \in {"running", "refused"}
  PROVE  LET r == Ended(s, a)
         IN /\ Sound(r)
            /\ r.running = s.running
            /\ r.slotQueue = s.slotQueue
            /\ r.sem = s.sem
            /\ r.at = [s.at EXCEPT ![a] = "idle"]
            /\ \A p : SlotsOf(r, p) = SlotsOf(s, p) \ {a}
            /\ PermitsOf(r) = PermitsOf(s) \ {a}
<1> DEFINE r == Ended(s, a)
<1>1. /\ s.at \in [Attempts -> Places]
      /\ s \in Systems
  BY DEF Sound, Systems
<1>2. r \in Systems
  BY <1>1 DEF Ended, Systems, Places
<1>3. /\ r.running = s.running
      /\ r.slotQueue = s.slotQueue
      /\ r.sem = s.sem
      /\ r.at = [s.at EXCEPT ![a] = "idle"]
  BY <1>1 DEF Ended, Systems
<1> HIDE DEF r
<1>4. \A p : InLine(r, p) = InLine(s, p)
  BY <1>1, <1>3, AttemptsAssumption DEF InLine
<1>5. Waiters(r) = Waiters(s)
  BY <1>1, <1>3 DEF Waiters
<1>6. Sound(r)
  BY <1>2, <1>3, <1>4, <1>5 DEF Sound
<1>7. \A p : SlotsOf(r, p) = SlotsOf(s, p) \ {a}
  BY <1>1, <1>3, AttemptsAssumption DEF SlotsOf, Slotted
<1>8. PermitsOf(r) = PermitsOf(s) \ {a}
  BY <1>1, <1>3 DEF PermitsOf
<1> QED
  BY <1>3, <1>6, <1>7, <1>8 DEF r

(* A permit given back is free, or held by the attempt at the head of the  *)
(* queue; no slot changes hands, and nobody is refused.                    *)
LEMMA ReleasePermitKeeps ==
  ASSUME NEW s, Sound(s), PermitsUpTo(s, 1)
  PROVE  LET r == ReleasePermit(s)
         IN /\ Sound(r)
            /\ r.running = s.running
            /\ r.slotQueue = s.slotQueue
            /\ \A p : SlotsOf(r, p) = SlotsOf(s, p)
            /\ PermitsUpTo(r, 0)
            /\ \A b \in Attempts : r.at[b] = s.at[b] \/ r.at[b] = "granted"
<1> DEFINE r == ReleasePermit(s)
           q == s.sem.waitQueue
<1>1. /\ s.at \in [Attempts -> Places]
      /\ IsSem(s.sem)
      /\ s.sem.available \in Nat
      /\ q \in Seq(Attempts)
      /\ Len(q) \in Nat
      /\ Len(q) <= GlobalQueueSize
      /\ Lists(q, Waiters(s))
      /\ s \in Systems
  BY DEF Sound, IsSem, Systems
<1> DEFINE heard == [b \in Attempts |-> IF b \in Sem!GrantedBy(s.sem)
                                        THEN "granted" ELSE s.at[b]]
<1>2. r \in [running : {s.running}, slotQueue : {s.slotQueue},
             sem : {Sem!Release(s.sem)}, at : {heard}]
  BY <1>1 DEF ReleasePermit, Systems
<1>3. /\ r.running = s.running
      /\ r.slotQueue = s.slotQueue
      /\ r.sem = Sem!Release(s.sem)
      /\ r.at = heard
      /\ r.at \in [Attempts -> Places]
  BY <1>1, <1>2 DEF Places
<1>4. r.sem \in [available : Nat, waitQueue : Seq(Attempts)] => r \in Systems
  BY <1>1, <1>2, <1>3 DEF Systems
<1>5. \A b \in Attempts : r.at[b] = s.at[b] \/ r.at[b] = "granted"
  BY <1>3
<1> HIDE DEF r
<1>6. CASE q = <<>>
  <2>1. /\ r.sem = [available |-> s.sem.available + 1, waitQueue |-> <<>>]
        /\ r.at = s.at
    BY <1>1, <1>3, <1>6, SemRelease
  <2>2. /\ IsSem(r.sem)
        /\ r.sem.available = s.sem.available + 1
        /\ r.sem.waitQueue = q
    BY <1>1, <1>6, <2>1 DEF IsSem
  <2>3. /\ \A p : InLine(r, p) = InLine(s, p) /\ SlotsOf(r, p) = SlotsOf(s, p)
        /\ Waiters(r) = Waiters(s)
        /\ PermitsOf(r) = PermitsOf(s)
    BY <2>1 DEF InLine, Waiters, SlotsOf, PermitsOf
  <2>4. Sound(r)
    <3>1. r \in Systems
      BY <1>4, <2>2, SemType
    <3> QED
      BY <1>3, <2>2, <2>3, <3>1 DEF Sound
  <2>5. PermitsUpTo(r, 0)
    BY <1>1, <2>2, <2>3, HoldersFinite DEF PermitsUpTo
  <2> QED
    BY <1>3, <1>5, <2>3, <2>4, <2>5 DEF r
<1>7. CASE q # <<>>
  <2> DEFINE h == Head(q)
  <2>1. /\ r.sem = [available |-> 0, waitQueue |-> Tail(q)]
        /\ Sem!GrantedBy(s.sem) = {h}
        /\ s.sem.available = 0
    BY <1>1, <1>3, <1>7, SemRelease DEF IsSem
  <2>2. /\ Tail(q) \in Seq(Attempts)
        /\ Len(Tail(q)) = Len(q) - 1
        /\ h \in Attempts
        /\ h \in Waiters(s)
        /\ Lists(Tail(q), Waiters(s) \ {h})
    BY <1>1, <1>7, ListTail
  <2>3. /\ IsSem(r.sem)
        /\ r.sem.available = 0
        /\ r.sem.waitQueue = Tail(q)
    BY <1>1, <2>1, <2>2, LimitsAssumption DEF IsSem
  <2> HIDE DEF h
  <2>4. /\ s.at[h] = "waiting"
        /\ r.at = [s.at EXCEPT ![h] = "granted"]
    BY <1>1, <1>3, <2>1, <2>2 DEF Waiters
  <2>5. \A p : InLine(r, p) = InLine(s, p)
    BY <1>1, <2>2, <2>4, AttemptsAssumption DEF InLine
  <2>6. \A p : SlotsOf(r, p) = SlotsOf(s, p)
    BY <1>1, <2>2, <2>4, AttemptsAssumption DEF SlotsOf, Slotted
  <2>7. Waiters(r) = Waiters(s) \ {h}
    BY <1>1, <2>2, <2>4 DEF Waiters
  <2>8. PermitsOf(r) = PermitsOf(s) \cup {h} /\ h \notin PermitsOf(s)
    BY <1>1, <2>2, <2>4 DEF PermitsOf
  <2>9. Sound(r)
    <3>1. r \in Systems
      BY <1>4, <2>3, SemType
    <3> QED
      BY <1>3, <2>2, <2>3, <2>5, <2>7, <3>1 DEF Sound
  <2>10. PermitsUpTo(r, 0)
    <3>1. Cardinality(PermitsOf(r)) = Cardinality(PermitsOf(s)) + 1
      BY <2>8, HoldersFinite, FS_AddElement
    <3> QED
      BY <2>1, <2>3, <3>1, HoldersFinite DEF PermitsUpTo
  <2> QED
    BY <1>3, <1>5, <2>6, <2>9, <2>10 DEF r
<1> QED
  BY <1>6, <1>7

(* Asking for a permit gives one, or a place in the queue, or a refusal    *)
(* while no permit is free and the queue is full.                          *)
LEMMA AcquirePermitKeeps ==
  ASSUME NEW s, NEW a \in Attempts, SoundBut(s, {a}), s.at[a] \in {"idle", "slotQueued"}
  PROVE  LET r == AcquirePermit(s, a)
         IN /\ Sound(r)
            /\ r.running = s.running
            /\ r.slotQueue = s.slotQueue
            /\ r.at[a] \in {"granted", "waiting", "refused"}
            /\ r.at = [s.at EXCEPT ![a] = r.at[a]]
            /\ \A k \in Nat : PermitsUpTo(s, k) => PermitsUpTo(r, k)
            /\ r.at[a] = "refused" => /\ r.sem.available = 0
                                      /\ Len(r.sem.waitQueue) = GlobalQueueSize
<1> DEFINE r == AcquirePermit(s, a)
           q == s.sem.waitQueue
<1>1. /\ s.at \in [Attempts -> Places]
      /\ IsSem(s.sem)
      /\ s.sem.available \in Nat
      /\ q \in Seq(Attempts)
      /\ Len(q) \in Nat
      /\ Lists(q, Waiters(s))
      /\ \A p \in Partitions : Lists(s.slotQueue[p], InLine(s, p) \ {a})
      /\ s \in Systems
  <2>1. Waiters(s) \ {a} = Waiters(s)
    BY DEF Waiters
  <2>2. /\ s \in Systems
        /\ IsSem(s.sem)
        /\ Lists(q, Waiters(s))
        /\ \A p \in Partitions : Lists(s.slotQueue[p], InLine(s, p) \ {a})
    BY <2>1 DEF SoundBut
  <2>3. s.at \in [Attempts -> Places]
    BY <2>2 DEF Systems
  <2>4. s.sem.available \in Nat /\ q \in Seq(Attempts) /\ Len(q) \in Nat
    BY <2>2 DEF IsSem
  <2> QED
    BY <2>2, <2>3, <2>4
<1> DEFINE heard == [s.at EXCEPT ![a] = Sem!Outcome(s.sem)]
<1>2. r \in [running : {s.running}, slotQueue : {s.slotQueue},
             sem : {Sem!Acquire(s.sem, a)}, at : {heard}]
  BY <1>1 DEF AcquirePermit, Systems
<1>3. /\ r.running = s.running
      /\ r.slotQueue = s.slotQueue
      /\ r.sem = Sem!Acquire(s.sem, a)
      /\ r.at = [s.at EXCEPT ![a] = Sem!Outcome(s.sem)]
      /\ r.at[a] = Sem!Outcome(s.sem)
  BY <1>1, <1>2
<1>4. Sem!Outcome(s.sem) \in {"granted", "waiting", "refused"}
  BY DEF Sem!Outcome
<1>5. r.at \in [Attempts -> Places]
  BY <1>1, <1>3, <1>4 DEF Places
<1>6. r.sem \in [available : Nat, waitQueue : Seq(Attempts)] => r \in Systems
  BY <1>1, <1>2, <1>3, <1>5 DEF Systems
<1> HIDE DEF r
<1>7. \A p : InLine(r, p) = InLine(s, p) \ {a}
  BY <1>1, <1>3, <1>4, AttemptsAssumption DEF InLine
<1>8. a \notin Waiters(s) /\ a \notin PermitsOf(s)
  BY DEF Waiters, PermitsOf
<1>9. CASE Sem!Outcome(s.sem) = "granted"
  <2>1. /\ s.sem.available > 0
        /\ q = <<>>
        /\ r.sem = [available |-> s.sem.available - 1, waitQueue |-> <<>>]
    BY <1>1, <1>3, <1>9, SemAcquire
  <2>2. IsSem(r.sem) /\ r.sem.waitQueue = q /\ r.sem.available = s.sem.available - 1
    BY <1>1, <2>1, LimitsAssumption DEF IsSem
  <2>3. Waiters(r) = Waiters(s)
    BY <1>1, <1>3, <1>9 DEF Waiters
  <2>4. PermitsOf(r) = PermitsOf(s) \cup {a}
    BY <1>1, <1>3, <1>9 DEF PermitsOf
  <2>5. Cardinality(PermitsOf(r)) = Cardinality(PermitsOf(s)) + 1
    BY <1>8, <2>4, HoldersFinite, FS_AddElement
  <2>6. \A k \in Nat : PermitsUpTo(s, k) => PermitsUpTo(r, k)
    <3>1. Cardinality(PermitsOf(s)) \in Nat
      BY HoldersFinite
    <3>2. s.sem.available \in Nat
      BY <1>1 DEF IsSem
    <3>3. \A x, c, k \in Nat : x + c + k = Permits => (x - 1) + (c + 1) + k = Permits
      BY LimitsAssumption
    <3> HIDE DEF q
    <3> QED
      BY <2>2, <2>5, <3>1, <3>2, <3>3 DEF PermitsUpTo
  <2>7. Sound(r)
    <3>1. r \in Systems
      BY <1>6, <2>2, SemType
    <3> QED
      BY <1>1, <1>3, <1>5, <1>7, <2>2, <2>3, <3>1 DEF Sound
  <2> QED
    BY <1>3, <1>9, <2>6, <2>7 DEF r
<1>10. CASE Sem!Outcome(s.sem) = "waiting"
  <2>1. /\ s.sem.available = 0
        /\ Len(q) < GlobalQueueSize
        /\ r.sem = [available |-> 0, waitQueue |-> Append(q, a)]
    BY <1>1, <1>3, <1>10, SemAcquire
  <2>2. /\ Append(q, a) \in Seq(Attempts)
        /\ Len(Append(q, a)) = Len(q) + 1
        /\ Lists(Append(q, a), Waiters(s) \cup {a})
    BY <1>1, <1>8, ListAppend, AppendProperties
  <2>3. IsSem(r.sem) /\ r.sem.waitQueue = Append(q, a) /\ r.sem.available = s.sem.available
    BY <1>1, <2>1, <2>2, LimitsAssumption DEF IsSem
  <2>4. Waiters(r) = Waiters(s) \cup {a}
    BY <1>1, <1>3, <1>10 DEF Waiters
  <2>5. PermitsOf(r) = PermitsOf(s)
    BY <1>1, <1>3, <1>10 DEF PermitsOf
  <2>6. \A k \in Nat : PermitsUpTo(s, k) => PermitsUpTo(r, k)
    BY <2>3, <2>5 DEF PermitsUpTo
  <2>7. Sound(r)
    <3>1. r \in Systems
      BY <1>6, <2>3, SemType
    <3> QED
      BY <1>1, <1>3, <1>5, <1>7, <2>2, <2>3, <2>4, <3>1 DEF Sound
  <2> QED
    BY <1>3, <1>10, <2>6, <2>7 DEF r
<1>11. CASE Sem!Outcome(s.sem) = "refused"
  <2>1. /\ s.sem.available = 0
        /\ Len(q) = GlobalQueueSize
        /\ r.sem = s.sem
    BY <1>1, <1>3, <1>11, SemAcquire
  <2>2. Waiters(r) = Waiters(s)
    BY <1>1, <1>3, <1>11 DEF Waiters
  <2>3. PermitsOf(r) = PermitsOf(s)
    BY <1>1, <1>3, <1>11 DEF PermitsOf
  <2>4. \A k \in Nat : PermitsUpTo(s, k) => PermitsUpTo(r, k)
    BY <2>1, <2>3 DEF PermitsUpTo
  <2>5. Sound(r)
    <3>1. r \in Systems
      BY <1>6, <1>1, <2>1, SemType
    <3> QED
      BY <1>1, <1>3, <1>5, <1>7, <2>1, <2>2, <3>1 DEF Sound
  <2> QED
    BY <1>3, <1>11, <2>1, <2>4, <2>5 DEF r
<1> QED
  BY <1>4, <1>9, <1>10, <1>11

\* Nobody in a slot queue has an aborted signal.
LiveLines(s) == \A a \in Attempts : s.at[a] = "slotQueued" => a \notin aborted

PastQueues == {"granted", "refused", "running"}

\* From s to r nobody returned to a queue, and whoever was refused was refused
\* by a semaphore that is saturated in r.
Follows(s, r) ==
  \A b \in Attempts :
    /\ s.at[b] \in PastQueues => r.at[b] \in PastQueues
    /\ (r.at[b] = "refused" /\ s.at[b] # "refused") =>
         r.sem.available = 0 /\ Len(r.sem.waitQueue) = GlobalQueueSize

(* An attempt that is given a free slot holds it, whatever the semaphore   *)
(* answers (execute).                                                      *)
LEMMA ExecuteKeeps ==
  ASSUME NEW s, NEW a \in Limited \ aborted, SoundBut(s, {a}), s.at[a] \in {"idle", "slotQueued"},
         SlotsUpTo(s, {}), PermitsUpTo(s, 0)
  PROVE  LET r == Execute(s, a)
         IN /\ Sound(r)
            /\ SlotsUpTo(r, {})
            /\ PermitsUpTo(r, 0)
            /\ r.running = [s.running EXCEPT ![Home(a)] = @ + 1]
            /\ r.slotQueue = s.slotQueue
            /\ Follows(s, r)
<1> DEFINE more == [s.running EXCEPT ![Home(a)] = @ + 1]
           held == [s EXCEPT !.running[Home(a)] = @ + 1]
           r == AcquirePermit(held, a)
<1>1. /\ a \in Attempts
      /\ Home(a) \in Partitions
      /\ Execute(s, a) = r
  BY AttemptsAssumption DEF Execute, Home
<1>2. /\ s \in Systems
      /\ s.running \in [Partitions -> Nat]
      /\ s.at \in [Attempts -> Places]
  BY DEF SoundBut, Systems
<1>3. /\ held \in Systems
      /\ held.running = more
      /\ held.slotQueue = s.slotQueue
      /\ held.sem = s.sem
      /\ held.at = s.at
  <2>1. held \in [running : {more}, slotQueue : {s.slotQueue}, sem : {s.sem}, at : {s.at}]
    BY <1>2 DEF Systems
  <2>2. more \in [Partitions -> Nat]
    BY <1>1, <1>2
  <2> QED
    BY <1>2, <2>1, <2>2 DEF Systems
<1> HIDE DEF held
<1>4. /\ SoundBut(held, {a})
      /\ PermitsUpTo(held, 0)
      /\ \A p : SlotsOf(held, p) = SlotsOf(s, p)
  BY <1>3 DEF SoundBut, PermitsUpTo, InLine, Waiters, PermitsOf, SlotsOf
<1>5. /\ Sound(r)
      /\ r.running = held.running
      /\ r.slotQueue = held.slotQueue
      /\ r.at[a] \in {"granted", "waiting", "refused"}
      /\ r.at = [held.at EXCEPT ![a] = r.at[a]]
      /\ PermitsUpTo(r, 0)
      /\ r.at[a] = "refused" => /\ r.sem.available = 0
                                /\ Len(r.sem.waitQueue) = GlobalQueueSize
  BY <1>1, <1>3, <1>4, AcquirePermitKeeps
<1> HIDE DEF r
<1>6. /\ a \notin SlotsOf(s, Home(a))
      /\ SlotsOf(r, Home(a)) = SlotsOf(s, Home(a)) \cup {a}
  BY <1>1, <1>2, <1>3, <1>5, AttemptsAssumption DEF SlotsOf, Slotted
<1>7. ASSUME NEW p, p # Home(a) PROVE SlotsOf(r, p) = SlotsOf(s, p)
  <2>1. \A b \in Attempts : b # a => r.at[b] = s.at[b]
    BY <1>1, <1>2, <1>3, <1>5
  <2>2. Limited \subseteq Attempts
    BY AttemptsAssumption
  <2>3. \A b \in Limited : Home(b) = p => b # a
    BY <1>7
  <2> QED
    BY <2>1, <2>2, <2>3 DEF SlotsOf
<1>8. SlotsUpTo(r, {})
  <2>1. Cardinality(SlotsOf(r, Home(a))) = Cardinality(SlotsOf(s, Home(a))) + 1
    BY <1>6, HoldersFinite, FS_AddElement
  <2>2. ASSUME NEW p \in Partitions PROVE r.running[p] = Cardinality(SlotsOf(r, p))
    <3>1. /\ Cardinality(SlotsOf(s, p)) \in Nat
          /\ s.running[p] = Cardinality(SlotsOf(s, p))
      <4>1. Cardinality(SlotsOf(s, p)) \in Nat
        BY HoldersFinite
      <4>2. s.running[p] = Cardinality(SlotsOf(s, p)) + 0
        BY DEF SlotsUpTo
      <4> QED
        BY <4>1, <4>2
    <3>2. r.running = more
      BY <1>3, <1>5
    <3>3. CASE p = Home(a)
      BY <1>1, <1>2, <2>1, <3>1, <3>2, <3>3
    <3>4. CASE p # Home(a)
      BY <1>1, <1>2, <1>7, <3>1, <3>2, <3>4
    <3> QED
      BY <3>3, <3>4
  <2>3. \A p \in Partitions : Cardinality(SlotsOf(r, p)) \in Nat
    BY HoldersFinite
  <2> QED
    BY <2>2, <2>3 DEF SlotsUpTo
<1>9. Follows(s, r)
  BY <1>2, <1>3, <1>5 DEF Follows, PastQueues
<1> QED
  BY <1>1, <1>3, <1>5, <1>8, <1>9

(* A freed slot goes to the head of its queue in the same turn, if anybody *)
(* queues for it (_drainWaitQueue).                                        *)
LEMMA DrainSlotsKeeps ==
  ASSUME NEW s, Sound(s), LiveLines(s), NEW p \in Partitions,
         SlotsUpTo(s, {}), SlotsFull(s, {p}), PermitsUpTo(s, 0),
         s.slotQueue[p] # <<>> => s.running[p] + 1 >= Concurrency
  PROVE  LET r == DrainSlots(s, p)
         IN /\ Sound(r)
            /\ SlotsUpTo(r, {})
            /\ SlotsFull(r, {})
            /\ PermitsUpTo(r, 0)
            /\ Follows(s, r)
<1> DEFINE q == s.slotQueue[p]
           h == Head(q)
           left == [s EXCEPT !.slotQueue[p] = Tail(@)]
           r == Execute(left, h)
<1>1. /\ s \in Systems
      /\ s.running \in [Partitions -> Nat]
      /\ s.slotQueue \in [Partitions -> Seq(Limited)]
      /\ s.at \in [Attempts -> Places]
      /\ q \in Seq(Limited)
      /\ Lists(q, InLine(s, p))
      /\ \A u \in Partitions : Lists(s.slotQueue[u], InLine(s, u))
      /\ Concurrency \in Nat
  BY LimitsAssumption DEF Sound, Systems
<1>2. CASE ~(s.running[p] < Concurrency /\ q # <<>>)
  <2>1. DrainSlots(s, p) = s
    BY <1>2 DEF DrainSlots
  <2>2. SlotsFull(s, {})
    BY <1>1, <1>2 DEF SlotsFull
  <2>3. Follows(s, s)
    BY DEF Follows
  <2> QED
    BY <2>1, <2>2, <2>3
<1>3. CASE s.running[p] < Concurrency /\ q # <<>>
  <2>1. /\ Tail(q) \in Seq(Limited)
        /\ h \in Limited
        /\ h \in InLine(s, p)
        /\ Lists(Tail(q), InLine(s, p) \ {h})
    BY <1>1, <1>3, ListTail
  <2>2. /\ h \in Attempts
        /\ Home(h) = p
        /\ s.at[h] = "slotQueued"
        /\ h \notin aborted
    BY <2>1, AttemptsAssumption DEF InLine, LiveLines
  <2>3. DrainSlots(s, p) = r
    BY <1>3 DEF DrainSlots
  <2> DEFINE behind == [s.slotQueue EXCEPT ![p] = Tail(q)]
  <2>4. left \in [running : {s.running}, slotQueue : {behind}, sem : {s.sem}, at : {s.at}]
    BY <1>1 DEF Systems
  <2> HIDE DEF h, left, q
  <2>5. behind \in [Partitions -> Seq(Limited)]
    BY <1>1, <2>1
  <2> HIDE DEF behind
  <2>6. /\ left \in Systems
        /\ left.running = s.running
        /\ left.slotQueue = behind
        /\ left.sem = s.sem
        /\ left.at = s.at
    BY <1>1, <2>4, <2>5 DEF Systems
  <2>7. \A u \in Partitions : Lists(behind[u], InLine(s, u) \ {h})
    <3>1. Lists(behind[p], InLine(s, p) \ {h})
      BY <1>1, <2>1 DEF behind
    <3>2. ASSUME NEW u \in Partitions, u # p PROVE Lists(behind[u], InLine(s, u) \ {h})
      <4>1. InLine(s, u) \ {h} = InLine(s, u)
        BY <2>2, <3>2 DEF InLine
      <4>2. behind[u] = s.slotQueue[u]
        BY <1>1, <3>2 DEF behind
      <4> QED
        BY <1>1, <4>1, <4>2
    <3> QED
      BY <3>1, <3>2
  <2>8. Lists(left.sem.waitQueue, Waiters(left) \ {h})
    <3>1. Waiters(left) \ {h} = Waiters(s)
      BY <2>2, <2>6 DEF Waiters
    <3> QED
      BY <2>6, <3>1 DEF Sound
  <2>9. /\ SoundBut(left, {h})
        /\ SlotsUpTo(left, {})
        /\ PermitsUpTo(left, 0)
    <3>1. \A u : InLine(left, u) = InLine(s, u) /\ SlotsOf(left, u) = SlotsOf(s, u)
      BY <2>6 DEF InLine, SlotsOf
    <3>2. PermitsOf(left) = PermitsOf(s)
      BY <2>6 DEF PermitsOf
    <3>3. SoundBut(left, {h})
      BY <2>6, <2>7, <2>8, <3>1 DEF SoundBut, Sound
    <3> QED
      BY <2>6, <3>1, <3>2, <3>3 DEF SlotsUpTo, PermitsUpTo
  <2>10. /\ Sound(r)
         /\ SlotsUpTo(r, {})
         /\ PermitsUpTo(r, 0)
         /\ r.running = [left.running EXCEPT ![Home(h)] = @ + 1]
         /\ r.slotQueue = left.slotQueue
         /\ Follows(left, r)
    BY <2>1, <2>2, <2>6, <2>9, ExecuteKeeps
  <2> HIDE DEF r
  <2>11. SlotsFull(r, {})
    <3>1. ASSUME NEW u \in Partitions, u # p
          PROVE  r.running[u] = s.running[u] /\ r.slotQueue[u] = s.slotQueue[u]
      BY <1>1, <2>2, <2>6, <2>10, <3>1 DEF behind
    <3>2. r.running[p] = s.running[p] + 1 /\ s.running[p] \in Nat
      BY <1>1, <2>2, <2>6, <2>10
    <3>3. r.running[p] = Concurrency
      BY <1>1, <1>3, <3>2 DEF q
    <3> QED
      BY <1>1, <3>1, <3>3 DEF SlotsFull
  <2>12. Follows(s, r)
    BY <2>6, <2>10 DEF Follows
  <2> QED
    BY <2>3, <2>10, <2>11, <2>12
<1> QED
  BY <1>2, <1>3

(* A slot given back is taken off the count, and goes to the queue.        *)
LEMMA ReleaseSlotKeeps ==
  ASSUME NEW s, Sound(s), LiveLines(s), NEW p \in Partitions,
         SlotsUpTo(s, {p}), SlotsFull(s, {}), PermitsUpTo(s, 0)
  PROVE  LET r == ReleaseSlot(s, p)
         IN /\ Sound(r)
            /\ SlotsUpTo(r, {})
            /\ SlotsFull(r, {})
            /\ PermitsUpTo(r, 0)
            /\ Follows(s, r)
<1> DEFINE less == [s.running EXCEPT ![p] = @ - 1]
           freed == [s EXCEPT !.running[p] = @ - 1]
<1>1. /\ s \in Systems
      /\ s.running \in [Partitions -> Nat]
      /\ Concurrency \in Nat
      /\ ReleaseSlot(s, p) = DrainSlots(freed, p)
  BY LimitsAssumption DEF Sound, Systems, ReleaseSlot
<1>2. /\ s.running[p] = Cardinality(SlotsOf(s, p)) + 1
      /\ \A u \in Partitions : u # p => s.running[u] = Cardinality(SlotsOf(s, u)) + 0
      /\ \A u \in Partitions : Cardinality(SlotsOf(s, u)) \in Nat
  BY HoldersFinite DEF SlotsUpTo
<1>3. /\ less \in [Partitions -> Nat]
      /\ less[p] = s.running[p] - 1
      /\ \A u \in Partitions : u # p => less[u] = s.running[u]
  BY <1>1, <1>2
<1>4. freed \in [running : {less}, slotQueue : {s.slotQueue}, sem : {s.sem}, at : {s.at}]
  BY <1>1 DEF Systems
<1> HIDE DEF less, freed
<1>5. /\ freed \in Systems
      /\ freed.running = less
      /\ freed.slotQueue = s.slotQueue
      /\ freed.sem = s.sem
      /\ freed.at = s.at
  BY <1>1, <1>3, <1>4 DEF Systems
<1>6. Sound(freed) /\ LiveLines(freed) /\ PermitsUpTo(freed, 0)
  BY <1>5 DEF Sound, LiveLines, InLine, Waiters, PermitsUpTo, PermitsOf
<1>7. SlotsUpTo(freed, {})
  <2>1. \A u : SlotsOf(freed, u) = SlotsOf(s, u)
    BY <1>5 DEF SlotsOf
  <2>2. \A u \in Partitions : less[u] = Cardinality(SlotsOf(s, u)) + 0
    BY <1>1, <1>2, <1>3
  <2> QED
    BY <1>5, <2>1, <2>2 DEF SlotsUpTo
<1>8. /\ SlotsFull(freed, {p})
      /\ freed.slotQueue[p] # <<>> => freed.running[p] + 1 >= Concurrency
  BY <1>1, <1>3, <1>5 DEF SlotsFull
<1>9. LET r == DrainSlots(freed, p)
      IN /\ Sound(r)
         /\ SlotsUpTo(r, {})
         /\ SlotsFull(r, {})
         /\ PermitsUpTo(r, 0)
         /\ Follows(freed, r)
  BY <1>6, <1>7, <1>8, DrainSlotsKeeps
<1> QED
  BY <1>1, <1>5, <1>9 DEF Follows

-----------------------------------------------------------------------------
(* The invariant *)

IInv ==
  /\ TypeOK
  /\ CapacityConserved
  /\ Len(sem.waitQueue) <= GlobalQueueSize

\* The same, of the fields that the calls work on.
Balanced(s) ==
  Sound(s) /\ SlotsUpTo(s, {}) /\ SlotsFull(s, {}) /\ PermitsUpTo(s, 0)

(* The operators on records see the state.                                 *)
LEMMA OfSystem ==
  /\ System.running = running
  /\ System.slotQueue = slotQueue
  /\ System.sem = sem
  /\ System.at = at
  /\ \A p : SlotsOf(System, p) = SlotHolders(p)
  /\ PermitsOf(System) = PermitHolders
BY DEF System, SlotsOf, SlotHolders, PermitsOf, PermitHolders, Slotted

(* Between turns the invariant is what the calls need.                     *)
LEMMA IInvIsBalanced ==
  ASSUME IInv
  PROVE  /\ Balanced(System)
         /\ LiveLines(System)
         /\ aborted \subseteq {a \in Attempts : at[a] \in {"granted", "refused", "running"}}
<1>1. TypeOK /\ SlotsConserved /\ PermitsConserved /\ WorkConserving
  BY DEF IInv, CapacityConserved
<1>2. System \in Systems
  <2>1. /\ running \in [Partitions -> Nat]
        /\ slotQueue \in [Partitions -> Seq(Limited)]
        /\ sem \in [available : Nat, waitQueue : Seq(Attempts)]
        /\ at \in [Attempts -> Places]
    BY <1>1, LimitsAssumption DEF TypeOK
  <2> QED
    BY <2>1 DEF System, Systems
<1>3. IsSem(sem)
  <2>1. /\ sem \in [available : Nat, waitQueue : Seq(Attempts)]
        /\ sem.waitQueue # <<>> => sem.available = 0
        /\ Len(sem.waitQueue) <= GlobalQueueSize
    BY <1>1, LimitsAssumption DEF TypeOK, WorkConserving, IInv
  <2> QED
    BY <2>1 DEF IsSem
<1>4. /\ \A p \in Partitions : Lists(slotQueue[p], InLine(System, p))
      /\ Lists(sem.waitQueue, Waiters(System))
  BY <1>1, OfSystem DEF TypeOK, Lists, InLine, Waiters
<1>5. Sound(System)
  BY <1>2, <1>3, <1>4, OfSystem DEF Sound
<1>6. SlotsUpTo(System, {})
  <2>1. \A p \in Partitions : Cardinality(SlotHolders(p)) \in Nat
    BY OfSystem, HoldersFinite
  <2> QED
    BY <1>1, <2>1, OfSystem DEF SlotsUpTo, SlotsConserved
<1>7. SlotsFull(System, {})
  BY <1>1, OfSystem, LimitsAssumption DEF SlotsFull, WorkConserving, TypeOK
<1>8. PermitsUpTo(System, 0)
  <2>1. Cardinality(PermitHolders) \in Nat /\ sem.available \in Nat
    BY <1>3, OfSystem, HoldersFinite DEF IsSem
  <2> QED
    BY <1>1, <2>1, OfSystem DEF PermitsUpTo, PermitsConserved
<1>9. /\ LiveLines(System)
      /\ aborted \subseteq {a \in Attempts : at[a] \in {"granted", "refused", "running"}}
  BY <1>1, OfSystem DEF LiveLines, TypeOK
<1> QED
  BY <1>5, <1>6, <1>7, <1>8, <1>9 DEF Balanced

(* A turn that ends balanced ends in the invariant.                        *)
LEMMA BalancedIsIInv ==
  ASSUME NEW s, Balanced(s), Become(s),
         aborted' \subseteq {a \in Attempts : s.at[a] \in {"granted", "refused", "running"}}
  PROVE  IInv'
<1>1. running' = s.running /\ slotQueue' = s.slotQueue /\ sem' = s.sem /\ at' = s.at
  BY DEF Become
<1>2. /\ \A p : SlotsOf(s, p) = SlotHolders(p)'
      /\ PermitsOf(s) = PermitHolders'
  BY <1>1 DEF SlotsOf, SlotHolders, PermitsOf, PermitHolders, Slotted
<1>3. /\ Sound(s) /\ SlotsUpTo(s, {}) /\ SlotsFull(s, {}) /\ PermitsUpTo(s, 0)
      /\ s.running \in [Partitions -> Nat]
      /\ s.slotQueue \in [Partitions -> Seq(Limited)]
      /\ s.at \in [Attempts -> Places]
      /\ IsSem(s.sem)
      /\ s.sem.available \in Nat
      /\ Cardinality(PermitsOf(s)) \in Nat
      /\ Concurrency \in Nat /\ Permits \in Nat
  BY HoldersFinite, LimitsAssumption DEF Balanced, Sound, Systems, IsSem
<1>4. TypeOK'
  <2>1. s.running \in [Partitions -> 0..Concurrency]
    BY <1>3 DEF SlotsFull
  <2>2. s.sem \in [available : 0..Permits, waitQueue : Seq(Attempts)]
    <3>1. s.sem.available + Cardinality(PermitsOf(s)) + 0 = Permits
      BY <1>3 DEF PermitsUpTo
    <3>2. s.sem.available \in 0..Permits
      BY <1>3, <3>1
    <3> QED
      BY <1>3, <3>2 DEF IsSem
  <2>3. /\ \A p \in Partitions :
             /\ IsInjective(s.slotQueue[p])
             /\ ToSet(s.slotQueue[p])
                  = {a \in Limited : Home(a) = p /\ s.at[a] = "slotQueued"}
        /\ IsInjective(s.sem.waitQueue)
        /\ ToSet(s.sem.waitQueue) = {a \in Attempts : s.at[a] = "waiting"}
    BY <1>3 DEF Sound, Lists, InLine, Waiters
  <2> QED
    BY <1>1, <1>3, <2>1, <2>2, <2>3 DEF TypeOK
<1>5. SlotsConserved'
  <2>1. \A p \in Partitions : s.running[p] = Cardinality(SlotsOf(s, p)) + 0
    BY <1>3 DEF SlotsUpTo
  <2>2. ASSUME NEW p \in Partitions PROVE s.running[p] = Cardinality(SlotsOf(s, p))
    <3>1. Cardinality(SlotsOf(s, p)) \in Nat
      BY HoldersFinite
    <3> QED
      BY <2>1, <3>1
  <2> QED
    BY <1>1, <1>2, <2>2 DEF SlotsConserved
<1>6. PermitsConserved'
  BY <1>1, <1>2, <1>3 DEF PermitsConserved, PermitsUpTo
<1>7. WorkConserving'
  BY <1>1, <1>3 DEF WorkConserving, SlotsFull, IsSem
<1> QED
  BY <1>1, <1>3, <1>4, <1>5, <1>6, <1>7 DEF IInv, CapacityConserved, IsSem

-----------------------------------------------------------------------------
(* What each action keeps *)

\* The turn ends balanced, its aborts are of attempts in no slot queue, and
\* whoever the semaphore refused in it was refused by a saturated one.
TurnKeeps ==
  /\ IInv'
  /\ \A b \in Attempts \ aborted' :
       (at'[b] = "refused" /\ at[b] # "refused") =>
         /\ sem'.available = 0
         /\ Len(sem'.waitQueue) = GlobalQueueSize

(* What a turn becomes is kept, if what it refuses is accounted for.       *)
LEMMA TurnOf ==
  ASSUME NEW s, Balanced(s), Become(s), NEW from, Follows(from, s),
         \A b \in Attempts : from.at[b] = "refused" => at[b] = "refused",
         \A b \in aborted' : b \in Attempts /\ s.at[b] \in PastQueues
  PROVE  TurnKeeps
<1>1. IInv'
  BY BalancedIsIInv DEF PastQueues
<1>2. sem' = s.sem /\ at' = s.at
  BY DEF Become
<1> QED
  BY <1>1, <1>2 DEF TurnKeeps, Follows

(* An attempt that ends leaves its slot and its permit to be given back.   *)
LEMMA EndedOwes ==
  ASSUME NEW s, Balanced(s), NEW a \in Attempts, s.at[a] \in {"running", "refused"}
  PROVE  LET r == Ended(s, a)
         IN /\ SlotsUpTo(r, IF a \in Limited THEN {Home(a)} ELSE {})
            /\ SlotsFull(r, {})
            /\ PermitsUpTo(r, IF s.at[a] = "running" THEN 1 ELSE 0)
<1> DEFINE r == Ended(s, a)
           owed == IF a \in Limited THEN {Home(a)} ELSE {}
<1>1. /\ Sound(s) /\ SlotsUpTo(s, {}) /\ SlotsFull(s, {}) /\ PermitsUpTo(s, 0)
      /\ s.sem.available \in Nat
  BY DEF Balanced, Sound, IsSem
<1>2. /\ r.running = s.running
      /\ r.slotQueue = s.slotQueue
      /\ r.sem = s.sem
      /\ \A p : SlotsOf(r, p) = SlotsOf(s, p) \ {a}
      /\ PermitsOf(r) = PermitsOf(s) \ {a}
  BY <1>1, EndedKeeps
<1> HIDE DEF r
<1>3. ASSUME NEW p \in Partitions
      PROVE  s.running[p] = Cardinality(SlotsOf(r, p)) + IF p \in owed THEN 1 ELSE 0
  <2>1. /\ s.running[p] = Cardinality(SlotsOf(s, p)) + 0
        /\ IsFiniteSet(SlotsOf(s, p))
        /\ Cardinality(SlotsOf(s, p)) \in Nat
    BY <1>1, HoldersFinite DEF SlotsUpTo
  <2>2. CASE a \in Limited /\ p = Home(a)
    <3>1. a \in SlotsOf(s, p)
      BY <2>2 DEF SlotsOf, Slotted
    <3>2. Cardinality(SlotsOf(s, p) \ {a}) = Cardinality(SlotsOf(s, p)) - 1
      BY <2>1, <3>1, FS_RemoveElement
    <3>3. p \in owed
      BY <2>2
    <3>4. Cardinality(SlotsOf(r, p)) = Cardinality(SlotsOf(s, p)) - 1
      BY <1>2, <3>2
    <3> HIDE DEF owed
    <3> QED
      BY <2>1, <3>3, <3>4
  <2>3. CASE ~(a \in Limited /\ p = Home(a))
    <3>1. SlotsOf(s, p) \ {a} = SlotsOf(s, p)
      BY <2>3 DEF SlotsOf
    <3>2. p \notin owed
      BY <2>3
    <3> HIDE DEF owed
    <3> QED
      BY <1>2, <2>1, <3>1, <3>2
  <2> QED
    BY <2>2, <2>3
<1>4. PermitsUpTo(r, IF s.at[a] = "running" THEN 1 ELSE 0)
  <2>1. /\ s.sem.available + Cardinality(PermitsOf(s)) + 0 = Permits
        /\ IsFiniteSet(PermitsOf(s))
        /\ Cardinality(PermitsOf(s)) \in Nat
    BY <1>1, HoldersFinite DEF PermitsUpTo
  <2>2. CASE s.at[a] = "running"
    <3>1. a \in PermitsOf(s)
      BY <2>2 DEF PermitsOf
    <3>2. Cardinality(PermitsOf(s) \ {a}) = Cardinality(PermitsOf(s)) - 1
      BY <2>1, <3>1, FS_RemoveElement
    <3> QED
      BY <1>1, <1>2, <2>1, <2>2, <3>2 DEF PermitsUpTo
  <2>3. CASE s.at[a] = "refused"
    <3>1. PermitsOf(s) \ {a} = PermitsOf(s)
      BY <2>3 DEF PermitsOf
    <3> QED
      BY <1>1, <1>2, <2>1, <2>3, <3>1 DEF PermitsUpTo
  <2> QED
    BY <2>2, <2>3
<1>5. SlotsFull(r, {})
  BY <1>1, <1>2 DEF SlotsFull
<1>6. SlotsUpTo(r, owed)
  BY <1>2, <1>3 DEF SlotsUpTo
<1> QED
  BY <1>4, <1>5, <1>6 DEF r

(* An attempt that needs a slot takes a free one, or queues.               *)
LEMMA RunWithSlotKeeps ==
  ASSUME IInv, NEW a \in Attempts, at[a] = "idle", a \notin aborted, RunWithSlot(a),
         UNCHANGED aborted
  PROVE  TurnKeeps
<1>1. /\ Balanced(System)
      /\ Sound(System)
      /\ \A b \in aborted : b \in Attempts /\ at[b] \in PastQueues
      /\ a \in Limited
      /\ Home(a) \in Partitions
      /\ at \in [Attempts -> Places]
      /\ slotQueue \in [Partitions -> Seq(Limited)]
      /\ running \in [Partitions -> Nat]
      /\ Concurrency \in Nat
  BY IInvIsBalanced, OfSystem, AttemptsAssumption, LimitsAssumption
  DEF Balanced, Sound, Systems, RunWithSlot, Home, PastQueues
<1>2. CASE running[Home(a)] < Concurrency
  <2> DEFINE r == Execute(System, a)
  <2>1. Become(r)
    BY <1>2 DEF RunWithSlot
  <2>2. SoundBut(System, {a})
    <3>1. /\ \A p : InLine(System, p) \ {a} = InLine(System, p)
          /\ Waiters(System) \ {a} = Waiters(System)
      BY OfSystem DEF InLine, Waiters
    <3> QED
      BY <1>1, <3>1 DEF Sound, SoundBut
  <2>3. /\ Sound(r)
        /\ SlotsUpTo(r, {})
        /\ PermitsUpTo(r, 0)
        /\ r.running = [running EXCEPT ![Home(a)] = @ + 1]
        /\ r.slotQueue = slotQueue
        /\ Follows(System, r)
    BY <1>1, <2>2, OfSystem, ExecuteKeeps DEF Balanced
  <2> HIDE DEF r
  <2>4. SlotsFull(r, {})
    BY <1>1, <1>2, <2>3, OfSystem DEF SlotsFull, Balanced
  <2>5. \A b \in aborted' : b \in Attempts /\ r.at[b] \in PastQueues
    BY <1>1, <2>3, OfSystem DEF Follows
  <2> QED
    BY <2>1, <2>3, <2>4, <2>5, OfSystem, TurnOf DEF Balanced
<1>3. CASE ~(running[Home(a)] < Concurrency)
  <2> DEFINE longer == [slotQueue EXCEPT ![Home(a)] = Append(@, a)]
             there == [at EXCEPT ![a] = "slotQueued"]
             r == [running |-> running, slotQueue |-> longer, sem |-> sem, at |-> there]
  <2>1. Become(r)
    BY <1>3 DEF RunWithSlot, Become
  <2>2. a \notin InLine(System, Home(a)) /\ Lists(slotQueue[Home(a)], InLine(System, Home(a)))
    BY <1>1, OfSystem DEF InLine, Sound
  <2>3. /\ Append(slotQueue[Home(a)], a) \in Seq(Limited)
        /\ Lists(Append(slotQueue[Home(a)], a), InLine(System, Home(a)) \cup {a})
    BY <1>1, <2>2, ListAppend
  <2>4. /\ r.running = running /\ r.slotQueue = longer /\ r.sem = sem /\ r.at = there
        /\ r \in Systems
    BY <1>1, <2>3, OfSystem DEF Sound, Systems, Places
  <2> HIDE DEF r
  <2>5. ASSUME NEW p \in Partitions PROVE Lists(longer[p], InLine(r, p))
    <3>1. CASE p = Home(a)
      <4>1. InLine(r, p) = InLine(System, p) \cup {a}
        BY <1>1, <2>4, <3>1, OfSystem, AttemptsAssumption DEF InLine
      <4> QED
        BY <1>1, <2>3, <3>1, <4>1
    <3>2. CASE p # Home(a)
      <4>1. InLine(r, p) = InLine(System, p)
        BY <1>1, <2>4, <3>2, OfSystem, AttemptsAssumption DEF InLine
      <4> QED
        BY <1>1, <3>2, <4>1, OfSystem DEF Sound
    <3> QED
      BY <3>1, <3>2
  <2>6. /\ Waiters(r) = Waiters(System)
        /\ PermitsOf(r) = PermitsOf(System)
        /\ \A p : SlotsOf(r, p) = SlotsOf(System, p)
    BY <1>1, <2>4, OfSystem, AttemptsAssumption DEF Waiters, PermitsOf, SlotsOf, Slotted
  <2>7. Sound(r)
    BY <1>1, <2>4, <2>5, <2>6, OfSystem DEF Sound
  <2>8. SlotsUpTo(r, {}) /\ PermitsUpTo(r, 0)
    BY <1>1, <2>4, <2>6, OfSystem DEF Balanced, SlotsUpTo, PermitsUpTo
  <2>9. SlotsFull(r, {})
    BY <1>1, <1>3, <2>4, OfSystem DEF Balanced, SlotsFull
  <2>10. Follows(System, r)
    BY <1>1, <2>4, OfSystem DEF Follows, PastQueues
  <2>11. \A b \in aborted' : b \in Attempts /\ r.at[b] \in PastQueues
    BY <1>1, <2>10, OfSystem DEF Follows
  <2> QED
    BY <2>1, <2>7, <2>8, <2>9, <2>10, <2>11, OfSystem, TurnOf DEF Balanced
<1> QED
  BY <1>2, <1>3

(* An attempt that needs no slot takes a free permit, or queues for one.   *)
LEMMA RunWithoutSlotKeeps ==
  ASSUME IInv, NEW a \in Attempts, at[a] = "idle", a \notin aborted, RunWithoutSlot(a),
         UNCHANGED aborted
  PROVE  TurnKeeps
<1> DEFINE r == AcquirePermit(System, a)
<1>1. /\ Balanced(System)
      /\ Sound(System)
      /\ \A b \in aborted : b \in Attempts /\ at[b] \in PastQueues
      /\ a \notin Limited
      /\ at \in [Attempts -> Places]
      /\ Become(r)
  BY IInvIsBalanced, OfSystem DEF Balanced, Sound, Systems, RunWithoutSlot, PastQueues
<1>2. SoundBut(System, {a})
  <2>1. /\ \A p : InLine(System, p) \ {a} = InLine(System, p)
        /\ Waiters(System) \ {a} = Waiters(System)
    BY OfSystem DEF InLine, Waiters
  <2> QED
    BY <1>1, <2>1 DEF Sound, SoundBut
<1>3. /\ Sound(r)
      /\ r.running = running
      /\ r.slotQueue = slotQueue
      /\ r.at[a] \in {"granted", "waiting", "refused"}
      /\ r.at = [at EXCEPT ![a] = r.at[a]]
      /\ PermitsUpTo(r, 0)
      /\ r.at[a] = "refused" => /\ r.sem.available = 0
                                /\ Len(r.sem.waitQueue) = GlobalQueueSize
  BY <1>1, <1>2, OfSystem, AcquirePermitKeeps DEF Balanced
<1> HIDE DEF r
<1>4. \A p : SlotsOf(r, p) = SlotsOf(System, p)
  BY <1>1, <1>3, OfSystem, AttemptsAssumption DEF SlotsOf
<1>5. SlotsUpTo(r, {}) /\ SlotsFull(r, {})
  BY <1>1, <1>3, <1>4, OfSystem DEF Balanced, SlotsUpTo, SlotsFull
<1>6. Follows(System, r)
  BY <1>1, <1>3, OfSystem DEF Follows, PastQueues
<1>7. \A b \in aborted' : b \in Attempts /\ r.at[b] \in PastQueues
  BY <1>1, <1>6, OfSystem DEF Follows
<1> QED
  BY <1>1, <1>3, <1>5, <1>6, <1>7, OfSystem, TurnOf DEF Balanced

(* run() resumes with a rejection: the slot it held goes to the queue.     *)
LEMMA RefusedKeeps ==
  ASSUME IInv, NEW a \in Attempts, Refused(a)
  PROVE  TurnKeeps
<1> DEFINE gone == Ended(System, a)
           r == IF a \in Limited THEN ReleaseSlot(gone, Home(a)) ELSE gone
<1>1. /\ Balanced(System)
      /\ Sound(System)
      /\ LiveLines(System)
      /\ \A b \in aborted : b \in Attempts /\ at[b] \in PastQueues
      /\ aborted' = aborted \ {a}
      /\ at[a] = "refused"
      /\ Home(a) \in Partitions
      /\ at \in [Attempts -> Places]
      /\ Become(r)
  BY IInvIsBalanced, OfSystem, AttemptsAssumption
  DEF Balanced, Sound, Systems, Refused, Home, PastQueues
<1>2. /\ Sound(gone)
      /\ gone.at = [at EXCEPT ![a] = "idle"]
  BY <1>1, OfSystem, EndedKeeps
<1>3. /\ SlotsUpTo(gone, IF a \in Limited THEN {Home(a)} ELSE {})
      /\ SlotsFull(gone, {})
      /\ PermitsUpTo(gone, 0)
  BY <1>1, OfSystem, EndedOwes
<1> HIDE DEF gone
<1>4. /\ LiveLines(gone)
      /\ \A b \in aborted' : b \in Attempts /\ gone.at[b] \in PastQueues
  BY <1>1, <1>2, OfSystem DEF LiveLines
<1>5. Balanced(r) /\ Follows(gone, r)
  <2>1. CASE a \in Limited
    BY <1>1, <1>2, <1>3, <1>4, <2>1, ReleaseSlotKeeps DEF Balanced
  <2>2. CASE a \notin Limited
    BY <1>2, <1>3, <2>2 DEF Balanced, Follows
  <2> QED
    BY <2>1, <2>2
<1> HIDE DEF r
<1>6. \A b \in aborted' : b \in Attempts /\ r.at[b] \in PastQueues
  BY <1>4, <1>5 DEF Follows
<1>7. \A b \in Attempts : gone.at[b] = "refused" => at[b] = "refused"
  BY <1>1, <1>2
<1> QED
  BY <1>1, <1>5, <1>6, <1>7, TurnOf

(* The task settled: its permit goes to the semaphore's queue and then its *)
(* slot to its partition's.                                                *)
LEMMA FinishKeeps ==
  ASSUME IInv, NEW a \in Attempts, Finish(a)
  PROVE  TurnKeeps
<1> DEFINE gone == Ended(System, a)
           given == ReleasePermit(gone)
           r == IF a \in Limited THEN ReleaseSlot(given, Home(a)) ELSE given
<1>1. /\ Balanced(System)
      /\ Sound(System)
      /\ LiveLines(System)
      /\ \A b \in aborted : b \in Attempts /\ at[b] \in PastQueues
      /\ aborted' = aborted \ {a}
      /\ at[a] = "running"
      /\ Home(a) \in Partitions
      /\ at \in [Attempts -> Places]
      /\ Become(r)
  BY IInvIsBalanced, OfSystem, AttemptsAssumption
  DEF Balanced, Sound, Systems, Finish, Home, PastQueues
<1>2. /\ Sound(gone)
      /\ gone.at = [at EXCEPT ![a] = "idle"]
      /\ gone.running = running
      /\ gone.slotQueue = slotQueue
  BY <1>1, OfSystem, EndedKeeps
<1>3. /\ SlotsUpTo(gone, IF a \in Limited THEN {Home(a)} ELSE {})
      /\ SlotsFull(gone, {})
      /\ PermitsUpTo(gone, 1)
  BY <1>1, OfSystem, EndedOwes
<1> HIDE DEF gone
<1>4. /\ Sound(given)
      /\ given.running = gone.running
      /\ given.slotQueue = gone.slotQueue
      /\ \A p : SlotsOf(given, p) = SlotsOf(gone, p)
      /\ PermitsUpTo(given, 0)
      /\ \A b \in Attempts : given.at[b] = gone.at[b] \/ given.at[b] = "granted"
  BY <1>2, <1>3, ReleasePermitKeeps
<1> HIDE DEF given
<1>5. /\ SlotsUpTo(given, IF a \in Limited THEN {Home(a)} ELSE {})
      /\ SlotsFull(given, {})
  BY <1>3, <1>4 DEF SlotsUpTo, SlotsFull
<1>6. /\ LiveLines(given)
      /\ \A b \in aborted' : b \in Attempts /\ given.at[b] \in PastQueues
      /\ \A b \in Attempts : given.at[b] = "refused" => at[b] = "refused"
  BY <1>1, <1>2, <1>4, OfSystem DEF LiveLines, PastQueues
<1>7. Balanced(r) /\ Follows(given, r)
  <2>1. CASE a \in Limited
    BY <1>1, <1>4, <1>5, <1>6, <2>1, ReleaseSlotKeeps DEF Balanced
  <2>2. CASE a \notin Limited
    BY <1>4, <1>5, <2>2 DEF Balanced, Follows
  <2> QED
    BY <2>1, <2>2
<1> HIDE DEF r
<1>8. \A b \in aborted' : b \in Attempts /\ r.at[b] \in PastQueues
  BY <1>6, <1>7 DEF Follows
<1> QED
  BY <1>1, <1>6, <1>7, <1>8, TurnOf

(* run() resumes with its permit: the holder goes on holding.              *)
LEMMA StartKeeps ==
  ASSUME IInv, NEW a \in Attempts, Start(a)
  PROVE  TurnKeeps
<1> DEFINE there == [at EXCEPT ![a] = "running"]
           r == [running |-> running, slotQueue |-> slotQueue, sem |-> sem, at |-> there]
<1>1. /\ Balanced(System)
      /\ Sound(System)
      /\ \A b \in aborted : b \in Attempts /\ at[b] \in PastQueues
      /\ aborted' = aborted
      /\ at[a] = "granted"
      /\ at \in [Attempts -> Places]
      /\ Become(r)
  BY IInvIsBalanced, OfSystem DEF Balanced, Sound, Systems, Start, Become, PastQueues
<1>2. /\ r.running = running /\ r.slotQueue = slotQueue /\ r.sem = sem /\ r.at = there
      /\ r \in Systems
  BY <1>1, OfSystem DEF Sound, Systems, Places
<1> HIDE DEF r
<1>3. /\ \A p : InLine(r, p) = InLine(System, p)
      /\ \A p : SlotsOf(r, p) = SlotsOf(System, p)
      /\ Waiters(r) = Waiters(System)
      /\ PermitsOf(r) = PermitsOf(System)
  BY <1>1, <1>2, OfSystem, AttemptsAssumption DEF InLine, SlotsOf, Slotted, Waiters, PermitsOf
<1>4. Balanced(r)
  BY <1>1, <1>2, <1>3, OfSystem DEF Balanced, Sound, SlotsUpTo, SlotsFull, PermitsUpTo
<1>5. Follows(System, r) /\ \A b \in aborted' : b \in Attempts /\ r.at[b] \in PastQueues
  BY <1>1, <1>2, OfSystem DEF Follows, PastQueues
<1> QED
  BY <1>1, <1>4, <1>5, OfSystem, TurnOf

(* An attempt whose signal fires in a slot queue leaves it at once.        *)
LEMMA LeaveSlotQueueKeeps ==
  ASSUME IInv, NEW a \in Attempts, LeaveSlotQueue(a)
  PROVE  TurnKeeps
<1>1. /\ Balanced(System)
      /\ Sound(System)
      /\ \A b \in aborted : b \in Attempts /\ at[b] \in PastQueues
      /\ aborted' = aborted
      /\ at[a] = "slotQueued"
      /\ Home(a) \in Partitions
      /\ at \in [Attempts -> Places]
      /\ slotQueue \in [Partitions -> Seq(Limited)]
  BY IInvIsBalanced, OfSystem, AttemptsAssumption
  DEF Balanced, Sound, Systems, LeaveSlotQueue, Home, PastQueues
<1> DEFINE q == slotQueue[Home(a)]
<1>2. PICK i \in DOMAIN q : /\ q[i] = a
                            /\ slotQueue' = [slotQueue EXCEPT ![Home(a)] = RemoveAt(@, i)]
  BY DEF LeaveSlotQueue
<1> DEFINE shorter == [slotQueue EXCEPT ![Home(a)] = RemoveAt(@, i)]
           there == [at EXCEPT ![a] = "idle"]
           r == [running |-> running, slotQueue |-> shorter, sem |-> sem, at |-> there]
<1>3. Become(r)
  BY <1>2 DEF LeaveSlotQueue, Become
<1>4. /\ q \in Seq(Limited)
      /\ Lists(q, InLine(System, Home(a)))
      /\ i \in DOMAIN q
  BY <1>1, <1>2, OfSystem DEF Sound
<1>5. /\ RemoveAt(q, i) \in Seq(Limited)
      /\ Len(RemoveAt(q, i)) = Len(q) - 1
      /\ a \in Limited
      /\ Lists(RemoveAt(q, i), InLine(System, Home(a)) \ {a})
  <2> HIDE DEF q
  <2> QED
    BY <1>2, <1>4, ListRemoveAt
<1>6. /\ r.running = running /\ r.slotQueue = shorter /\ r.sem = sem /\ r.at = there
      /\ r \in Systems
  BY <1>1, <1>5, OfSystem DEF Sound, Systems, Places
<1> HIDE DEF r
<1>7. ASSUME NEW p \in Partitions PROVE Lists(shorter[p], InLine(r, p))
  <2>1. CASE p = Home(a)
    <3>1. InLine(r, p) = InLine(System, p) \ {a}
      BY <1>1, <1>6, <2>1, OfSystem, AttemptsAssumption DEF InLine
    <3> QED
      BY <1>1, <1>5, <2>1, <3>1
  <2>2. CASE p # Home(a)
    <3>1. InLine(r, p) = InLine(System, p)
      BY <1>1, <1>6, <2>2, OfSystem, AttemptsAssumption DEF InLine
    <3> QED
      BY <1>1, <2>2, <3>1, OfSystem DEF Sound
  <2> QED
    BY <2>1, <2>2
<1>8. /\ Waiters(r) = Waiters(System)
      /\ PermitsOf(r) = PermitsOf(System)
      /\ \A p : SlotsOf(r, p) = SlotsOf(System, p)
  BY <1>1, <1>6, OfSystem, AttemptsAssumption DEF Waiters, PermitsOf, SlotsOf, Slotted
<1>9. Sound(r)
  BY <1>1, <1>6, <1>7, <1>8, OfSystem DEF Sound
<1>10. SlotsUpTo(r, {}) /\ PermitsUpTo(r, 0)
  BY <1>1, <1>6, <1>8, OfSystem DEF Balanced, SlotsUpTo, PermitsUpTo
<1>11. SlotsFull(r, {})
  <2>1. q # <<>>
    BY <1>4
  <2>2. \A p \in Partitions : shorter[p] # <<>> => slotQueue[p] # <<>>
    BY <1>1, <2>1
  <2> HIDE DEF shorter
  <2> QED
    BY <1>1, <1>6, <2>2, OfSystem DEF Balanced, SlotsFull
<1>12. Follows(System, r) /\ \A b \in aborted' : b \in Attempts /\ r.at[b] \in PastQueues
  BY <1>1, <1>6, OfSystem DEF Follows, PastQueues
<1> QED
  BY <1>3, <1>9, <1>10, <1>11, <1>12, OfSystem, TurnOf DEF Balanced

(* An attempt whose signal fires in the semaphore's queue leaves it, and   *)
(* keeps its slot until run() resumes; it is aborted, and so no live       *)
(* attempt is refused.                                                     *)
LEMMA LeavePermitQueueKeeps ==
  ASSUME IInv, NEW a \in Attempts, LeavePermitQueue(a)
  PROVE  TurnKeeps
<1>1. /\ Balanced(System)
      /\ Sound(System)
      /\ IsSem(sem)
      /\ sem.waitQueue \in Seq(Attempts)
      /\ \A b \in aborted : b \in Attempts /\ at[b] \in PastQueues
      /\ aborted' = aborted \cup {a}
      /\ at[a] = "waiting"
      /\ at \in [Attempts -> Places]
  BY IInvIsBalanced, OfSystem DEF Balanced, Sound, Systems, IsSem, LeavePermitQueue, PastQueues
<1> DEFINE q == sem.waitQueue
<1>2. PICK i \in DOMAIN q : q[i] = a /\ sem' = Sem!Abandon(sem, i)
  BY DEF LeavePermitQueue
<1> DEFINE x == [available |-> sem.available, waitQueue |-> RemoveAt(q, i)]
           there == [at EXCEPT ![a] = "refused"]
           r == [running |-> running, slotQueue |-> slotQueue, sem |-> x, at |-> there]
<1>3. Sem!Abandon(sem, i) = x
  <2>1. Sem!RemoveAt(q, i) = RemoveAt(q, i)
    BY DEF Sem!RemoveAt, RemoveAt
  <2>2. Sem!Abandon(sem, i) = [sem EXCEPT !.waitQueue = RemoveAt(q, i)]
    BY <2>1 DEF Sem!Abandon
  <2> QED
    BY <1>1, <2>2 DEF IsSem
<1>4. Become(r)
  BY <1>2, <1>3 DEF LeavePermitQueue, Become
<1>5. /\ RemoveAt(q, i) \in Seq(Attempts)
      /\ Len(RemoveAt(q, i)) = Len(q) - 1
      /\ Lists(RemoveAt(q, i), Waiters(System) \ {a})
  <2>1. q \in Seq(Attempts) /\ Lists(q, Waiters(System)) /\ i \in DOMAIN q
    BY <1>1, <1>2, OfSystem DEF Sound
  <2> HIDE DEF q
  <2> QED
    BY <1>2, <2>1, ListRemoveAt
<1>6. IsSem(x)
  <2>1. q # <<>> /\ Len(q) \in Nat /\ Len(q) <= GlobalQueueSize /\ sem.available = 0
    BY <1>1, <1>2 DEF IsSem
  <2>2. x.available = 0 /\ x.waitQueue = RemoveAt(q, i)
    BY <2>1
  <2> QED
    BY <1>5, <2>1, <2>2, LimitsAssumption DEF IsSem
<1>7. /\ r.running = running /\ r.slotQueue = slotQueue /\ r.sem = x /\ r.at = there
      /\ r \in Systems
  <2>1. x \in [available : Nat, waitQueue : Seq(Attempts)]
    BY <1>6, SemType
  <2> HIDE DEF x
  <2> QED
    BY <1>1, <2>1, OfSystem DEF Sound, Systems, Places
<1> HIDE DEF r
<1>8. /\ \A p : InLine(r, p) = InLine(System, p)
      /\ \A p : SlotsOf(r, p) = SlotsOf(System, p)
  BY <1>1, <1>7, OfSystem, AttemptsAssumption DEF InLine, SlotsOf, Slotted
<1>9. /\ Waiters(r) = Waiters(System) \ {a}
      /\ PermitsOf(r) = PermitsOf(System)
  BY <1>1, <1>7, OfSystem DEF Waiters, PermitsOf
<1>10. x.waitQueue = RemoveAt(q, i) /\ x.available = sem.available
  OBVIOUS
<1> HIDE DEF x
<1>11. Sound(r)
  BY <1>1, <1>5, <1>6, <1>7, <1>8, <1>9, <1>10, OfSystem DEF Sound
<1>12. SlotsUpTo(r, {}) /\ SlotsFull(r, {}) /\ PermitsUpTo(r, 0)
  BY <1>1, <1>7, <1>8, <1>9, <1>10, OfSystem DEF Balanced, SlotsUpTo, SlotsFull, PermitsUpTo
<1>13. IInv'
  <2>1. \A b \in aborted' : b \in Attempts /\ r.at[b] \in PastQueues
    BY <1>1, <1>7 DEF PastQueues
  <2> QED
    BY <1>4, <1>11, <1>12, <2>1, BalancedIsIInv DEF Balanced, PastQueues
<1>14. \A b \in Attempts \ aborted' : at'[b] = at[b]
  BY <1>1, <1>4, <1>7 DEF Become
<1> QED
  BY <1>13, <1>14 DEF TurnKeeps

(* A signal that fires later only marks the attempt.                       *)
LEMMA AbortUnderWayKeeps ==
  ASSUME IInv, NEW a \in Attempts, AbortUnderWay(a)
  PROVE  TurnKeeps
<1>1. /\ Balanced(System)
      /\ \A b \in aborted' : b \in Attempts /\ System.at[b] \in PastQueues
      /\ Become(System)
      /\ Follows(System, System)
  BY IInvIsBalanced, OfSystem DEF AbortUnderWay, Become, Follows, PastQueues
<1> QED
  BY <1>1, OfSystem, TurnOf

(* Every turn keeps the invariant and refuses only what it must.           *)
LEMMA NextKeeps ==
  ASSUME IInv, Next
  PROVE  TurnKeeps
<1>1. ASSUME NEW a \in Attempts, Dispatch(a) PROVE TurnKeeps
  BY <1>1, RunWithSlotKeeps, RunWithoutSlotKeeps DEF Dispatch
<1>2. ASSUME NEW a \in Attempts, Abort(a) PROVE TurnKeeps
  BY <1>2, LeaveSlotQueueKeeps, LeavePermitQueueKeeps, AbortUnderWayKeeps DEF Abort
<1> QED
  BY <1>1, <1>2, StartKeeps, RefusedKeeps, FinishKeeps DEF Next

(* Nothing is taken and nobody queues at first.                            *)
LEMMA InitIInv == Init => IInv
<1> SUFFICES ASSUME Init PROVE IInv
  OBVIOUS
<1>1. /\ running = [p \in Partitions |-> 0]
      /\ slotQueue = [p \in Partitions |-> <<>>]
      /\ sem = [available |-> Permits, waitQueue |-> <<>>]
      /\ at = [a \in Attempts |-> "idle"]
      /\ aborted = {}
  BY DEF Init, Sem!Fresh
<1>2. PermitHolders = {} /\ \A p : SlotHolders(p) = {}
  BY <1>1, AttemptsAssumption DEF PermitHolders, SlotHolders
<1>3. TypeOK
  BY <1>1, LimitsAssumption, AttemptsAssumption DEF TypeOK, Places, IsInjective, ToSet
<1>4. CapacityConserved
  <2>1. Cardinality(PermitHolders) = 0 /\ \A p : Cardinality(SlotHolders(p)) = 0
    BY <1>2, FS_EmptySet
  <2>2. SlotsConserved
    BY <1>1, <2>1 DEF SlotsConserved
  <2>3. PermitsConserved
    BY <1>1, <2>1, LimitsAssumption DEF PermitsConserved
  <2>4. WorkConserving
    BY <1>1 DEF WorkConserving
  <2> QED
    BY <2>2, <2>3, <2>4 DEF CapacityConserved
<1>5. Len(sem.waitQueue) <= GlobalQueueSize
  BY <1>1, LimitsAssumption
<1> QED
  BY <1>3, <1>4, <1>5 DEF IInv

(* The invariant is inductive.                                             *)
LEMMA NextIInv == IInv /\ [Next]_vars => IInv'
<1>1. IInv /\ Next => IInv'
  BY NextKeeps DEF TurnKeeps
<1>2. IInv /\ UNCHANGED vars => IInv'
  BY DEF vars, IInv, TypeOK, CapacityConserved, SlotsConserved, PermitsConserved,
         WorkConserving, SlotHolders, PermitHolders
<1> QED
  BY <1>1, <1>2

(* The invariant holds in every behaviour.                                 *)
LEMMA Invariance == Spec => []IInv
BY InitIInv, NextIInv, PTL DEF Spec

(* A queued attempt is queued once, in the queue its place says, and has   *)
(* not been aborted: an aborted one never keeps a place in a queue, nor is *)
(* it started from there (B9; run, acquire).                               *)
THEOREM TypeCorrect == Spec => []TypeOK
<1>1. IInv => TypeOK
  BY DEF IInv
<1> QED
  BY <1>1, Invariance, PTL

(* Every slot and every permit is free or held by an attempt that will     *)
(* give it back, and none is free while somebody queues for it, between    *)
(* any two turns (execute, _releaseSlot, _drainWaitQueue and the finally   *)
(* of run, over the semaphore's acquire and release).                      *)
THEOREM CapacityBalance == Spec => []CapacityConserved
<1>1. IInv => CapacityConserved
  BY DEF IInv
<1> QED
  BY <1>1, Invariance, PTL

(* The semaphore turns a live attempt away only in a turn that leaves no   *)
(* permit free and its queue full: giving the permit back before the slot  *)
(* spares the attempt that takes the slot over (the comment on release).   *)
THEOREM OnlySaturationRefuses == Spec => RefusedOnlyWhenSaturated
<1> DEFINE A == \A a \in Attempts \ aborted' :
                  (at'[a] = "refused" /\ at[a] # "refused") =>
                    /\ sem'.available = 0
                    /\ Len(sem'.waitQueue) = GlobalQueueSize
<1>1. IInv /\ [Next]_vars => [A]_vars
  BY NextKeeps DEF TurnKeeps
<1> QED
  BY <1>1, Invariance, PTL DEF Spec, RefusedOnlyWhenSaturated

=============================================================================
