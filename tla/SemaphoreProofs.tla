-------------------------- MODULE SemaphoreProofs --------------------------
(***************************************************************************)
(* Proofs about Semaphore, for any callers, permits and queue size.  The   *)
(* inductive invariant joins the type, NoIdlePermit and PermitsConserved:  *)
(* that nobody waits while a permit is free is what makes _drain's loop    *)
(* serve at most the head of the queue (ReleaseServesHead), and that is    *)
(* what keeps the other two.                                               *)
(***************************************************************************)
EXTENDS Semaphore, SequenceTheorems, FiniteSetTheorems, TLAPS

IInv == TypeOK /\ PermitsConserved /\ NoIdlePermit

-----------------------------------------------------------------------------
(* The queue *)

(* Removing place i shifts the places behind it forward.                   *)
LEMMA RemoveAtProperties ==
  ASSUME NEW S, NEW s \in Seq(S), NEW i \in 1..Len(s)
  PROVE  /\ RemoveAt(s, i) \in Seq(S)
         /\ Len(RemoveAt(s, i)) = Len(s) - 1
         /\ \A j \in 1..(Len(s) - 1) :
              RemoveAt(s, i)[j] = IF j < i THEN s[j] ELSE s[j + 1]
<1> DEFINE front == SubSeq(s, 1, i - 1)
           back == SubSeq(s, i + 1, Len(s))
<1>1. /\ front \in Seq(S) /\ Len(front) = i - 1 /\ \A j \in 1..(i - 1) : front[j] = s[j]
      /\ back \in Seq(S) /\ Len(back) = Len(s) - i
      /\ \A j \in 1..(Len(s) - i) : back[j] = s[i + j]
  OBVIOUS
<1>2. RemoveAt(s, i) = front \o back
  BY DEF RemoveAt
<1> HIDE DEF front, back
<1>3. /\ front \o back \in Seq(S) /\ Len(front \o back) = Len(front) + Len(back)
      /\ \A j \in 1..(Len(front) + Len(back)) :
           (front \o back)[j] = IF j <= Len(front) THEN front[j] ELSE back[j - Len(front)]
  BY <1>1, ConcatProperties
<1>4. ASSUME NEW j \in 1..(Len(s) - 1)
      PROVE  (front \o back)[j] = IF j < i THEN s[j] ELSE s[j + 1]
  <2>1. CASE j < i
    BY <1>1, <1>3, <2>1
  <2>2. CASE ~(j < i)
    <3>1. /\ j - (i - 1) \in 1..(Len(s) - i) /\ i + (j - (i - 1)) = j + 1
          /\ j \in 1..((i - 1) + (Len(s) - i)) /\ ~(j <= i - 1)
      BY <2>2
    <3>2. (front \o back)[j] = back[j - (i - 1)]
      BY <1>1, <1>3, <3>1
    <3>3. back[j - (i - 1)] = s[j + 1]
      BY <1>1, <3>1
    <3> QED
      BY <2>2, <3>2, <3>3
  <2> QED
    BY <2>1, <2>2
<1>5. Len(front) + Len(back) = Len(s) - 1
  BY <1>1
<1> QED
  BY <1>2, <1>3, <1>4, <1>5

(* The semaphore's record is its two fields.                               *)
LEMMA SemFields ==
  ASSUME TypeOK
  PROVE  /\ sem.available \in 0..Permits
         /\ sem.waitQueue \in Seq(Callers)
         /\ sem = [available |-> sem.available, waitQueue |-> sem.waitQueue]
         /\ DOMAIN sem.waitQueue = 1..Len(sem.waitQueue)
         /\ Len(sem.waitQueue) \in Nat
BY DEF TypeOK

(* The callers that hold a permit are finitely many.                       *)
LEMMA HoldersFinite ==
  IsFiniteSet(Holders) /\ Cardinality(Holders) \in Nat
<1>1. Holders \in SUBSET Callers
  BY DEF Holders
<1> QED
  BY <1>1, CallersAssumption, FS_Subset, FS_CardinalityType

(* With one free permit and somebody waiting, _drain serves the head.      *)
LEMMA DrainOne ==
  ASSUME NEW r, r.available = 1, r.waitQueue \in Seq(Callers), r.waitQueue # <<>>
  PROVE  /\ Served(r) = 1
         /\ Drain(r) = [available |-> 0, waitQueue |-> Tail(r.waitQueue)]
<1>1. \A n \in Nat : (n # 0 /\ Len(r.waitQueue) = n) => Served(r) = 1
  BY DEF Served
<1>2. Served(r) = 1
  BY <1>1, EmptySeq
<1>3. SubSeq(r.waitQueue, 2, Len(r.waitQueue)) = Tail(r.waitQueue)
  BY TailIsSubSeq
<1>4. r.available - Served(r) = 0 /\ Served(r) + 1 = 2
  BY <1>2
<1> QED
  BY <1>2, <1>3, <1>4 DEF Drain

(* A release frees a permit when nobody waits, and otherwise passes it to  *)
(* the head of the queue and to no one else (release, _drain).             *)
LEMMA ReleaseServesHead ==
  ASSUME TypeOK, NoIdlePermit
  PROVE  /\ sem.waitQueue = <<>> =>
              /\ Release(sem) = [available |-> sem.available + 1, waitQueue |-> <<>>]
              /\ GrantedBy(sem) = {}
         /\ sem.waitQueue # <<>> =>
              /\ Release(sem) = [available |-> 0, waitQueue |-> Tail(sem.waitQueue)]
              /\ GrantedBy(sem) = {Head(sem.waitQueue)}
<1>1. /\ sem.available \in Nat
      /\ sem.waitQueue \in Seq(Callers)
      /\ Len(sem.waitQueue) \in Nat
  BY SemFields, LimitsAssumption
<1>2. /\ Freed(sem).available = sem.available + 1
      /\ Freed(sem).waitQueue = sem.waitQueue
  BY SemFields DEF Freed
<1>3. CASE sem.waitQueue = <<>>
  <2>1. Served(Freed(sem)) = 0
    BY <1>1, <1>2, <1>3 DEF Served
  <2>2. SubSeq(sem.waitQueue, 1, Len(sem.waitQueue)) = <<>>
    BY <1>3
  <2>3. Release(sem) = [available |-> sem.available + 1, waitQueue |-> <<>>]
    <3> DEFINE f == Freed(sem)
    <3>0. f.available = sem.available + 1 /\ f.waitQueue = sem.waitQueue /\ Served(f) = 0
      BY <1>2, <2>1
    <3> HIDE DEF f
    <3>1. Drain(f) = [available |-> (sem.available + 1) - 0,
                      waitQueue |-> SubSeq(sem.waitQueue, 0 + 1, Len(sem.waitQueue))]
      BY <3>0, Zenon DEF Drain
    <3>2. (sem.available + 1) - 0 = sem.available + 1 /\ 0 + 1 = 1
      BY <1>1
    <3> QED
      BY <2>2, <3>1, <3>2 DEF Release, f
  <2>4. GrantedBy(sem) = {}
    BY <2>1 DEF GrantedBy
  <2> QED
    BY <1>3, <2>3, <2>4
<1>4. CASE sem.waitQueue # <<>>
  <2>1. sem.available = 0
    BY <1>1, <1>4 DEF NoIdlePermit
  <2>3. Served(Freed(sem)) = 1 /\ Drain(Freed(sem)) = [available |-> 0, waitQueue |-> Tail(sem.waitQueue)]
    BY <1>1, <1>2, <1>4, <2>1, DrainOne
  <2>5. Release(sem) = [available |-> 0, waitQueue |-> Tail(sem.waitQueue)]
    BY <2>3 DEF Release
  <2>6. GrantedBy(sem) = {Head(sem.waitQueue)}
    BY <2>3 DEF GrantedBy
  <2> QED
    BY <1>4, <2>5, <2>6
<1> QED
  BY <1>3, <1>4

-----------------------------------------------------------------------------
(* What each action comes to *)

(* acquire() takes a free permit, or else a place at the end of the queue. *)
LEMMA AcquireEffect ==
  ASSUME TypeOK, NEW c \in Callers, AcquireCall(c)
  PROVE  \/ /\ sem.available > 0
            /\ sem' = [available |-> sem.available - 1, waitQueue |-> sem.waitQueue]
            /\ call' = [call EXCEPT ![c] = "granted"]
         \/ /\ sem.available = 0
            /\ Len(sem.waitQueue) < MaxQueueSize
            /\ sem' = [available |-> 0, waitQueue |-> Append(sem.waitQueue, c)]
            /\ call' = [call EXCEPT ![c] = "waiting"]
<1>0. /\ sem.available \in Nat
      /\ Len(sem.waitQueue) \in Nat
      /\ sem = [available |-> sem.available, waitQueue |-> sem.waitQueue]
  BY SemFields, LimitsAssumption
<1>1. CASE sem.available > 0
  <2>1. Outcome(sem) = "granted"
    BY <1>1 DEF Outcome
  <2>2. Acquire(sem, c) = [sem EXCEPT !.available = @ - 1]
    BY <2>1 DEF Acquire
  <2> QED
    BY <1>0, <1>1, <2>1, <2>2 DEF AcquireCall
<1>2. CASE ~(sem.available > 0)
  <2>1. sem.available = 0
    BY <1>0, <1>2
  <2>2. Outcome(sem) # "refused"
    BY DEF AcquireCall
  <2>3. Outcome(sem) = "waiting" /\ ~(Len(sem.waitQueue) >= MaxQueueSize)
    BY <1>2, <2>2 DEF Outcome
  <2>4. Len(sem.waitQueue) < MaxQueueSize
    BY <1>0, <2>3, LimitsAssumption
  <2>5. Acquire(sem, c) = [sem EXCEPT !.waitQueue = Append(@, c)]
    BY <2>3 DEF Acquire
  <2>6. sem' = [available |-> 0, waitQueue |-> Append(sem.waitQueue, c)]
    BY <1>0, <2>1, <2>5 DEF AcquireCall
  <2> QED
    BY <2>1, <2>3, <2>4, <2>6 DEF AcquireCall
<1> QED
  BY <1>1, <1>2

(* A release either frees the permit or moves it to the head of the queue. *)
LEMMA ReleaseEffect ==
  ASSUME TypeOK, NoIdlePermit, NEW c \in Callers, ReleaseCall(c)
  PROVE  \/ /\ sem.waitQueue = <<>>
            /\ sem' = [available |-> sem.available + 1, waitQueue |-> <<>>]
            /\ call' = [call EXCEPT ![c] = "idle"]
         \/ /\ sem.waitQueue # <<>>
            /\ sem.available = 0
            /\ Head(sem.waitQueue) # c
            /\ sem' = [available |-> 0, waitQueue |-> Tail(sem.waitQueue)]
            /\ call' = [call EXCEPT ![c] = "idle", ![Head(sem.waitQueue)] = "granted"]
<1>0. /\ call \in [Callers -> {"idle", "waiting", "granted"}]
      /\ call[c] = "granted"
      /\ sem' = Release(sem)
      /\ call' = [d \in Callers |-> IF d = c THEN "idle"
                                    ELSE IF d \in GrantedBy(sem) THEN "granted"
                                    ELSE call[d]]
  BY DEF TypeOK, ReleaseCall
<1>1. CASE sem.waitQueue = <<>>
  <2>1. sem' = [available |-> sem.available + 1, waitQueue |-> <<>>] /\ GrantedBy(sem) = {}
    BY <1>0, <1>1, ReleaseServesHead
  <2>2. call' = [call EXCEPT ![c] = "idle"]
    BY <1>0, <2>1
  <2> QED
    BY <1>1, <2>1, <2>2
<1>2. CASE sem.waitQueue # <<>>
  <2> DEFINE h == Head(sem.waitQueue)
  <2>1. /\ sem' = [available |-> 0, waitQueue |-> Tail(sem.waitQueue)]
        /\ GrantedBy(sem) = {h}
    BY <1>0, <1>2, ReleaseServesHead
  <2>2. sem.waitQueue \in Seq(Callers) /\ 1 \in DOMAIN sem.waitQueue
    BY <1>2, SemFields, EmptySeq
  <2>3. h = sem.waitQueue[1] /\ h \in Callers
    BY <1>2, <2>2, HeadTailProperties
  <2>4. call[h] = "waiting"
    BY <2>2, <2>3 DEF TypeOK
  <2>5. h # c
    BY <1>0, <2>4
  <2>6. call' = [call EXCEPT ![c] = "idle", ![h] = "granted"]
    <3> HIDE DEF h
    <3> QED
      BY <1>0, <2>1, <2>3, <2>5
  <2>7. sem.available = 0
    BY <1>2, SemFields, LimitsAssumption DEF NoIdlePermit
  <2> QED
    BY <1>2, <2>1, <2>5, <2>6, <2>7
<1> QED
  BY <1>1, <1>2

(* An abort takes one waiter out of the queue and touches no permit.       *)
LEMMA AbortEffect ==
  ASSUME TypeOK, NEW i \in DOMAIN sem.waitQueue, AbortCall(i)
  PROVE  /\ sem.waitQueue[i] \in Callers
         /\ call[sem.waitQueue[i]] = "waiting"
         /\ sem' = [available |-> sem.available, waitQueue |-> RemoveAt(sem.waitQueue, i)]
         /\ call' = [call EXCEPT ![sem.waitQueue[i]] = "idle"]
<1>1. sem.waitQueue[i] \in Callers
  BY SemFields, ElementOfSeq
<1>2. call[sem.waitQueue[i]] = "waiting"
  BY <1>1 DEF TypeOK
<1>3. sem' = [available |-> sem.available, waitQueue |-> RemoveAt(sem.waitQueue, i)]
  BY SemFields DEF AbortCall, Abandon
<1> QED
  BY <1>1, <1>2, <1>3 DEF AbortCall

-----------------------------------------------------------------------------
(* The holders *)

(* Acquiring adds the caller to the holders, or leaves them alone.         *)
LEMMA AcquireHolders ==
  ASSUME TypeOK, NEW c \in Callers, AcquireCall(c)
  PROVE  /\ c \notin Holders
         /\ sem.available > 0 => Holders' = Holders \cup {c}
         /\ sem.available = 0 => Holders' = Holders
<1>1. call[c] = "idle" /\ call \in [Callers -> {"idle", "waiting", "granted"}]
  BY DEF AcquireCall, TypeOK
<1>2. sem.available > 0 => call' = [call EXCEPT ![c] = "granted"]
  BY AcquireEffect, SemFields, LimitsAssumption
<1>3. sem.available = 0 => call' = [call EXCEPT ![c] = "waiting"]
  BY AcquireEffect, SemFields, LimitsAssumption
<1> QED
  BY <1>1, <1>2, <1>3 DEF Holders

(* Releasing removes the caller and lets the head of the queue in.         *)
LEMMA ReleaseHolders ==
  ASSUME TypeOK, NoIdlePermit, NEW c \in Callers, ReleaseCall(c)
  PROVE  /\ c \in Holders
         /\ sem.waitQueue = <<>> => Holders' = Holders \ {c}
         /\ sem.waitQueue # <<>> =>
              /\ Head(sem.waitQueue) \in Callers \ Holders
              /\ Holders' = (Holders \ {c}) \cup {Head(sem.waitQueue)}
<1>1. call[c] = "granted" /\ call \in [Callers -> {"idle", "waiting", "granted"}]
  BY DEF ReleaseCall, TypeOK
<1>2. sem.waitQueue = <<>> => call' = [call EXCEPT ![c] = "idle"]
  BY ReleaseEffect
<1>3. ASSUME sem.waitQueue # <<>>
      PROVE  /\ Head(sem.waitQueue) \in Callers \ Holders
             /\ Holders' = (Holders \ {c}) \cup {Head(sem.waitQueue)}
  <2> DEFINE h == Head(sem.waitQueue)
  <2>1. sem.waitQueue \in Seq(Callers) /\ 1 \in DOMAIN sem.waitQueue /\ h = sem.waitQueue[1]
    BY <1>3, SemFields, EmptySeq
  <2>2. h \in Callers /\ call[h] = "waiting"
    BY <1>3, <2>1, HeadTailProperties DEF TypeOK
  <2>3. h # c /\ call' = [call EXCEPT ![c] = "idle", ![h] = "granted"]
    BY <1>3, ReleaseEffect
  <2> HIDE DEF h
  <2>4. Holders' = (Holders \ {c}) \cup {h} /\ h \notin Holders
    BY <1>1, <2>2, <2>3 DEF Holders
  <2> QED
    BY <2>2, <2>4 DEF h
<1> QED
  BY <1>1, <1>2, <1>3 DEF Holders

(* An aborted waiter held nothing.                                         *)
LEMMA AbortHolders ==
  ASSUME TypeOK, NEW i \in DOMAIN sem.waitQueue, AbortCall(i)
  PROVE  Holders' = Holders
<1>1. call \in [Callers -> {"idle", "waiting", "granted"}]
  BY DEF TypeOK
<1> QED
  BY <1>1, AbortEffect DEF Holders

-----------------------------------------------------------------------------
(* The invariant *)

(* A fresh semaphore has every permit and no callers.                      *)
LEMMA InitIInv == Init => IInv
<1> SUFFICES ASSUME Init PROVE IInv
  OBVIOUS
<1>1. sem = [available |-> Permits, waitQueue |-> <<>>] /\ call = [c \in Callers |-> "idle"]
  BY DEF Init, Fresh
<1>2. TypeOK
  BY <1>1, LimitsAssumption DEF TypeOK
<1>3. Holders = {}
  BY <1>1 DEF Holders
<1>4. PermitsConserved
  BY <1>1, <1>3, FS_EmptySet, LimitsAssumption DEF PermitsConserved
<1>5. NoIdlePermit
  BY <1>1 DEF NoIdlePermit
<1> QED
  BY <1>2, <1>4, <1>5 DEF IInv

(* A caller that queues was in no queue before: it stays queued once.      *)
LEMMA AcquireType ==
  ASSUME TypeOK, NEW c \in Callers, AcquireCall(c)
  PROVE  TypeOK'
<1> DEFINE q == sem.waitQueue
<1>0. /\ sem.available \in 0..Permits
      /\ q \in Seq(Callers)
      /\ DOMAIN q = 1..Len(q)
      /\ Len(q) \in Nat
      /\ call \in [Callers -> {"idle", "waiting", "granted"}]
      /\ call[c] = "idle"
      /\ \A d \in Callers : call[d] = "waiting" <=> \E i \in DOMAIN q : q[i] = d
      /\ \A i, j \in DOMAIN q : q[i] = q[j] => i = j
  BY SemFields DEF TypeOK, AcquireCall
<1>1. CASE sem.available > 0
  <2>1. /\ sem' = [available |-> sem.available - 1, waitQueue |-> q]
        /\ call' = [call EXCEPT ![c] = "granted"]
    BY <1>1, AcquireEffect
  <2> HIDE DEF q
  <2>2. sem' \in [available : 0..Permits, waitQueue : Seq(Callers)]
    BY <1>0, <1>1, <2>1, LimitsAssumption
  <2>3. call' \in [Callers -> {"idle", "waiting", "granted"}]
    BY <1>0, <2>1
  <2>4. \A d \in Callers : call'[d] = "waiting" <=> \E i \in DOMAIN q : q[i] = d
    BY <1>0, <2>1
  <2>5. sem'.waitQueue = q
    BY <2>1
  <2> QED
    BY <1>0, <2>2, <2>3, <2>4, <2>5 DEF TypeOK
<1>2. CASE sem.available = 0
  <2> DEFINE r == Append(q, c)
  <2>1. /\ sem' = [available |-> 0, waitQueue |-> r]
        /\ call' = [call EXCEPT ![c] = "waiting"]
    BY <1>2, AcquireEffect
  <2> HIDE DEF q
  <2>2. /\ r \in Seq(Callers)
        /\ DOMAIN r = 1..(Len(q) + 1)
        /\ \A i \in 1..Len(q) : r[i] = q[i]
        /\ r[Len(q) + 1] = c
    BY <1>0, AppendProperties
  <2>3. \A i \in 1..Len(q) : q[i] # c
    BY <1>0
  <2> HIDE DEF r
  <2>4. sem' \in [available : 0..Permits, waitQueue : Seq(Callers)]
    BY <2>1, <2>2, LimitsAssumption
  <2>5. call' \in [Callers -> {"idle", "waiting", "granted"}]
    BY <1>0, <2>1
  <2>6. \A d \in Callers : call'[d] = "waiting" <=> \E i \in DOMAIN r : r[i] = d
    <3>1. (\E i \in DOMAIN r : r[i] = c) /\ call'[c] = "waiting"
      BY <1>0, <2>1, <2>2
    <3>2. ASSUME NEW d \in Callers, d # c
          PROVE  (\E i \in DOMAIN r : r[i] = d) <=> \E i \in DOMAIN q : q[i] = d
      BY <1>0, <2>2, <3>2
    <3> QED
      BY <1>0, <2>1, <3>1, <3>2
  <2>7. \A i, j \in DOMAIN r : r[i] = r[j] => i = j
    BY <1>0, <2>2, <2>3
  <2>8. sem'.waitQueue = r
    BY <2>1
  <2> QED
    BY <2>4, <2>5, <2>6, <2>7, <2>8 DEF TypeOK
<1> QED
  BY <1>0, <1>1, <1>2

\* The members of a queue, each of which stands in it once.
InQueue(q, d) == \E j \in DOMAIN q : q[j] = d

NoRepeats(q) == \A j, k \in DOMAIN q : q[j] = q[k] => j = k

\* r is q without its place i.
LosesPlace(q, i, r) ==
  /\ i \in 1..Len(q)
  /\ Len(r) = Len(q) - 1
  /\ \A j \in 1..(Len(q) - 1) : r[j] = IF j < i THEN q[j] ELSE q[j + 1]

(* A queue without repetitions that loses one place loses one caller.      *)
LEMMA QueueLosesPlace ==
  ASSUME NEW S, NEW q \in Seq(S), NEW r \in Seq(S), NEW i,
         NoRepeats(q), LosesPlace(q, i, r)
  PROVE  /\ NoRepeats(r)
         /\ \A d \in S : InQueue(r, d) <=> d # q[i] /\ InQueue(q, d)
<1>1. /\ Len(q) \in Nat
      /\ DOMAIN r = 1..(Len(q) - 1)
      /\ DOMAIN q = 1..Len(q)
      /\ i \in 1..Len(q)
      /\ \A j, k \in 1..Len(q) : q[j] = q[k] => j = k
      /\ \A j \in 1..(Len(q) - 1) : r[j] = IF j < i THEN q[j] ELSE q[j + 1]
  BY DEF NoRepeats, LosesPlace
<1> DEFINE old(j) == IF j < i THEN j ELSE j + 1
<1>2. \A j \in DOMAIN r : old(j) \in 1..Len(q) /\ old(j) # i /\ r[j] = q[old(j)]
  BY <1>1
<1>3. \A j, k \in DOMAIN r : old(j) = old(k) => j = k
  BY <1>1
<1>4. ASSUME NEW k \in 1..Len(q), k # i PROVE \E j \in DOMAIN r : old(j) = k
  <2>1. CASE k < i
    <3>1. k \in DOMAIN r /\ old(k) = k
      BY <1>1, <2>1
    <3> QED
      BY <3>1
  <2>2. CASE k > i
    <3>1. k - 1 \in DOMAIN r /\ old(k - 1) = k
      BY <1>1, <2>2
    <3> QED
      BY <3>1
  <2> QED
    BY <1>1, <1>4, <2>1, <2>2
<1> HIDE DEF old
<1>5. \A j, k \in DOMAIN r : r[j] = r[k] => j = k
  BY <1>1, <1>2, <1>3
<1>6. ASSUME NEW d \in S
      PROVE  InQueue(r, d) <=> d # q[i] /\ InQueue(q, d)
  <2>1. ASSUME NEW j \in DOMAIN r, r[j] = d
        PROVE  d # q[i] /\ \E k \in 1..Len(q) : q[k] = d
    BY <1>1, <1>2, <2>1
  <2>2. ASSUME d # q[i], NEW k \in 1..Len(q), q[k] = d
        PROVE  \E j \in DOMAIN r : r[j] = d
    <3>1. PICK j \in DOMAIN r : old(j) = k
      BY <1>4, <2>2
    <3> QED
      BY <1>2, <2>2, <3>1
  <2> QED
    BY <1>1, <2>1, <2>2 DEF InQueue
<1> QED
  BY <1>5, <1>6 DEF NoRepeats

(* The head served or freed leaves everyone else queued as before.         *)
LEMMA ReleaseType ==
  ASSUME TypeOK, NoIdlePermit, PermitsConserved, NEW c \in Callers, ReleaseCall(c)
  PROVE  TypeOK'
<1> DEFINE q == sem.waitQueue
<1>0. /\ sem.available \in 0..Permits
      /\ q \in Seq(Callers)
      /\ DOMAIN q = 1..Len(q)
      /\ Len(q) \in Nat
      /\ call \in [Callers -> {"idle", "waiting", "granted"}]
      /\ call[c] = "granted"
      /\ \A d \in Callers : call[d] = "waiting" <=> \E i \in DOMAIN q : q[i] = d
      /\ \A i, j \in DOMAIN q : q[i] = q[j] => i = j
  BY SemFields DEF TypeOK, ReleaseCall
<1>1. CASE q = <<>>
  <2>1. /\ sem' = [available |-> sem.available + 1, waitQueue |-> <<>>]
        /\ call' = [call EXCEPT ![c] = "idle"]
    BY <1>1, ReleaseEffect
  <2>2. sem.available + 1 \in 0..Permits
    <3>1. c \in Holders
      BY <1>0 DEF Holders
    <3>2. Cardinality(Holders) # 0
      BY <3>1, HoldersFinite, FS_EmptySet
    <3> QED
      BY <1>0, <3>2, HoldersFinite, LimitsAssumption DEF PermitsConserved
  <2>3. sem' \in [available : 0..Permits, waitQueue : Seq(Callers)]
    BY <2>1, <2>2
  <2>4. call' \in [Callers -> {"idle", "waiting", "granted"}]
    BY <1>0, <2>1
  <2>5. \A d \in Callers : call'[d] # "waiting"
    BY <1>0, <1>1, <2>1
  <2>6. sem'.waitQueue = <<>>
    BY <2>1
  <2> QED
    BY <2>3, <2>4, <2>5, <2>6 DEF TypeOK
<1>2. CASE q # <<>>
  <2> DEFINE r == Tail(q)
             h == q[1]
  <2>1. /\ sem' = [available |-> 0, waitQueue |-> r]
        /\ call' = [call EXCEPT ![c] = "idle", ![h] = "granted"]
        /\ h # c
        /\ h = Head(q)
    BY <1>0, <1>2, ReleaseEffect
  <2>2. /\ r \in Seq(Callers)
        /\ Len(r) = Len(q) - 1
        /\ \A j \in 1..(Len(q) - 1) : r[j] = q[j + 1]
        /\ 1 \in 1..Len(q)
        /\ h \in Callers
    BY <1>0, <1>2, HeadTailProperties, EmptySeq
  <2> HIDE DEF q
  <2> HIDE DEF r
  <2>3. LosesPlace(q, 1, r) /\ NoRepeats(q)
    BY <1>0, <2>2 DEF LosesPlace, NoRepeats
  <2>4. /\ NoRepeats(r)
        /\ \A d \in Callers : InQueue(r, d) <=> d # q[1] /\ InQueue(q, d)
    BY <1>0, <2>2, <2>3, QueueLosesPlace
  <2>5. /\ sem' \in [available : 0..Permits, waitQueue : Seq(Callers)]
        /\ sem'.waitQueue = r
    BY <2>1, <2>2, LimitsAssumption
  <2>6. call' \in [Callers -> {"idle", "waiting", "granted"}]
    BY <1>0, <2>1, <2>2
  <2>7. \A d \in Callers : call'[d] = "waiting" <=> d # h /\ call[d] = "waiting"
    BY <1>0, <2>1, <2>2
  <2>8. \A d \in Callers : call'[d] = "waiting" <=> \E i \in DOMAIN r : r[i] = d
    BY <1>0, <2>4, <2>7 DEF InQueue
  <2> QED
    BY <2>4, <2>5, <2>6, <2>8 DEF TypeOK, NoRepeats
<1> QED
  BY <1>1, <1>2

(* A waiter that aborts leaves everyone else queued as before.             *)
LEMMA AbortType ==
  ASSUME TypeOK, NEW i \in DOMAIN sem.waitQueue, AbortCall(i)
  PROVE  TypeOK'
<1> DEFINE q == sem.waitQueue
           r == RemoveAt(q, i)
           w == q[i]
<1>0. /\ sem.available \in 0..Permits
      /\ q \in Seq(Callers)
      /\ DOMAIN q = 1..Len(q)
      /\ Len(q) \in Nat
      /\ call \in [Callers -> {"idle", "waiting", "granted"}]
      /\ \A d \in Callers : call[d] = "waiting" <=> \E j \in DOMAIN q : q[j] = d
      /\ \A j, k \in DOMAIN q : q[j] = q[k] => j = k
  BY SemFields DEF TypeOK
<1>1. /\ w \in Callers
      /\ sem' = [available |-> sem.available, waitQueue |-> r]
      /\ call' = [call EXCEPT ![w] = "idle"]
  BY AbortEffect
<1>2. r \in Seq(Callers) /\ LosesPlace(q, i, r)
  <2>1. i \in 1..Len(q)
    BY <1>0
  <2>2. /\ r \in Seq(Callers)
        /\ Len(r) = Len(q) - 1
        /\ \A j \in 1..(Len(q) - 1) : r[j] = IF j < i THEN q[j] ELSE q[j + 1]
    <3>1. q \in Seq(Callers)
      BY <1>0
    <3> HIDE DEF q
    <3> QED
      BY <2>1, <3>1, RemoveAtProperties, Zenon
  <2> HIDE DEF q
  <2> HIDE DEF r
  <2> QED
    BY <2>1, <2>2 DEF LosesPlace
<1> HIDE DEF q
<1> HIDE DEF r
<1>3. /\ NoRepeats(r)
      /\ \A d \in Callers : InQueue(r, d) <=> d # q[i] /\ InQueue(q, d)
  <2>1. NoRepeats(q)
    BY <1>0 DEF NoRepeats
  <2> QED
    BY <1>0, <1>2, <2>1, QueueLosesPlace
<1>4. /\ sem' \in [available : 0..Permits, waitQueue : Seq(Callers)]
      /\ sem'.waitQueue = r
  BY <1>0, <1>1, <1>2
<1>5. call' \in [Callers -> {"idle", "waiting", "granted"}]
  BY <1>0, <1>1
<1>6. \A d \in Callers : call'[d] = "waiting" <=> d # w /\ call[d] = "waiting"
  BY <1>0, <1>1
<1>7. \A d \in Callers : call'[d] = "waiting" <=> \E j \in DOMAIN r : r[j] = d
  BY <1>0, <1>3, <1>6 DEF InQueue
<1> QED
  BY <1>3, <1>4, <1>5, <1>7 DEF TypeOK, NoRepeats

(* Each action keeps the free permits and the held ones in balance.        *)
LEMMA NextConserves ==
  ASSUME IInv, Next
  PROVE  PermitsConserved'
<1>0. /\ TypeOK /\ NoIdlePermit /\ PermitsConserved
      /\ IsFiniteSet(Holders) /\ Cardinality(Holders) \in Nat
      /\ sem.available \in Nat
      /\ sem.available + Cardinality(Holders) = Permits
  BY HoldersFinite, SemFields, LimitsAssumption DEF IInv, PermitsConserved
<1>1. ASSUME NEW c \in Callers, AcquireCall(c)
      PROVE  PermitsConserved'
  <2>1. c \notin Holders
    BY <1>0, <1>1, AcquireHolders
  <2>2. CASE sem.available > 0
    <3>1. Holders' = Holders \cup {c} /\ sem'.available = sem.available - 1
      BY <1>0, <1>1, <2>2, AcquireHolders, AcquireEffect
    <3>2. Cardinality(Holders \cup {c}) = Cardinality(Holders) + 1
      BY <1>0, <2>1, FS_AddElement
    <3>3. sem'.available + Cardinality(Holders') = Permits
      BY <1>0, <3>1, <3>2
    <3> QED
      BY <3>3 DEF PermitsConserved
  <2>3. CASE sem.available = 0
    <3>1. Holders' = Holders /\ sem'.available = sem.available
      BY <1>0, <1>1, <2>3, AcquireHolders, AcquireEffect
    <3> QED
      BY <1>0, <3>1 DEF PermitsConserved
  <2> QED
    BY <1>0, <2>2, <2>3
<1>2. ASSUME NEW c \in Callers, ReleaseCall(c)
      PROVE  PermitsConserved'
  <2>1. c \in Holders
    BY <1>0, <1>2, ReleaseHolders
  <2>2. /\ IsFiniteSet(Holders \ {c})
        /\ Cardinality(Holders \ {c}) = Cardinality(Holders) - 1
    BY <1>0, <2>1, FS_RemoveElement
  <2>3. CASE sem.waitQueue = <<>>
    <3>1. Holders' = Holders \ {c} /\ sem'.available = sem.available + 1
      BY <1>0, <1>2, <2>3, ReleaseHolders, ReleaseEffect
    <3>2. sem'.available + Cardinality(Holders') = Permits
      BY <1>0, <2>2, <3>1
    <3> QED
      BY <3>2 DEF PermitsConserved
  <2>4. CASE sem.waitQueue # <<>>
    <3>1. /\ Head(sem.waitQueue) \notin Holders
          /\ Holders' = (Holders \ {c}) \cup {Head(sem.waitQueue)}
      BY <1>0, <1>2, <2>4, ReleaseHolders
    <3>2. sem'.available = sem.available
      BY <1>0, <1>2, <2>4, ReleaseEffect
    <3>3. Cardinality(Holders') = Cardinality(Holders \ {c}) + 1
      BY <2>2, <3>1, FS_AddElement
    <3>4. sem'.available + Cardinality(Holders') = Permits
      BY <1>0, <2>2, <3>2, <3>3
    <3> QED
      BY <3>4 DEF PermitsConserved
  <2> QED
    BY <2>3, <2>4
<1>3. ASSUME NEW i \in DOMAIN sem.waitQueue, AbortCall(i)
      PROVE  PermitsConserved'
  <2>1. Holders' = Holders /\ sem'.available = sem.available
    BY <1>0, <1>3, AbortHolders, AbortEffect
  <2> QED
    BY <1>0, <2>1 DEF PermitsConserved
<1> QED
  BY <1>1, <1>2, <1>3 DEF Next

(* No action leaves a free permit behind while somebody waits.             *)
LEMMA NextNoIdle ==
  ASSUME IInv, Next
  PROVE  NoIdlePermit'
<1>0. /\ TypeOK /\ NoIdlePermit
      /\ sem.available \in Nat
      /\ sem.available > 0 => sem.waitQueue = <<>>
  BY SemFields, LimitsAssumption DEF IInv, NoIdlePermit
<1>1. ASSUME NEW c \in Callers, AcquireCall(c)
      PROVE  NoIdlePermit'
  <2>1. CASE sem.available > 0
    <3>1. sem'.waitQueue = sem.waitQueue
      BY <1>0, <1>1, <2>1, AcquireEffect
    <3> QED
      BY <1>0, <2>1, <3>1 DEF NoIdlePermit
  <2>2. CASE sem.available = 0
    <3>1. sem'.available = 0
      BY <1>0, <1>1, <2>2, AcquireEffect
    <3> QED
      BY <3>1 DEF NoIdlePermit
  <2> QED
    BY <1>0, <2>1, <2>2
<1>2. ASSUME NEW c \in Callers, ReleaseCall(c)
      PROVE  NoIdlePermit'
  <2>1. sem'.waitQueue = <<>> \/ sem'.available = 0
    BY <1>0, <1>2, ReleaseEffect
  <2> QED
    BY <2>1 DEF NoIdlePermit
<1>3. ASSUME NEW i \in DOMAIN sem.waitQueue, AbortCall(i)
      PROVE  NoIdlePermit'
  <2>1. sem.waitQueue # <<>>
    BY <1>3
  <2>2. sem'.available = sem.available
    BY <1>0, <1>3, AbortEffect
  <2> QED
    BY <1>0, <2>1, <2>2 DEF NoIdlePermit
<1> QED
  BY <1>1, <1>2, <1>3 DEF Next

(* The invariant is inductive.                                             *)
LEMMA NextIInv == IInv /\ [Next]_vars => IInv'
<1> SUFFICES ASSUME IInv, [Next]_vars PROVE IInv'
  OBVIOUS
<1>1. CASE Next
  <2>1. TypeOK'
    <3> SUFFICES ASSUME TypeOK, NoIdlePermit, PermitsConserved PROVE TypeOK'
      BY DEF IInv
    <3> QED
      BY <1>1, AcquireType, ReleaseType, AbortType DEF Next
  <2> QED
    BY <1>1, <2>1, NextConserves, NextNoIdle DEF IInv
<1>2. CASE UNCHANGED vars
  BY <1>2 DEF IInv, TypeOK, PermitsConserved, NoIdlePermit, Holders, vars
<1> QED
  BY <1>1, <1>2

(* The three invariants hold together in every behaviour.                  *)
LEMMA Invariance == Spec => []IInv
<1> QED
  BY InitIInv, NextIInv, PTL DEF Spec

(* A pending acquire stands in the queue at exactly one place, and nobody  *)
(* else does: an aborted waiter is never granted (semaphore.ts, acquire).  *)
THEOREM TypeCorrect == Spec => []TypeOK
<1>1. IInv => TypeOK
  BY DEF IInv
<1> QED
  BY <1>1, Invariance, PTL

(* The free permits and the holders always add up to the concurrency.      *)
THEOREM PermitsBalance == Spec => []PermitsConserved
<1>1. IInv => PermitsConserved
  BY DEF IInv
<1> QED
  BY <1>1, Invariance, PTL

(* Nobody waits while a permit is free (semaphore.ts, _drain).             *)
THEOREM NobodyWaitsInVain == Spec => []NoIdlePermit
<1>1. IInv => NoIdlePermit
  BY DEF IInv
<1> QED
  BY <1>1, Invariance, PTL

-----------------------------------------------------------------------------
(* The semaphore implements the first-come first-served pool *)

(* The pool's cardinality is ours.                                         *)
LEMMA PoolCounts == \A S : Pool!Cardinality(S) = Cardinality(S)
BY DEF Pool!Cardinality, Cardinality

(* Every step of the semaphore is a step of the pool.                      *)
LEMMA StepIsPoolStep ==
  ASSUME IInv, Next
  PROVE  Pool!Next
<1>0. /\ TypeOK /\ NoIdlePermit
      /\ sem.available \in Nat
      /\ Cardinality(Holders) \in Nat
      /\ sem.available > 0 => sem.waitQueue = <<>>
      /\ sem.available + Cardinality(Holders) = Permits
  BY SemFields, HoldersFinite, LimitsAssumption DEF IInv, NoIdlePermit, PermitsConserved
<1>1. ASSUME NEW c \in Callers, AcquireCall(c)
      PROVE  Pool!Enter(c) \/ Pool!Wait(c)
  <2>1. CASE sem.available > 0
    <3>1. /\ c \notin Holders
          /\ sem.waitQueue = <<>>
          /\ Cardinality(Holders) < Permits
          /\ Holders' = Holders \cup {c}
          /\ sem'.waitQueue = sem.waitQueue
      BY <1>0, <1>1, <2>1, AcquireEffect, AcquireHolders, LimitsAssumption
    <3>2. Pool!Enter(c)
      BY <3>1, PoolCounts DEF Pool!Enter
    <3> QED
      BY <3>2
  <2>2. CASE sem.available = 0
    <3>1. /\ c \notin Holders
          /\ Cardinality(Holders) = Permits
          /\ Len(sem.waitQueue) < MaxQueueSize
          /\ sem'.waitQueue = Append(sem.waitQueue, c)
          /\ Holders' = Holders
      BY <1>0, <1>1, <2>2, AcquireEffect, AcquireHolders
    <3>2. Pool!Wait(c)
      BY <3>1, PoolCounts DEF Pool!Wait
    <3> QED
      BY <3>2
  <2> QED
    BY <1>0, <2>1, <2>2
<1>2. ASSUME NEW c \in Callers, ReleaseCall(c)
      PROVE  Pool!Leave(c)
  <2>1. CASE sem.waitQueue = <<>>
    <3>1. c \in Holders /\ Holders' = Holders \ {c} /\ sem'.waitQueue = sem.waitQueue
      BY <1>0, <1>2, <2>1, ReleaseEffect, ReleaseHolders
    <3> QED
      BY <2>1, <3>1 DEF Pool!Leave
  <2>2. CASE sem.waitQueue # <<>>
    <3>1. c \in Holders /\ Holders' = (Holders \ {c}) \cup {Head(sem.waitQueue)}
      BY <1>0, <1>2, <2>2, ReleaseHolders
    <3>2. sem' = [available |-> 0, waitQueue |-> Tail(sem.waitQueue)]
      BY <1>0, <1>2, <2>2, ReleaseEffect
    <3>3. sem'.waitQueue = Tail(sem.waitQueue)
      BY <3>2
    <3> QED
      BY <2>2, <3>1, <3>3 DEF Pool!Leave
  <2> QED
    BY <2>1, <2>2
<1>3. ASSUME NEW i \in DOMAIN sem.waitQueue, AbortCall(i)
      PROVE  Pool!Withdraw(i)
  <2>1. sem'.waitQueue = RemoveAt(sem.waitQueue, i) /\ Holders' = Holders
    BY <1>0, <1>3, AbortEffect, AbortHolders
  <2> QED
    BY <2>1 DEF Pool!Withdraw, Pool!RemoveAt, RemoveAt
<1> QED
  BY <1>1, <1>2, <1>3 DEF Next, Pool!Next

(* The semaphore is a first-come first-served pool: no acquire overtakes   *)
(* the queue, and a released permit goes to its head in the same turn.     *)
THEOREM PoolImplemented == Spec => ImplementsPool
<1>1. Init => Pool!Init
  BY DEF Init, Fresh, Holders, Pool!Init
<1>2. IInv /\ [Next]_vars => [Pool!Next]_(Pool!vars)
  <2>1. UNCHANGED vars => UNCHANGED Pool!vars
    BY DEF vars, Pool!vars, Holders
  <2> QED
    BY <2>1, StepIsPoolStep
<1> QED
  BY <1>1, <1>2, Invariance, PTL DEF Spec, ImplementsPool, Pool!Spec

=============================================================================
