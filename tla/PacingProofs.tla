---------------------------- MODULE PacingProofs ----------------------------
(***************************************************************************)
(* Pacing keeps within the rate, for every rate, burst, limit of the wait  *)
(* and of the pause, every Retry-After and any number of attempts.         *)
(*                                                                         *)
(* WithinRate is not inductive: it says nothing of those who were given a  *)
(* place in the line before the token they wait for is earned.  The        *)
(* invariant IInv accounts for them.  The bucket owes nobody more than it  *)
(* has in `credit` (Covered), and by the turn of each waiter a token will  *)
(* be earned for it and for everybody ahead of it (Earning): this is what  *)
(* pays when it wakes.  A freeze and a tick move all turns by as much, so  *)
(* they keep who is ahead of whom; an abort takes somebody out of the line *)
(* and nobody's turn changes; a reservation is behind all for whom the     *)
(* bucket is in debt (Indebted), and is a token apart from them.           *)
(***************************************************************************)
EXTENDS Pacing, SequenceTheorems, FiniteSetTheorems, TLAPS

Entry == [who : Attempts, due : Nat, sleep : Nat, refunded : BOOLEAN]

\* Tokens, in milliseconds of refill.
Worth(n) == TokenTime * n

Waiting(l) == {l[i].who : i \in DOMAIN l}

\* Those whose turn comes no later than d.
Ahead(l, d) == {l[i].who : i \in {j \in DOMAIN l : l[j].due <= d}}

\* Nobody waits twice, and `line` is as long as there are waiters.
Line(l) ==
  /\ l \in Seq(Entry)
  /\ \A i, j \in DOMAIN l : l[i].who = l[j].who => i = j
  /\ Len(l) = Cardinality(Waiting(l))

\* The pause and the bucket's freeze are one; a paused bucket is empty.
Frozen ==
  /\ frozen = paused
  /\ paused > 0 => balance <= 0

\* What the bucket has is earned beyond what the waiters are owed, ...
Covered == credit >= balance + Worth(Len(line))

\* ... and by the time of each waiter's turn a token is earned for it and
\* for everybody whose turn comes no later.
Earning ==
  \A i \in DOMAIN line :
    credit + (line[i].due - paused) >= Worth(Cardinality(Ahead(line, line[i].due)))

\* The bucket is in debt for a waiter's turn unless a token was handed back.
Indebted ==
  \A i \in DOMAIN line : ~line[i].refunded => line[i].due - paused <= 0 - balance

\* A refusal foreseen comes closer as fast as the token does.
Foreseen ==
  forecast.sure => forecast.in >= 0 /\ Wait - forecast.in > MaxWait

IInv ==
  /\ TypeOK
  /\ Line(line)
  /\ Frozen
  /\ SpacingKept
  /\ Covered
  /\ Earning
  /\ Indebted
  /\ WithinRate
  /\ Foreseen

-----------------------------------------------------------------------------
(* Arithmetic *)

(* A token more is worth TokenTime more.                                   *)
LEMMA WorthProperties ==
  /\ Worth(0) = 0
  /\ Worth(1) = TokenTime
  /\ \A n \in Nat : Worth(n) \in Nat /\ Worth(n + 1) = Worth(n) + TokenTime
  /\ \A m, n \in Nat : m <= n => Worth(m) <= Worth(n)
<1>1. TokenTime \in Nat
  BY LimitsAssumption
<1>2. \A n \in Nat : TokenTime * n \in Nat /\ TokenTime * (n + 1) = TokenTime * n + TokenTime
  BY <1>1
<1>3. ASSUME NEW m \in Nat, NEW n \in Nat, m <= n PROVE TokenTime * m <= TokenTime * n
  <2>1. n - m \in Nat /\ TokenTime * (n - m) \in Nat
    BY <1>1, <1>3
  <2>2. TokenTime * n = TokenTime * m + TokenTime * (n - m)
    BY <1>1, <1>3
  <2> QED
    BY <1>1, <1>3, <2>1, <2>2
<1> QED
  BY <1>1, <1>2, <1>3 DEF Worth

-----------------------------------------------------------------------------
(* The line of sleepers *)

(* There are as many ahead of a turn as the line is long, at most, and the *)
(* waiter whose turn it is, is one of them.                                *)
LEMMA AheadFinite ==
  ASSUME NEW l, Line(l), NEW d
  PROVE  /\ IsFiniteSet(Waiting(l))
         /\ IsFiniteSet(Ahead(l, d))
         /\ Cardinality(Ahead(l, d)) \in Nat
         /\ Cardinality(Ahead(l, d)) <= Len(l)
         /\ Len(l) \in Nat
         /\ Len(l) <= Cardinality(Attempts)
         /\ Cardinality(Attempts) \in Nat
<1>1. Waiting(l) \subseteq Attempts /\ Ahead(l, d) \subseteq Waiting(l)
  <2>1. \A i \in DOMAIN l : l[i] \in Entry
    BY DEF Line
  <2>2. \A i \in DOMAIN l : l[i].who \in Attempts
    BY <2>1 DEF Entry
  <2> QED
    BY <2>2 DEF Waiting, Ahead
<1>2. IsFiniteSet(Waiting(l)) /\ Cardinality(Waiting(l)) <= Cardinality(Attempts)
  BY <1>1, AttemptsAssumption, FS_Subset
<1>3. IsFiniteSet(Ahead(l, d)) /\ Cardinality(Ahead(l, d)) <= Cardinality(Waiting(l))
  BY <1>1, <1>2, FS_Subset
<1> QED
  BY <1>2, <1>3, AttemptsAssumption, FS_CardinalityType DEF Line

(* Joining the line.                                                       *)
LEMMA JoinLine ==
  ASSUME NEW l, Line(l), NEW e \in Entry, e.who \notin Waiting(l)
  PROVE  LET m == Append(l, e)
         IN /\ Line(m)
            /\ Waiting(m) = Waiting(l) \cup {e.who}
            /\ Len(m) = Len(l) + 1
            /\ DOMAIN l = 1..Len(l) /\ DOMAIN m = 1..(Len(l) + 1)
            /\ \A i \in DOMAIN l : m[i] = l[i]
            /\ m[Len(l) + 1] = e
            /\ \A d \in Int : d < e.due => Ahead(m, d) = Ahead(l, d)
            /\ \A d : Cardinality(Ahead(m, d)) <= Cardinality(Ahead(l, d)) + 1
<1> DEFINE m == Append(l, e)
<1>1. /\ l \in Seq(Entry)
      /\ Len(l) \in Nat
      /\ m \in Seq(Entry)
      /\ Len(m) = Len(l) + 1
      /\ DOMAIN l = 1..Len(l)
      /\ DOMAIN m = 1..(Len(l) + 1)
      /\ \A i \in 1..Len(l) : m[i] = l[i]
      /\ m[Len(l) + 1] = e
  BY AppendProperties DEF Line
<1> HIDE DEF m
<1>2. \A i, j \in DOMAIN m : m[i].who = m[j].who => i = j
  <2>1. \A i, j \in DOMAIN l : l[i].who = l[j].who => i = j
    BY DEF Line
  <2>2. \A i \in DOMAIN l : l[i].who # e.who
    BY DEF Waiting
  <2> SUFFICES ASSUME NEW i \in DOMAIN m, NEW j \in DOMAIN m, m[i].who = m[j].who
               PROVE  i = j
    OBVIOUS
  <2>3. CASE i = Len(l) + 1 \/ j = Len(l) + 1
    BY <1>1, <2>2, <2>3
  <2>4. CASE i \in DOMAIN l /\ j \in DOMAIN l
    BY <1>1, <2>1, <2>4
  <2> QED
    BY <1>1, <2>3, <2>4
<1>3. Waiting(m) = Waiting(l) \cup {e.who}
  BY <1>1 DEF Waiting
<1>4. Len(m) = Cardinality(Waiting(m))
  <2>1. IsFiniteSet(Waiting(l)) /\ Len(l) = Cardinality(Waiting(l)) /\ Len(l) \in Nat
    BY AheadFinite DEF Line
  <2>2. Cardinality(Waiting(l) \cup {e.who}) = Cardinality(Waiting(l)) + 1
    BY <2>1, FS_AddElement
  <2> QED
    BY <1>1, <1>3, <2>1, <2>2
<1>5. Line(m)
  BY <1>1, <1>2, <1>4 DEF Line
<1>6. \A i \in DOMAIN m : m[i].due \in Nat
  <2>1. \A i \in DOMAIN m : m[i] \in Entry
    BY <1>1
  <2> QED
    BY <2>1 DEF Entry
<1>7. \A d : Ahead(l, d) \subseteq Ahead(m, d) /\ Ahead(m, d) \subseteq Ahead(l, d) \cup {e.who}
  BY <1>1 DEF Ahead
<1>8. \A d \in Int : d < e.due => Ahead(m, d) = Ahead(l, d)
  <2>1. ASSUME NEW d \in Int, d < e.due PROVE Ahead(m, d) \subseteq Ahead(l, d)
    BY <1>1, <1>6, <2>1 DEF Ahead
  <2> QED
    BY <1>7, <2>1
<1>9. \A d : Cardinality(Ahead(m, d)) <= Cardinality(Ahead(l, d)) + 1
  <2> TAKE d
  <2>1. IsFiniteSet(Ahead(l, d)) /\ Cardinality(Ahead(l, d)) \in Nat
    BY AheadFinite
  <2>2. Ahead(m, d) = Ahead(l, d) \/ Ahead(m, d) = Ahead(l, d) \cup {e.who}
    BY <1>7
  <2>3. Cardinality(Ahead(l, d) \cup {e.who}) <= Cardinality(Ahead(l, d)) + 1
    <3> DEFINE A == Ahead(l, d)
    <3>1. IsFiniteSet(A) /\ Cardinality(A) \in Nat
      BY <2>1
    <3> HIDE DEF A
    <3>2. Cardinality(A \cup {e.who}) <= Cardinality(A) + 1
      BY <3>1, FS_AddElement
    <3> QED
      BY <3>2 DEF A
  <2> QED
    BY <2>1, <2>2, <2>3
<1> QED
  BY <1>1, <1>3, <1>5, <1>8, <1>9 DEF m

\* Where the waiter in place j of the line stood, before the one in place i left.
Before(i, j) == IF j < i THEN j ELSE j + 1

(* Leaving the line: whatever else happens to the entries of the others,   *)
(* as long as each is still the same attempt with the same turn.           *)
LEMMA LeaveLine ==
  ASSUME NEW l, Line(l), NEW i \in DOMAIN l, NEW m \in Seq(Entry), Len(m) = Len(l) - 1,
         \A j \in 1..(Len(l) - 1) : /\ m[j].who = l[Before(i, j)].who
                                    /\ m[j].due = l[Before(i, j)].due
  PROVE  /\ Line(m)
         /\ Waiting(m) = Waiting(l) \ {l[i].who}
         /\ DOMAIN m = 1..(Len(l) - 1)
         /\ \A j \in DOMAIN m : Before(i, j) \in DOMAIN l
         /\ \A d : Ahead(m, d) \subseteq Ahead(l, d)
         /\ \A d : l[i].due <= d => Cardinality(Ahead(m, d)) = Cardinality(Ahead(l, d)) - 1
<1>1. /\ l \in Seq(Entry)
      /\ Len(l) \in Nat
      /\ DOMAIN l = 1..Len(l)
      /\ DOMAIN m = 1..(Len(l) - 1)
      /\ \A j, k \in DOMAIN l : l[j].who = l[k].who => j = k
  BY DEF Line
<1>2. /\ \A j \in DOMAIN m : /\ Before(i, j) \in DOMAIN l
                             /\ Before(i, j) # i
                             /\ m[j].who = l[Before(i, j)].who
                             /\ m[j].due = l[Before(i, j)].due
      /\ \A j, k \in DOMAIN m : Before(i, j) = Before(i, k) => j = k
      /\ \A k \in DOMAIN l : k # i => \E j \in DOMAIN m : Before(i, j) = k
  <2>1. \A j \in DOMAIN m : Before(i, j) \in DOMAIN l /\ Before(i, j) # i
    BY <1>1 DEF Before
  <2>2. \A j, k \in DOMAIN m : Before(i, j) = Before(i, k) => j = k
    BY <1>1 DEF Before
  <2>3. ASSUME NEW k \in DOMAIN l, k # i PROVE \E j \in DOMAIN m : Before(i, j) = k
    <3>1. CASE k < i
      <4>1. k \in DOMAIN m /\ Before(i, k) = k
        BY <1>1, <3>1 DEF Before
      <4> QED
        BY <4>1
    <3>2. CASE k > i
      <4>1. k - 1 \in DOMAIN m /\ Before(i, k - 1) = k
        BY <1>1, <3>2 DEF Before
      <4> QED
        BY <4>1
    <3> QED
      BY <1>1, <2>3, <3>1, <3>2
  <2> QED
    BY <1>1, <2>1, <2>2, <2>3
<1>3. \A j, k \in DOMAIN m : m[j].who = m[k].who => j = k
  BY <1>1, <1>2
<1>4. Waiting(m) = Waiting(l) \ {l[i].who}
  <2>1. ASSUME NEW j \in DOMAIN m PROVE m[j].who \in Waiting(l) \ {l[i].who}
    BY <1>1, <1>2 DEF Waiting
  <2>2. ASSUME NEW k \in DOMAIN l, l[k].who # l[i].who PROVE l[k].who \in Waiting(m)
    <3>1. PICK j \in DOMAIN m : Before(i, j) = k
      BY <1>2, <2>2
    <3> QED
      BY <1>2, <3>1 DEF Waiting
  <2> QED
    BY <2>1, <2>2 DEF Waiting
<1>5. ASSUME NEW d PROVE Ahead(m, d) = Ahead(l, d) \ {l[i].who}
  <2>1. ASSUME NEW j \in DOMAIN m, m[j].due <= d PROVE m[j].who \in Ahead(l, d) \ {l[i].who}
    <3>1. Before(i, j) \in DOMAIN l /\ m[j].who = l[Before(i, j)].who
          /\ l[Before(i, j)].due <= d /\ Before(i, j) # i
      BY <1>2, <2>1
    <3> QED
      BY <1>1, <3>1 DEF Ahead
  <2>2. ASSUME NEW k \in DOMAIN l, l[k].due <= d, l[k].who # l[i].who
        PROVE  l[k].who \in Ahead(m, d)
    <3>1. PICK j \in DOMAIN m : Before(i, j) = k
      BY <1>2, <2>2
    <3>2. m[j].who = l[k].who /\ m[j].due <= d
      BY <1>2, <2>2, <3>1
    <3> QED
      BY <3>2 DEF Ahead
  <2> QED
    BY <2>1, <2>2 DEF Ahead
<1>6. Line(m)
  <2>1. l[i].who \in Waiting(l)
    BY DEF Waiting
  <2>2. IsFiniteSet(Waiting(l))
    BY AheadFinite
  <2>3. Cardinality(Waiting(m)) = Cardinality(Waiting(l)) - 1
    BY <1>4, <2>1, <2>2, FS_RemoveElement
  <2> QED
    BY <1>3, <2>3 DEF Line
<1>7. ASSUME NEW d, l[i].due <= d
      PROVE  Cardinality(Ahead(m, d)) = Cardinality(Ahead(l, d)) - 1
  <2>1. l[i].who \in Ahead(l, d)
    BY <1>7 DEF Ahead
  <2>2. IsFiniteSet(Ahead(l, d))
    BY AheadFinite
  <2> QED
    BY <1>5, <2>1, <2>2, FS_RemoveElement
<1> QED
  BY <1>1, <1>2, <1>4, <1>5, <1>6, <1>7

\* Line m is line l with every turn moved by k.
Shifted(l, m, k) ==
  /\ m \in Seq(Entry) /\ Len(m) = Len(l)
  /\ \A i \in DOMAIN l : m[i].who = l[i].who /\ m[i].due = l[i].due + k

(* Moving every turn by as much leaves the order of the turns alone.       *)
LEMMA ShiftLine ==
  ASSUME NEW l, Line(l), NEW m, NEW k \in Int, Shifted(l, m, k)
  PROVE  /\ Line(m)
         /\ Waiting(m) = Waiting(l)
         /\ DOMAIN m = DOMAIN l
         /\ \A i \in DOMAIN l : Ahead(m, m[i].due) = Ahead(l, l[i].due)
<1>0. /\ m \in Seq(Entry) /\ Len(m) = Len(l)
      /\ \A i \in DOMAIN l : m[i].who = l[i].who /\ m[i].due = l[i].due + k
  BY DEF Shifted
<1>1. /\ l \in Seq(Entry)
      /\ DOMAIN m = DOMAIN l
      /\ \A i \in DOMAIN l : l[i].due \in Nat /\ m[i].due \in Nat
  <2>1. l \in Seq(Entry) /\ DOMAIN m = DOMAIN l
    BY <1>0 DEF Line
  <2>2. \A i \in DOMAIN l : l[i] \in Entry /\ m[i] \in Entry
    BY <1>0, <2>1
  <2> QED
    BY <2>1, <2>2 DEF Entry
<1>2. Waiting(m) = Waiting(l)
  BY <1>0, <1>1 DEF Waiting
<1>3. Line(m)
  BY <1>0, <1>1, <1>2 DEF Line
<1>4. ASSUME NEW i \in DOMAIN l PROVE Ahead(m, m[i].due) = Ahead(l, l[i].due)
  <2>1. \A j \in DOMAIN l : m[j].due <= m[i].due <=> l[j].due <= l[i].due
    BY <1>0, <1>1
  <2> QED
    BY <1>0, <1>1, <2>1 DEF Ahead
<1> QED
  BY <1>1, <1>2, <1>3, <1>4

-----------------------------------------------------------------------------
(* What the invariant says, in a form the proofs below cite *)

(* A full bucket holds a token, at least.                                  *)
LEMMA FullProperties ==
  /\ TokenTime \in Nat /\ TokenTime > 0
  /\ Full \in Nat /\ TokenTime <= Full
<1>1. TokenTime \in Nat /\ TokenTime > 0 /\ Burst \in Nat /\ Burst >= 1
  BY LimitsAssumption
<1>2. Burst * TokenTime = TokenTime + (Burst - 1) * TokenTime /\ (Burst - 1) * TokenTime \in Nat
  <2>1. Burst - 1 \in Nat
    BY <1>1
  <2> QED
    BY <1>1, <2>1
<1> QED
  BY <1>1, <1>2 DEF Full

(* A pause never ends before the bucket thaws, so what is waited for is    *)
(* the end of the pause and what is missing of a token.                    *)
LEMMA WaitIs ==
  ASSUME IInv
  PROVE  /\ Refilled(paused) = balance
         /\ balance >= TokenTime => Wait = paused
         /\ balance < TokenTime => Wait = paused + (TokenTime - balance)
<1>1. balance \in Int /\ paused \in Nat /\ frozen = paused
  BY DEF IInv, TypeOK, Frozen
<1>2. Refilled(paused) = balance /\ Larger(paused, frozen) = paused
  BY <1>1 DEF Refilled, Larger
<1> QED
  BY <1>1, <1>2, FullProperties DEF Wait, WaitFrom

(* The fields are numbers, and every waiter's.                             *)
LEMMA Facts ==
  ASSUME IInv
  PROVE  /\ balance \in Int /\ balance <= Full
         /\ paused \in Nat /\ paused <= MaxPause /\ frozen = paused
         /\ paused > 0 => balance <= 0
         /\ MaxPause \in Nat /\ MaxWait \in Nat
         /\ credit \in Int /\ credit >= 0
         /\ credit >= balance + Worth(Len(line))
         /\ Worth(Len(line)) \in Nat
         /\ Wait \in Nat
         /\ Line(line)
         /\ line \in Seq(Entry)
         /\ Len(line) \in Nat
         /\ DOMAIN line = 1..Len(line)
         /\ at \in [Attempts -> Stages]
         /\ Waiting(line) = {a \in Attempts : at[a] = "asleep"}
         /\ forecast \in [in : -1..MaxPause, sure : BOOLEAN]
<1>1. Line(line) => line \in Seq(Entry) /\ Len(line) \in Nat /\ DOMAIN line = 1..Len(line)
  BY DEF Line
<1>2. Line(line)
  BY DEF IInv
<1>3. Worth(Len(line)) \in Nat
  BY <1>1, <1>2, WorthProperties
<1>4. Wait \in Nat
  BY WaitIs, FullProperties DEF IInv, TypeOK
<1> QED
  BY <1>1, <1>3, <1>4, LimitsAssumption
     DEF IInv, TypeOK, Frozen, Covered, WithinRate, Waiting

\* The numbers among them.
Sums ==
  /\ balance \in Int /\ balance <= Full
  /\ Full \in Nat /\ TokenTime \in Nat /\ TokenTime > 0 /\ TokenTime <= Full
  /\ paused \in Nat /\ paused <= MaxPause /\ frozen = paused
  /\ paused > 0 => balance <= 0
  /\ MaxPause \in Nat /\ MaxWait \in Nat /\ Wait \in Nat
  /\ credit \in Int /\ credit >= 0
  /\ credit >= balance + Worth(Len(line))
  /\ Len(line) \in Nat /\ Worth(Len(line)) \in Nat

(* They are numbers.                                                       *)
LEMMA Numbers == IInv => Sums
BY Facts, FullProperties DEF Sums

\* The tokens owed by the turn of the waiter in place i.
Owed(l, i) == Worth(Cardinality(Ahead(l, l[i].due)))

\* What the invariant says of a waiter.
Stands(i) ==
  /\ line[i].who \in Attempts
  /\ line[i].due \in Nat /\ line[i].sleep \in Nat
  /\ line[i].sleep <= line[i].due
  /\ paused <= line[i].due
  /\ ~line[i].refunded => line[i].due - paused <= 0 - balance
  /\ Owed(line, i) \in Nat
  /\ Owed(line, i) <= Worth(Len(line))
  /\ credit + (line[i].due - paused) >= Owed(line, i)

(* Each waiter stands as it should.                                        *)
LEMMA WaiterFacts ==
  ASSUME IInv, NEW i \in DOMAIN line
  PROVE  Stands(i) /\ line[i] \in Entry
<1>1. line[i] \in Entry
  BY Facts
<1>2. line[i].who \in Attempts /\ line[i].due \in Nat /\ line[i].sleep \in Nat
  BY <1>1 DEF Entry
<1>3. Cardinality(Ahead(line, line[i].due)) \in Nat
  BY Facts, AheadFinite
<1>4. /\ Worth(Cardinality(Ahead(line, line[i].due))) \in Nat
      /\ Worth(Cardinality(Ahead(line, line[i].due))) <= Worth(Len(line))
  <2>1. Cardinality(Ahead(line, line[i].due)) <= Len(line) /\ Len(line) \in Nat
    BY Facts, AheadFinite
  <2> QED
    BY <1>3, <2>1, WorthProperties
<1> QED
  BY <1>1, <1>2, <1>3, <1>4 DEF IInv, SpacingKept, Indebted, Earning, Stands, Owed

(* What is to be shown of a step, waiter by waiter.                        *)
LEMMA StepKeeps ==
  ASSUME Line(line'),
         Waiting(line') = {a \in Attempts : at'[a] = "asleep"},
         at' \in [Attempts -> Stages],
         balance' \in Int, balance' <= Full,
         paused' \in 0..MaxPause, frozen' = paused', paused' > 0 => balance' <= 0,
         credit' \in Int, credit' >= 0, credit' >= balance' + Worth(Len(line')),
         \A i \in DOMAIN line' :
           /\ line'[i].sleep <= line'[i].due
           /\ paused' <= line'[i].due
           /\ ~line'[i].refunded => line'[i].due - paused' <= 0 - balance'
           /\ credit' + (line'[i].due - paused') >= Owed(line', i),
         \A i, j \in DOMAIN line' :
           (i < j /\ ~line'[i].refunded) => line'[i].due + TokenTime <= line'[j].due,
         forecast' \in [in : -1..MaxPause, sure : BOOLEAN],
         Foreseen'
  PROVE  IInv'
<1>1. TypeOK'
  BY DEF TypeOK, Line, Waiting, Entry
<1>2. SpacingKept' /\ Indebted' /\ Earning'
  BY LimitsAssumption DEF SpacingKept, Indebted, Earning, Owed
<1> QED
  BY <1>1, <1>2 DEF IInv, Frozen, Covered, WithinRate

(* A step that moves nothing but the attempts that do not sleep.           *)
LEMMA QuietKeeps ==
  ASSUME IInv, UNCHANGED <<balance, frozen, paused, line, credit>>,
         at' \in [Attempts -> Stages],
         \A a \in Attempts : at'[a] = "asleep" <=> at[a] = "asleep",
         forecast' \in [in : -1..MaxPause, sure : BOOLEAN], Foreseen'
  PROVE  IInv'
<1>1. {a \in Attempts : at'[a] = "asleep"} = {a \in Attempts : at[a] = "asleep"}
  OBVIOUS
<1>2. TypeOK'
  BY <1>1 DEF IInv, TypeOK
<1>3. Line(line') /\ Frozen' /\ SpacingKept' /\ Covered' /\ Earning' /\ Indebted' /\ WithinRate'
  BY DEF IInv, Frozen, SpacingKept, Covered, Earning, Indebted, WithinRate
<1> QED
  BY <1>2, <1>3 DEF IInv

-----------------------------------------------------------------------------
(* The actions *)

(* A reservation puts the bucket a token further into debt, and the waiter *)
(* behind everybody for whom it is in debt (reserve, takeToken).           *)
LEMMA TakeTokenKeeps ==
  ASSUME IInv, NEW a \in Attempts, TakeToken(a)
  PROVE  IInv'
<1>0. Sums
  BY Numbers
<1>1. /\ at[a] \in {"idle", "bounced"}
      /\ Wait <= MaxWait
      /\ balance' = balance - TokenTime
      /\ frozen' = paused /\ paused' = paused
      /\ forecast' = forecast
  BY Facts, WaitIs DEF TakeToken, Reserve, Larger
<1>2. balance' \in Int /\ balance' <= Full /\ balance' <= balance
  BY <1>1, Facts, FullProperties
<1>3. Foreseen'
  BY <1>1, Facts DEF IInv, Foreseen
<1>4. CASE Wait = 0
  <2>1. /\ at' = [at EXCEPT ![a] = "admitted"]
        /\ credit' = credit - TokenTime
        /\ line' = line
    BY <1>4 DEF TakeToken
  <2>2. paused = 0 /\ balance >= TokenTime
    BY <1>4, Facts, WaitIs, FullProperties
  <2>3. /\ credit' \in Int
        /\ credit' >= Worth(Len(line))
        /\ Worth(Len(line)) >= 0
    BY <2>1, <2>2, Facts, FullProperties
  <2>4. ASSUME NEW i \in DOMAIN line
        PROVE  credit' + (line[i].due - paused) >= Owed(line, i)
    <3>1. Stands(i)
      BY WaiterFacts
    <3> QED
      BY <1>0, <2>3, <3>1 DEF Sums, Stands
  <2>5. {b \in Attempts : at'[b] = "asleep"} = {b \in Attempts : at[b] = "asleep"}
    BY <1>1, <2>1, Facts
  <2>6. at' \in [Attempts -> Stages]
    BY <2>1, Facts DEF Stages
  <2>7. \A i, j \in DOMAIN line' :
          (i < j /\ ~line'[i].refunded) => line'[i].due + TokenTime <= line'[j].due
    BY <2>1 DEF IInv, SpacingKept
  <2>8. /\ paused' \in 0..MaxPause /\ frozen' = paused' /\ (paused' > 0 => balance' <= 0)
        /\ credit' >= 0 /\ credit' >= balance' + Worth(Len(line'))
    BY <1>1, <2>1, <2>2, <2>3, Facts, FullProperties
  <2>9. ASSUME NEW i \in DOMAIN line'
        PROVE  /\ line'[i].sleep <= line'[i].due
               /\ paused' <= line'[i].due
               /\ ~line'[i].refunded => line'[i].due - paused' <= 0 - balance'
               /\ credit' + (line'[i].due - paused') >= Owed(line', i)
    <3>1. Stands(i)
      BY <2>1, WaiterFacts
    <3>2. credit' + (line[i].due - paused) >= Owed(line, i)
      BY <2>1, <2>4
    <3>3. Owed(line', i) = Owed(line, i)
      BY <2>1
    <3> QED
      BY <1>0, <1>1, <2>1, <3>1, <3>2, <3>3 DEF Sums, Stands
  <2> QED
    BY <1>1, <1>2, <1>3, <2>1, <2>3, <2>5, <2>6, <2>7, <2>8, <2>9, Facts, StepKeeps
<1>5. CASE Wait > 0
  <2> DEFINE e == Asleep(a)
             m == Append(line, e)
  <2>1. /\ at' = [at EXCEPT ![a] = "asleep"]
        /\ line' = m
        /\ credit' = credit
    BY <1>5 DEF TakeToken
  <2>2. balance < TokenTime /\ Wait = paused + (TokenTime - balance)
    BY <1>5, Facts, WaitIs, FullProperties
  <2>3. /\ e \in Entry
        /\ e.who = a /\ e.due = Wait /\ e.sleep = Wait
    BY Facts DEF Asleep, Entry
  <2>4. a \notin Waiting(line)
    BY <1>1, Facts
  <2> HIDE DEF e
  <2>5. /\ Line(m)
        /\ Waiting(m) = Waiting(line) \cup {a}
        /\ Len(m) = Len(line) + 1
        /\ DOMAIN line = 1..Len(line) /\ DOMAIN m = 1..(Len(line) + 1)
        /\ \A i \in DOMAIN line : m[i] = line[i]
        /\ m[Len(line) + 1] = e
        /\ \A d \in Int : d < Wait => Ahead(m, d) = Ahead(line, d)
        /\ \A d : Cardinality(Ahead(m, d)) <= Cardinality(Ahead(line, d)) + 1
    BY <2>3, <2>4, Facts, JoinLine
  <2> HIDE DEF m
  <2>6. Worth(Len(m)) = Worth(Len(line)) + TokenTime
    BY <2>5, Facts, WorthProperties
  <2>7. ASSUME NEW i \in DOMAIN m, m[i].due \in Nat, m[i].due >= Wait
        PROVE  credit + (m[i].due - paused) >= Owed(m, i)
    <3>1. /\ Cardinality(Ahead(m, m[i].due)) \in Nat
          /\ Cardinality(Ahead(m, m[i].due)) <= Len(m)
          /\ Len(m) \in Nat
      BY <2>5, AheadFinite
    <3>2. Worth(Cardinality(Ahead(m, m[i].due))) <= Worth(Len(m))
      BY <3>1, WorthProperties
    <3>3. Worth(Cardinality(Ahead(m, m[i].due))) \in Nat
      BY <3>1, WorthProperties
    <3> QED
      BY <1>0, <2>2, <2>6, <2>7, <3>2, <3>3 DEF Sums, Owed
  <2>8. ASSUME NEW i \in DOMAIN m
        PROVE  /\ m[i].sleep <= m[i].due
               /\ paused <= m[i].due
               /\ ~m[i].refunded => m[i].due - paused <= 0 - balance'
               /\ credit + (m[i].due - paused) >= Owed(m, i)
    <3>1. CASE i \in DOMAIN line
      <4>1. m[i] = line[i] /\ Stands(i)
        BY <2>5, <3>1, WaiterFacts
      <4>2. credit + (m[i].due - paused) >= Owed(m, i)
        <5>1. CASE m[i].due >= Wait
          BY <2>7, <4>1, <5>1 DEF Stands
        <5>2. CASE m[i].due < Wait
          <6>1. Owed(m, i) = Owed(line, i)
            BY <2>5, <4>1, <5>2 DEF Owed, Stands
          <6> QED
            BY <4>1, <6>1 DEF Stands
        <5> QED
          BY <1>0, <4>1, <5>1, <5>2 DEF Sums, Stands
      <4> QED
        BY <1>0, <1>1, <4>1, <4>2 DEF Sums, Stands
    <3>2. CASE i = Len(line) + 1
      <4>1. m[i].due = Wait /\ m[i].sleep = Wait
        BY <2>3, <2>5, <3>2
      <4>2. credit + (m[i].due - paused) >= Owed(m, i)
        BY <1>0, <2>7, <4>1 DEF Sums
      <4> QED
        BY <1>0, <1>1, <2>2, <4>1, <4>2 DEF Sums
    <3> QED
      BY <1>0, <2>5, <3>1, <3>2 DEF Sums
  <2>9. ASSUME NEW i \in DOMAIN m, NEW j \in DOMAIN m, i < j, ~m[i].refunded
        PROVE  m[i].due + TokenTime <= m[j].due
    <3>1. i \in DOMAIN line /\ m[i] = line[i]
      BY <2>5, <2>9, Facts
    <3>2. CASE j \in DOMAIN line
      BY <2>5, <2>9, <3>1, <3>2 DEF IInv, SpacingKept
    <3>3. CASE j = Len(line) + 1
      <4>1. m[j].due = Wait /\ Stands(i)
        BY <2>3, <2>5, <3>1, <3>3, WaiterFacts
      <4> QED
        BY <1>0, <2>2, <2>9, <3>1, <4>1 DEF Sums, Stands
    <3> QED
      BY <2>5, <3>2, <3>3, Facts
  <2>10. /\ {b \in Attempts : at'[b] = "asleep"} = {b \in Attempts : at[b] = "asleep"} \cup {a}
         /\ at' \in [Attempts -> Stages]
    BY <2>1, Facts DEF Stages
  <2>11. /\ paused' \in 0..MaxPause /\ frozen' = paused' /\ (paused' > 0 => balance' <= 0)
         /\ credit' \in Int /\ credit' >= 0 /\ credit' >= balance' + Worth(Len(line'))
    <3>1. Worth(Len(line')) = Worth(Len(line)) + TokenTime
      BY <2>1, <2>6
    <3>2. credit' = credit
      BY <2>1
    <3>3. paused' \in 0..MaxPause /\ frozen' = paused' /\ (paused' > 0 => balance' <= 0)
      BY <1>0, <1>1 DEF Sums
    <3>4. credit >= (balance - TokenTime) + (Worth(Len(line)) + TokenTime)
      BY <1>0 DEF Sums
    <3> QED
      BY <1>0, <1>1, <3>1, <3>2, <3>3, <3>4 DEF Sums
  <2>12. /\ Line(line') /\ Waiting(line') = {b \in Attempts : at'[b] = "asleep"}
    BY <2>1, <2>5, <2>10, Facts
  <2>13. forecast' \in [in : -1..MaxPause, sure : BOOLEAN]
    BY <1>1, Facts
  <2> QED
    BY <1>1, <1>2, <1>3, <2>1, <2>8, <2>9, <2>10, <2>11, <2>12, <2>13, StepKeeps
<1> QED
  BY <1>4, <1>5, Facts

(* A refusal, the front of the queues, an end and a forecast move nothing  *)
(* of the bucket or the line.                                              *)
LEMMA RestKeeps ==
  ASSUME IInv,
         \/ \E a \in Attempts : RefuseToken(a) \/ Start(a) \/ End(a)
         \/ \E ms \in 0..MaxPause : Foresee(ms)
  PROVE  IInv'
<1>0. Sums /\ at \in [Attempts -> Stages] /\ forecast \in [in : -1..MaxPause, sure : BOOLEAN]
  BY Numbers, Facts
<1>2. ASSUME NEW a \in Attempts, RefuseToken(a) \/ Start(a) \/ End(a) PROVE IInv'
  <2>1. /\ UNCHANGED <<balance, frozen, paused, line, credit, forecast>>
        /\ at' \in [Attempts -> Stages]
        /\ \A b \in Attempts : at'[b] = "asleep" <=> at[b] = "asleep"
    BY <1>0, <1>2 DEF RefuseToken, Start, End, Stages
  <2>2. Foreseen'
    BY <2>1 DEF IInv, Foreseen, Wait, WaitFrom, Refilled
  <2> QED
    BY <1>0, <2>1, <2>2, QuietKeeps
<1>3. ASSUME NEW ms \in 0..MaxPause, Foresee(ms) PROVE IInv'
  <2>1. UNCHANGED <<balance, frozen, paused, line, at, credit>>
    BY <1>3 DEF Foresee
  <2>2. /\ forecast' = [in |-> ms, sure |-> TRUE]
        /\ WaitFrom(paused) - ms > MaxWait
    BY <1>3 DEF Foresee, RefusedAfter
  <2>3. Wait' = WaitFrom(paused)
    BY <2>1 DEF Wait, WaitFrom, Refilled
  <2>4. Foreseen' /\ forecast' \in [in : -1..MaxPause, sure : BOOLEAN]
    BY <1>0, <2>2, <2>3 DEF Foreseen, Sums
  <2> QED
    BY <1>0, <2>1, <2>4, QuietKeeps
<1> QED
  BY <1>2, <1>3

(* A step that moves every turn by as much, and in which each waiter       *)
(* stands as it should afterwards.                                         *)
LEMMA ShiftKeeps ==
  ASSUME IInv, NEW k \in Int,
         line' \in Seq(Entry), Len(line') = Len(line),
         \A i \in DOMAIN line :
           /\ line'[i].who = line[i].who
           /\ line'[i].due = line[i].due + k
           /\ line'[i].refunded = line[i].refunded
           /\ line'[i].sleep <= line'[i].due
           /\ paused' <= line'[i].due
           /\ ~line[i].refunded => line'[i].due - paused' <= 0 - balance'
           /\ credit' + (line'[i].due - paused') >= Owed(line, i),
         at' \in [Attempts -> Stages],
         \A a \in Attempts : at'[a] = "asleep" <=> at[a] = "asleep",
         balance' \in Int, balance' <= Full,
         paused' \in 0..MaxPause, frozen' = paused', paused' > 0 => balance' <= 0,
         credit' \in Int, credit' >= 0, credit' >= balance' + Worth(Len(line)),
         forecast' \in [in : -1..MaxPause, sure : BOOLEAN],
         Foreseen'
  PROVE  IInv'
<1>1. /\ Line(line')
      /\ Waiting(line') = Waiting(line)
      /\ DOMAIN line' = DOMAIN line
      /\ \A i \in DOMAIN line : Ahead(line', line'[i].due) = Ahead(line, line[i].due)
  <2>1. Line(line)
    BY Facts
  <2>2. Shifted(line, line', k)
    BY DEF Shifted
  <2> QED
    BY <2>1, <2>2, ShiftLine
<1>2. \A i \in DOMAIN line : Owed(line', i) = Owed(line, i)
  BY <1>1 DEF Owed
<1>3. Waiting(line') = {a \in Attempts : at'[a] = "asleep"}
  BY <1>1, Facts
<1>4. \A i, j \in DOMAIN line' :
        (i < j /\ ~line'[i].refunded) => line'[i].due + TokenTime <= line'[j].due
  <2> SUFFICES ASSUME NEW i \in DOMAIN line, NEW j \in DOMAIN line, i < j, ~line[i].refunded
               PROVE  line[i].due + k + TokenTime <= line[j].due + k
    BY <1>1
  <2>1. line[i].due + TokenTime <= line[j].due
    BY DEF IInv, SpacingKept
  <2>2. Stands(i) /\ Stands(j) /\ Sums
    BY WaiterFacts, Numbers
  <2>3. line[i].due \in Nat /\ line[j].due \in Nat /\ TokenTime \in Nat
    BY <2>2 DEF Stands, Sums
  <2>4. \A x, y, z \in Nat : x + z <= y => x + k + z <= y + k
    OBVIOUS
  <2> QED
    BY <2>1, <2>3, <2>4
<1> QED
  BY <1>1, <1>2, <1>3, <1>4, StepKeeps

(* A waiter that wakes early sleeps on, until its turn and no longer.      *)
LEMMA SleepOnKeeps ==
  ASSUME IInv, NEW i \in DOMAIN line, TimerFires(i), SleepOn(i)
  PROVE  IInv'
<1>0. Sums /\ line \in Seq(Entry) /\ Stands(i) /\ line[i] \in Entry
  BY Numbers, Facts, WaiterFacts
<1>1. /\ line' = [line EXCEPT ![i].sleep = line[i].due]
      /\ UNCHANGED <<balance, frozen, paused, at, credit, forecast>>
  <2>1. TurnOf(i) = line[i].due
    BY <1>0 DEF TurnOf, Larger, Sums, Stands
  <2> QED
    BY <2>1 DEF SleepOn, TimerFires
<1>2. ASSUME NEW j \in DOMAIN line
      PROVE  /\ line'[j] \in Entry
             /\ line'[j].who = line[j].who /\ line'[j].due = line[j].due
             /\ line'[j].refunded = line[j].refunded
             /\ line'[j].sleep <= line'[j].due
  <2>1. line[j] \in Entry /\ Stands(j)
    BY WaiterFacts
  <2>2. line'[j] = IF j = i THEN [line[i] EXCEPT !.sleep = line[i].due] ELSE line[j]
    BY <1>0, <1>1
  <2>3. CASE j = i
    BY <2>1, <2>2, <2>3 DEF Entry, Stands
  <2>4. CASE j # i
    BY <2>1, <2>2, <2>4 DEF Stands
  <2> QED
    BY <2>3, <2>4
<1>3. line' = [j \in DOMAIN line |-> line'[j]]
  BY <1>0, <1>1
<1>4. line' \in Seq(Entry) /\ Len(line') = Len(line)
  BY <1>0, <1>2, <1>3
<1>5. ASSUME NEW j \in DOMAIN line
      PROVE  /\ line'[j].who = line[j].who
             /\ line'[j].due = line[j].due + 0
             /\ line'[j].refunded = line[j].refunded
             /\ line'[j].sleep <= line'[j].due
             /\ paused' <= line'[j].due
             /\ ~line[j].refunded => line'[j].due - paused' <= 0 - balance'
             /\ credit' + (line'[j].due - paused') >= Owed(line, j)
  <2>1. Stands(j)
    BY WaiterFacts
  <2> QED
    BY <1>1, <1>2, <2>1 DEF Stands
<1>6. Foreseen'
  BY <1>1 DEF IInv, Foreseen, Wait, WaitFrom, Refilled
<1>7. /\ at' \in [Attempts -> Stages]
      /\ \A a \in Attempts : at'[a] = "asleep" <=> at[a] = "asleep"
      /\ forecast' \in [in : -1..MaxPause, sure : BOOLEAN]
  BY <1>1, Facts
<1>8. /\ balance' \in Int /\ balance' <= Full
      /\ paused' \in 0..MaxPause /\ frozen' = paused' /\ (paused' > 0 => balance' <= 0)
      /\ credit' \in Int /\ credit' >= 0 /\ credit' >= balance' + Worth(Len(line))
  BY <1>0, <1>1 DEF Sums
<1>9. 0 \in Int
  OBVIOUS
<1> QED
  BY <1>4, <1>5, <1>6, <1>7, <1>8, <1>9, ShiftKeeps

\* Line m is line l without the waiter in place i; some may have been handed
\* a token back.
Leaves(l, i, m) ==
  /\ m \in Seq(Entry) /\ Len(m) = Len(l) - 1
  /\ \A j \in 1..(Len(l) - 1) : /\ m[j].who = l[Before(i, j)].who
                                /\ m[j].due = l[Before(i, j)].due
                                /\ m[j].sleep = l[Before(i, j)].sleep
                                /\ m[j].refunded \/ ~l[Before(i, j)].refunded

(* Somebody leaves the line, and each of the others stands as it should    *)
(* afterwards.                                                             *)
LEMMA LeaveKeeps ==
  ASSUME IInv, NEW i \in DOMAIN line, Leaves(line, i, line'),
         NEW stage \in Stages, stage # "asleep",
         at' = [at EXCEPT ![line[i].who] = stage],
         balance' \in Int, balance' <= Full,
         paused' = paused, frozen' = frozen, paused > 0 => balance' <= 0,
         credit' \in Int, credit' >= 0, credit' >= balance' + Worth(Len(line) - 1),
         \A j \in DOMAIN line' :
           /\ ~line'[j].refunded => line'[j].due - paused <= 0 - balance'
           /\ credit' + (line'[j].due - paused) >= Owed(line', j),
         forecast' \in [in : -1..MaxPause, sure : BOOLEAN],
         Foreseen'
  PROVE  IInv'
<1>0. Sums /\ Line(line) /\ Stands(i)
  BY Numbers, Facts, WaiterFacts
<1>1. /\ line' \in Seq(Entry) /\ Len(line') = Len(line) - 1
      /\ \A j \in 1..(Len(line) - 1) : /\ line'[j].who = line[Before(i, j)].who
                                       /\ line'[j].due = line[Before(i, j)].due
                                       /\ line'[j].sleep = line[Before(i, j)].sleep
                                       /\ line'[j].refunded \/ ~line[Before(i, j)].refunded
  BY DEF Leaves
<1>2. /\ Line(line')
      /\ Waiting(line') = Waiting(line) \ {line[i].who}
      /\ DOMAIN line' = 1..(Len(line) - 1)
      /\ \A j \in DOMAIN line' : Before(i, j) \in DOMAIN line
  <2> DEFINE m == line'
  <2>1. /\ m \in Seq(Entry) /\ Len(m) = Len(line) - 1
        /\ \A j \in 1..(Len(line) - 1) : /\ m[j].who = line[Before(i, j)].who
                                         /\ m[j].due = line[Before(i, j)].due
    BY <1>1
  <2> HIDE DEF m
  <2>2. /\ Line(m)
        /\ Waiting(m) = Waiting(line) \ {line[i].who}
        /\ DOMAIN m = 1..(Len(line) - 1)
        /\ \A j \in DOMAIN m : Before(i, j) \in DOMAIN line
    BY <1>0, <2>1, LeaveLine
  <2> QED
    BY <2>2 DEF m
<1>3. ASSUME NEW j \in DOMAIN line'
      PROVE  /\ line'[j].sleep <= line'[j].due
             /\ paused' <= line'[j].due
             /\ ~line'[j].refunded => line'[j].due - paused' <= 0 - balance'
             /\ credit' + (line'[j].due - paused') >= Owed(line', j)
  <2>1. Stands(Before(i, j)) /\ j \in 1..(Len(line) - 1)
    BY <1>2, WaiterFacts
  <2>2. line'[j].sleep <= line'[j].due /\ paused' <= line'[j].due
    BY <1>1, <2>1 DEF Stands
  <2> QED
    BY <2>2
<1>4. ASSUME NEW j \in DOMAIN line', NEW k \in DOMAIN line', j < k, ~line'[j].refunded
      PROVE  line'[j].due + TokenTime <= line'[k].due
  <2>1. j \in 1..(Len(line) - 1) /\ k \in 1..(Len(line) - 1)
    BY <1>2
  <2>2. /\ Before(i, j) \in DOMAIN line /\ Before(i, k) \in DOMAIN line
        /\ Before(i, j) < Before(i, k)
    <3>0. DOMAIN line = 1..Len(line)
      BY Facts
    <3>1. i \in Nat /\ j \in Nat /\ k \in Nat
      BY <2>1, <3>0
    <3>2. Before(i, j) < Before(i, k)
      BY <1>4, <3>1 DEF Before
    <3> QED
      BY <1>2, <3>2
  <2>3. ~line[Before(i, j)].refunded
    BY <1>1, <1>4, <2>1
  <2>4. line[Before(i, j)].due + TokenTime <= line[Before(i, k)].due
    BY <2>2, <2>3 DEF IInv, SpacingKept
  <2> QED
    BY <1>1, <2>1, <2>4
<1>5. /\ Waiting(line') = {a \in Attempts : at'[a] = "asleep"}
      /\ at' \in [Attempts -> Stages]
  BY <1>0, <1>2, Facts DEF Stands
<1>6. paused' \in 0..MaxPause /\ frozen' = paused' /\ (paused' > 0 => balance' <= 0)
  BY <1>0 DEF Sums
<1>7. credit' >= balance' + Worth(Len(line'))
  BY <1>1
<1> QED
  BY <1>2, <1>3, <1>4, <1>5, <1>6, <1>7, StepKeeps

(* Removing place i shifts the places behind it forward.                   *)
LEMMA RemoveAtProperties ==
  ASSUME NEW S, NEW s \in Seq(S), NEW i \in 1..Len(s)
  PROVE  /\ RemoveAt(s, i) \in Seq(S)
         /\ Len(RemoveAt(s, i)) = Len(s) - 1
         /\ \A j \in 1..(Len(s) - 1) :
              RemoveAt(s, i)[j] = IF j < i THEN s[j] ELSE s[j + 1]
<1> DEFINE front == SubSeq(s, 1, i - 1)
           back == SubSeq(s, i + 1, Len(s))
<1>1. /\ front \in Seq(S) /\ Len(front) = i - 1 /\ \A j \in 1..(i - 1) : front[j] = s[j]
      /\ back \in Seq(S) /\ Len(back) = Len(s) - i
      /\ \A j \in 1..(Len(s) - i) : back[j] = s[i + j]
  OBVIOUS
<1>2. RemoveAt(s, i) = front \o back
  BY DEF RemoveAt
<1> HIDE DEF front, back
<1>3. /\ front \o back \in Seq(S) /\ Len(front \o back) = Len(front) + Len(back)
      /\ \A j \in 1..(Len(front) + Len(back)) :
           (front \o back)[j] = IF j <= Len(front) THEN front[j] ELSE back[j - Len(front)]
  BY <1>1, ConcatProperties
<1>4. ASSUME NEW j \in 1..(Len(s) - 1)
      PROVE  (front \o back)[j] = IF j < i THEN s[j] ELSE s[j + 1]
  <2>1. CASE j < i
    BY <1>1, <1>3, <2>1
  <2>2. CASE ~(j < i)
    <3>1. /\ j - (i - 1) \in 1..(Len(s) - i) /\ i + (j - (i - 1)) = j + 1
          /\ j \in 1..((i - 1) + (Len(s) - i)) /\ ~(j <= i - 1)
      BY <2>2
    <3>2. (front \o back)[j] = back[j - (i - 1)]
      BY <1>1, <1>3, <3>1
    <3>3. back[j - (i - 1)] = s[j + 1]
      BY <1>1, <3>1
    <3> QED
      BY <2>2, <3>2, <3>3
  <2> QED
    BY <2>1, <2>2
<1>5. Len(front) + Len(back) = Len(s) - 1
  BY <1>1
<1> QED
  BY <1>2, <1>3, <1>4, <1>5

(* What is left of a line by RemoveAt.                                     *)
LEMMA RemoveLeaves ==
  ASSUME IInv, NEW i \in DOMAIN line
  PROVE  Leaves(line, i, RemoveAt(line, i))
<1>1. line \in Seq(Entry) /\ i \in 1..Len(line)
  BY Facts
<1>2. /\ RemoveAt(line, i) \in Seq(Entry)
      /\ Len(RemoveAt(line, i)) = Len(line) - 1
      /\ \A j \in 1..(Len(line) - 1) :
           RemoveAt(line, i)[j] = IF j < i THEN line[j] ELSE line[j + 1]
  BY <1>1, RemoveAtProperties
<1>3. \A j \in 1..(Len(line) - 1) : RemoveAt(line, i)[j] = line[Before(i, j)]
  BY <1>2 DEF Before
<1> QED
  BY <1>2, <1>3 DEF Leaves

(* A waiter whose turn has come takes the token earned for it: everybody   *)
(* whose turn is later had it counted.                                     *)
LEMMA AwakeKeeps ==
  ASSUME IInv, NEW i \in DOMAIN line, TimerFires(i), Awake(i)
  PROVE  IInv'
<1>0. Sums /\ Line(line) /\ Stands(i)
  BY Numbers, Facts, WaiterFacts
<1>1. /\ line' = RemoveAt(line, i)
      /\ at' = [at EXCEPT ![line[i].who] = "admitted"]
      /\ credit' = credit - TokenTime
      /\ UNCHANGED <<balance, frozen, paused, forecast>>
      /\ line[i].due = 0 /\ paused = 0
  <2>1. line[i].due \in Nat /\ paused \in Nat
    BY <1>0 DEF Sums, Stands
  <2>2. line[i].due = 0 /\ paused = 0
    BY <2>1 DEF Awake, TurnOf, Larger
  <2> QED
    BY <2>2 DEF Awake, TimerFires
<1>2. Leaves(line, i, line')
  BY <1>1, RemoveLeaves
<1>3. /\ line' \in Seq(Entry) /\ Len(line') = Len(line) - 1
      /\ \A j \in 1..(Len(line) - 1) : /\ line'[j].who = line[Before(i, j)].who
                                       /\ line'[j].due = line[Before(i, j)].due
                                       /\ line'[j].refunded \/ ~line[Before(i, j)].refunded
  BY <1>2 DEF Leaves
<1>4. /\ DOMAIN line' = 1..(Len(line) - 1)
      /\ \A j \in DOMAIN line' : Before(i, j) \in DOMAIN line
      /\ \A d : line[i].due <= d => Cardinality(Ahead(line', d)) = Cardinality(Ahead(line, d)) - 1
      /\ Line(line')
  BY <1>0, <1>3, LeaveLine
<1>5. ASSUME NEW d \in Nat
      PROVE  /\ Worth(Cardinality(Ahead(line', d))) \in Nat
             /\ Worth(Cardinality(Ahead(line, d))) = Worth(Cardinality(Ahead(line', d))) + TokenTime
  <2>1. Cardinality(Ahead(line, d)) \in Nat /\ Cardinality(Ahead(line', d)) \in Nat
    BY <1>0, <1>4, AheadFinite
  <2>2. Cardinality(Ahead(line, d)) = Cardinality(Ahead(line', d)) + 1
    BY <1>1, <1>4, <2>1
  <2> QED
    BY <2>1, <2>2, WorthProperties
<1>6. credit' \in Int /\ credit' >= 0
  <2>1. credit >= Worth(Cardinality(Ahead(line, 0)))
    BY <1>0, <1>1 DEF Sums, Stands, Owed
  <2>2. /\ Worth(Cardinality(Ahead(line', 0))) \in Nat
        /\ Worth(Cardinality(Ahead(line, 0))) = Worth(Cardinality(Ahead(line', 0))) + TokenTime
    BY <1>5
  <2> QED
    BY <1>0, <1>1, <2>1, <2>2 DEF Sums
<1>7. credit' >= balance' + Worth(Len(line) - 1)
  <2>1. PICK n \in Nat : Len(line) - 1 = n /\ Len(line) = n + 1
    <3>1. Len(line) - 1 \in Nat /\ Len(line) = (Len(line) - 1) + 1
      BY <1>0, Facts DEF Sums
    <3> QED
      BY <3>1
  <2>2. /\ Worth(Len(line) - 1) = Worth(n) /\ Worth(n) \in Nat
        /\ Worth(Len(line)) = Worth(n) + TokenTime
    BY <2>1, WorthProperties
  <2> QED
    BY <1>0, <1>1, <2>2 DEF Sums
<1>8. ASSUME NEW j \in DOMAIN line'
      PROVE  /\ ~line'[j].refunded => line'[j].due - paused <= 0 - balance'
             /\ credit' + (line'[j].due - paused) >= Owed(line', j)
  <2> DEFINE b == Before(i, j)
  <2>1. /\ Stands(b)
        /\ line'[j].due = line[b].due
        /\ line'[j].refunded \/ ~line[b].refunded
    BY <1>3, <1>4, WaiterFacts
  <2> HIDE DEF b
  <2>2. /\ Worth(Cardinality(Ahead(line', line[b].due))) \in Nat
        /\ Worth(Cardinality(Ahead(line, line[b].due)))
             = Worth(Cardinality(Ahead(line', line[b].due))) + TokenTime
    BY <1>5, <2>1 DEF Stands
  <2>3. Owed(line', j) = Worth(Cardinality(Ahead(line', line[b].due)))
    BY <2>1 DEF Owed
  <2>4. credit + (line[b].due - paused) >= Worth(Cardinality(Ahead(line, line[b].due)))
    BY <2>1 DEF Stands, Owed
  <2>5. line[b].due \in Nat /\ (~line[b].refunded => line[b].due - paused <= 0 - balance)
    BY <2>1 DEF Stands
  <2>6. credit' + (line[b].due - paused) >= Owed(line', j)
    BY <1>0, <1>1, <2>2, <2>3, <2>4, <2>5 DEF Sums
  <2>7. CASE line[b].refunded
    BY <2>1, <2>6, <2>7
  <2>8. CASE ~line[b].refunded
    BY <1>1, <2>1, <2>5, <2>6, <2>8
  <2> QED
    BY <2>7, <2>8
<1>9. Foreseen' /\ forecast' \in [in : -1..MaxPause, sure : BOOLEAN]
  BY <1>1, Facts DEF IInv, Foreseen, Wait, WaitFrom, Refilled
<1>10. /\ balance' \in Int /\ balance' <= Full
       /\ paused' = paused /\ frozen' = frozen /\ (paused > 0 => balance' <= 0)
       /\ "admitted" \in Stages /\ "admitted" # "asleep"
  BY <1>0, <1>1 DEF Sums, Stages
<1> QED
  BY <1>1, <1>2, <1>6, <1>7, <1>8, <1>9, <1>10, LeaveKeeps

(* A waiter that leaves hands its token back.  What the others are owed    *)
(* stays earned; what they are not owed is forgotten if the bucket is      *)
(* paused (refund).                                                        *)
LEMMA AbortSleepKeeps ==
  ASSUME IInv, NEW i \in DOMAIN line, AbortSleep(i)
  PROVE  IInv'
<1>0. Sums /\ Line(line) /\ Stands(i)
  BY Numbers, Facts, WaiterFacts
<1> DEFINE m == RemoveAt(line, i)
<1>1. /\ Refund
      /\ line' = [j \in 1..(Len(line) - 1) |-> [m[j] EXCEPT !.refunded = TRUE]]
      /\ at' = [at EXCEPT ![line[i].who] = "idle"]
      /\ credit' = IF paused > 0 THEN Smaller(credit, Worth(Len(line) - 1)) ELSE credit
      /\ forecast' = [forecast EXCEPT !.sure = FALSE]
      /\ UNCHANGED <<frozen, paused>>
  BY DEF AbortSleep, Worth
<1>2. Leaves(line, i, m)
  BY RemoveLeaves
<1> HIDE DEF m
<1>3. /\ m \in Seq(Entry) /\ Len(m) = Len(line) - 1
      /\ DOMAIN m = 1..(Len(line) - 1)
      /\ \A j \in 1..(Len(line) - 1) : /\ m[j].who = line[Before(i, j)].who
                                       /\ m[j].due = line[Before(i, j)].due
                                       /\ m[j].sleep = line[Before(i, j)].sleep
  BY <1>2 DEF Leaves
<1>4. \A j \in 1..(Len(line) - 1) : m[j] \in Entry
  BY <1>3
<1>5. ASSUME NEW j \in 1..(Len(line) - 1)
      PROVE  /\ line'[j] \in Entry
             /\ line'[j].who = m[j].who /\ line'[j].due = m[j].due
             /\ line'[j].sleep = m[j].sleep /\ line'[j].refunded
  <2>1. line'[j] = [m[j] EXCEPT !.refunded = TRUE]
    BY <1>1
  <2>2. m[j] \in Entry
    BY <1>4
  <2> QED
    BY <2>1, <2>2 DEF Entry
<1>6. line' \in Seq(Entry) /\ Len(line') = Len(line) - 1 /\ DOMAIN line' = 1..(Len(line) - 1)
  <2>1. Len(line) - 1 \in Nat
    BY <1>3
  <2>2. line' = [j \in 1..(Len(line) - 1) |-> line'[j]]
    BY <1>1
  <2> QED
    BY <1>5, <2>1, <2>2
<1>7. Leaves(line, i, line')
  BY <1>3, <1>5, <1>6 DEF Leaves
<1>8. /\ \A d : Ahead(line', d) \subseteq Ahead(line, d)
      /\ \A j \in DOMAIN line' : Before(i, j) \in DOMAIN line
      /\ Line(line')
  <2>1. /\ line' \in Seq(Entry) /\ Len(line') = Len(line) - 1
        /\ \A j \in 1..(Len(line) - 1) : /\ line'[j].who = line[Before(i, j)].who
                                         /\ line'[j].due = line[Before(i, j)].due
    BY <1>7 DEF Leaves
  <2> QED
    BY <1>0, <2>1, LeaveLine
<1>9. PICK n \in Nat : Len(line) - 1 = n /\ Len(line) = n + 1
  BY <1>0, <1>3 DEF Sums
<1>10. /\ Worth(Len(line) - 1) = Worth(n) /\ Worth(n) \in Nat
       /\ Worth(Len(line)) = Worth(n) + TokenTime
  BY <1>9, WorthProperties
<1>11. /\ balance' \in Int /\ balance' <= Full /\ balance' <= balance + TokenTime
       /\ (paused > 0 => balance' <= 0)
  BY <1>0, <1>1 DEF Refund, Smaller, Sums
<1>12. /\ credit' \in Int /\ credit' >= 0
       /\ credit' >= balance' + Worth(Len(line) - 1)
       /\ credit' = credit \/ credit' = Worth(n)
  <2>0. /\ credit \in Int /\ credit >= 0 /\ credit >= balance + Worth(n) + TokenTime
        /\ balance \in Int /\ TokenTime \in Nat
    BY <1>0, <1>10 DEF Sums
  <2>1. CASE paused > 0
    <3>1. credit' = Smaller(credit, Worth(n)) /\ balance' <= 0
      BY <1>1, <1>10, <1>11, <2>1
    <3>2. credit' \in Int /\ credit' >= 0 /\ (credit' = credit \/ credit' = Worth(n))
      BY <1>10, <2>0, <3>1 DEF Smaller
    <3>3. CASE credit' = Worth(n)
      BY <1>10, <1>11, <3>1, <3>2, <3>3
    <3>4. CASE credit' = credit
      BY <1>10, <1>11, <2>0, <3>2, <3>4
    <3> QED
      BY <3>2, <3>3, <3>4
  <2>2. CASE ~(paused > 0)
    <3>1. credit' = credit
      BY <1>1, <2>2
    <3> QED
      BY <1>10, <1>11, <2>0, <3>1
  <2> QED
    BY <2>1, <2>2
<1>13. ASSUME NEW j \in DOMAIN line'
       PROVE  /\ ~line'[j].refunded => line'[j].due - paused <= 0 - balance'
              /\ credit' + (line'[j].due - paused) >= Owed(line', j)
  <2> DEFINE b == Before(i, j)
  <2>1. /\ Stands(b) /\ line'[j].due = line[b].due /\ line'[j].refunded
    BY <1>3, <1>5, <1>6, <1>8, WaiterFacts
  <2>2. b \in DOMAIN line
    BY <1>8
  <2> HIDE DEF b
  <2> DEFINE now == Cardinality(Ahead(line', line[b].due))
             then == Cardinality(Ahead(line, line[b].due))
  <2>3. now \in Nat /\ now <= n /\ then \in Nat /\ now <= then
    <3>1. now \in Nat /\ now <= n
      BY <1>6, <1>8, <1>9, AheadFinite
    <3>2. IsFiniteSet(Ahead(line, line[b].due)) /\ then \in Nat
      BY <1>0, AheadFinite
    <3>3. now <= then
      BY <1>8, <3>2, FS_Subset
    <3> QED
      BY <3>1, <3>2, <3>3
  <2>4. Owed(line', j) = Worth(now) /\ Owed(line, b) = Worth(then)
    BY <2>1 DEF Owed
  <2> HIDE DEF now, then
  <2>5. Worth(now) <= Worth(then) /\ Worth(now) <= Worth(n) /\ Worth(now) \in Nat
    BY <2>3, WorthProperties
  <2>6. /\ line[b].due \in Nat /\ paused <= line[b].due
        /\ credit + (line[b].due - paused) >= Worth(then) /\ Worth(then) \in Nat
    BY <2>1, <2>4 DEF Stands
  <2>7. credit' + (line[b].due - paused) >= Worth(now)
    <3>0. credit \in Int /\ paused \in Nat
      BY <1>0 DEF Sums
    <3>1. CASE credit' = credit
      BY <2>5, <2>6, <3>0, <3>1
    <3>2. CASE credit' = Worth(n)
      <4>1. line[b].due - paused >= 0
        BY <2>6, <3>0
      <4> QED
        BY <1>10, <2>5, <2>6, <3>0, <3>2, <4>1
    <3> QED
      BY <1>12, <3>1, <3>2
  <2> QED
    BY <2>1, <2>4, <2>7
<1>14. Foreseen' /\ forecast' \in [in : -1..MaxPause, sure : BOOLEAN]
  <2>1. forecast \in [in : -1..MaxPause, sure : BOOLEAN]
    BY Facts
  <2>2. forecast' \in [in : -1..MaxPause, sure : BOOLEAN] /\ ~forecast'.sure
    BY <1>1, <2>1
  <2> QED
    BY <2>2 DEF Foreseen
<1>15. "idle" \in Stages /\ "idle" # "asleep" /\ paused' = paused /\ frozen' = frozen
  BY <1>1 DEF Stages
<1> QED
  BY <1>1, <1>7, <1>11, <1>12, <1>13, <1>14, <1>15, LeaveKeeps

(* A pause that is extended moves the bucket and everybody's turn by as    *)
(* much (notePushback, freezeUntil).                                       *)
LEMMA PushbackKeeps ==
  ASSUME IInv, NEW a \in Attempts, Pushback(a)
  PROVE  IInv'
<1>0. Sums /\ Line(line) /\ line \in Seq(Entry)
  BY Numbers, Facts
<1>1. PICK ms \in RetryAfters : paused' = Extended(ms) /\ Freeze(Extended(ms))
  BY DEF Pushback
<1>2. ms \in Nat /\ ms > 0
  BY LimitsAssumption
<1>3. PICK until \in Nat : paused' = until /\ until >= paused
  <2>1. Extended(ms) \in Nat /\ Extended(ms) >= paused
    BY <1>0, <1>2 DEF Extended, Larger, Smaller, Sums
  <2> QED
    BY <1>1, <2>1
<1>16. paused \in Nat /\ frozen = paused
  BY <1>0 DEF Sums
<1>15. paused' \in 0..MaxPause
  BY <1>0, <1>1, <1>2 DEF Extended, Larger, Smaller, Sums
<1> DEFINE k == until - paused
<1>4. k \in Nat
  BY <1>3, <1>16
<1>5. /\ balance' = Smaller(balance, 0)
      /\ frozen' = paused'
      /\ line' = [i \in DOMAIN line |-> [line[i] EXCEPT !.due = @ + k]]
  <2>1. /\ balance' = Smaller(balance, 0)
        /\ frozen' = Larger(frozen, until)
        /\ line' = [i \in DOMAIN line |-> [line[i] EXCEPT !.due = @ + Larger(0, until - frozen)]]
    BY <1>1, <1>3 DEF Freeze
  <2>2. Larger(frozen, until) = until /\ Larger(0, until - frozen) = k
    BY <1>3, <1>16 DEF Larger
  <2> QED
    BY <1>3, <2>1, <2>2
<1>6. /\ at[a] = "sent" /\ at' = [at EXCEPT ![a] = "idle"]
      /\ credit' = Smaller(credit, Worth(Len(line)))
      /\ forecast' = forecast
  BY DEF Pushback, Worth
<1>7. /\ balance' \in Int /\ balance' <= 0 /\ balance' <= balance /\ balance' <= Full
  BY <1>0, <1>5 DEF Smaller, Sums
<1>8. /\ credit' \in Int /\ credit' >= 0 /\ credit' >= balance' + Worth(Len(line))
      /\ credit' = credit \/ credit' = Worth(Len(line))
  BY <1>0, <1>6, <1>7 DEF Smaller, Sums
<1> HIDE DEF k
<1>9. ASSUME NEW i \in DOMAIN line
      PROVE  /\ line'[i] \in Entry
             /\ line'[i].who = line[i].who
             /\ line'[i].due = line[i].due + k
             /\ line'[i].refunded = line[i].refunded
             /\ line'[i].sleep = line[i].sleep
  <2>1. line[i] \in Entry
    BY <1>0
  <2>2. line'[i] = [line[i] EXCEPT !.due = line[i].due + k]
    BY <1>5
  <2> QED
    BY <1>4, <2>1, <2>2 DEF Entry
<1>10. line' \in Seq(Entry) /\ Len(line') = Len(line)
  <2>1. line' = [i \in DOMAIN line |-> line'[i]]
    BY <1>5
  <2> QED
    BY <1>0, <1>9, <2>1
<1>11. ASSUME NEW i \in DOMAIN line
       PROVE  /\ line'[i].sleep <= line'[i].due
              /\ paused' <= line'[i].due
              /\ ~line[i].refunded => line'[i].due - paused' <= 0 - balance'
              /\ credit' + (line'[i].due - paused') >= Owed(line, i)
  <2>1. /\ Stands(i) /\ line'[i].due = line[i].due + k /\ line'[i].sleep = line[i].sleep
    BY <1>9, WaiterFacts
  <2>2. /\ line[i].due \in Nat /\ line[i].sleep \in Nat
        /\ line[i].sleep <= line[i].due /\ paused <= line[i].due
        /\ Owed(line, i) \in Nat /\ Owed(line, i) <= Worth(Len(line))
        /\ credit + (line[i].due - paused) >= Owed(line, i)
        /\ (~line[i].refunded => line[i].due - paused <= 0 - balance)
    BY <2>1 DEF Stands
  <2>3. line'[i].due \in Nat /\ line'[i].due - paused' = line[i].due - paused
    BY <1>3, <1>16, <2>1, <2>2 DEF k
  <2>4. line'[i].sleep <= line'[i].due /\ paused' <= line'[i].due
    BY <1>3, <1>16, <2>1, <2>2 DEF k
  <2>5. credit' + (line[i].due - paused) >= Owed(line, i)
    BY <1>0, <1>8, <2>2 DEF Sums
  <2>6. ~line[i].refunded => line[i].due - paused <= 0 - balance'
    <3> SUFFICES ASSUME ~line[i].refunded PROVE line[i].due - paused <= 0 - balance'
      OBVIOUS
    <3>1. line[i].due - paused <= 0 - balance
      BY <2>2
    <3> QED
      BY <1>0, <1>7, <2>2, <3>1 DEF Sums
  <2> QED
    BY <2>3, <2>4, <2>5, <2>6
<1>12. Foreseen'
  <2> SUFFICES ASSUME forecast.sure PROVE forecast.in >= 0 /\ Wait' - forecast.in > MaxWait
    BY <1>6 DEF Foreseen
  <2>1. forecast.in \in Int /\ forecast.in >= 0 /\ Wait - forecast.in > MaxWait
    BY Facts DEF IInv, Foreseen
  <2>2. Wait' = until + (TokenTime - balance')
    BY <1>0, <1>3, <1>16, <1>5, <1>7 DEF Wait, WaitFrom, Refilled, Larger, Sums
  <2>3. /\ Wait \in Nat /\ MaxWait \in Nat /\ TokenTime \in Nat /\ balance \in Int
    BY <1>0 DEF Sums
  <2>4. Wait <= paused + (TokenTime - balance) \/ Wait = paused
    BY <1>16, <2>3, WaitIs
  <2>5. Wait' \in Int /\ Wait' >= Wait
    <3>1. PICK b \in Int : balance' = b /\ b <= balance /\ b <= 0
      BY <1>7
    <3>2. until + (TokenTime - b) \in Int /\ until + (TokenTime - b) >= Wait
      BY <1>3, <1>16, <2>3, <2>4, <3>1
    <3> QED
      BY <2>2, <3>1, <3>2
  <2> QED
    BY <2>1, <2>3, <2>5
<1>13. /\ at' \in [Attempts -> Stages]
       /\ \A b \in Attempts : at'[b] = "asleep" <=> at[b] = "asleep"
       /\ forecast' \in [in : -1..MaxPause, sure : BOOLEAN]
  BY <1>6, Facts DEF Stages
<1>14. k \in Int /\ frozen' = paused' /\ (paused' > 0 => balance' <= 0)
  BY <1>4, <1>5, <1>7
<1> QED
  BY <1>7, <1>8, <1>9, <1>10, <1>11, <1>12, <1>13, <1>14, <1>15, ShiftKeeps

(* A millisecond passes: turns and the pause come nearer, and outside of a *)
(* pause the bucket earns, and what is owed with it.                       *)
LEMMA TickKeeps ==
  ASSUME IInv, Tick
  PROVE  IInv'
<1>0. Sums /\ Line(line) /\ line \in Seq(Entry)
  BY Numbers, Facts
<1>1. /\ \A i \in DOMAIN line : line[i].sleep > 0
      /\ line' = [i \in DOMAIN line |-> [line[i] EXCEPT !.due = Sooner(@), !.sleep = @ - 1]]
      /\ balance' = IF frozen > 0 THEN balance ELSE Smaller(Full, balance + 1)
      /\ frozen' = Sooner(frozen)
      /\ paused' = Sooner(paused)
      /\ credit' = Earned
      /\ forecast' = IF forecast.in > 0 THEN [forecast EXCEPT !.in = @ - 1] ELSE NoForecast
      /\ at' = at
  BY DEF Tick
<1>2. /\ balance \in Int /\ balance <= Full /\ Full \in Nat
      /\ paused \in Nat /\ paused <= MaxPause /\ frozen = paused
      /\ (paused > 0 => balance <= 0)
      /\ credit \in Int /\ credit >= 0 /\ credit >= balance + Worth(Len(line))
      /\ Worth(Len(line)) \in Nat
      /\ TokenTime \in Nat /\ Wait \in Nat /\ MaxWait \in Nat /\ MaxPause \in Nat
  BY <1>0 DEF Sums
<1>3. PICK p \in Nat : /\ paused' = p /\ frozen' = p /\ p <= MaxPause
                       /\ IF paused > 0 THEN p = paused - 1 ELSE p = 0 /\ paused = 0
  <2>1. /\ Sooner(paused) \in Nat /\ Sooner(paused) <= MaxPause
        /\ IF paused > 0 THEN Sooner(paused) = paused - 1 ELSE Sooner(paused) = 0 /\ paused = 0
    BY <1>2 DEF Sooner, Larger
  <2> QED
    BY <1>1, <1>2, <2>1
<1>4. PICK b \in Int : /\ balance' = b /\ b <= Full
                       /\ IF paused > 0 THEN b = balance ELSE b <= balance + 1
  <2>1. CASE paused > 0
    BY <1>1, <1>2, <2>1
  <2>2. CASE ~(paused > 0)
    <3>1. /\ Smaller(Full, balance + 1) \in Int
          /\ Smaller(Full, balance + 1) <= Full /\ Smaller(Full, balance + 1) <= balance + 1
      BY <1>2 DEF Smaller
    <3> QED
      BY <1>1, <1>2, <2>2, <3>1
  <2> QED
    BY <2>1, <2>2
<1>5. /\ Cardinality(Attempts) \in Nat
      /\ Worth(Cardinality(Attempts)) \in Nat
      /\ Worth(Len(line)) <= Worth(Cardinality(Attempts))
  <2>1. /\ Cardinality(Attempts) \in Nat /\ Len(line) \in Nat
        /\ Len(line) <= Cardinality(Attempts)
    BY <1>0, AheadFinite
  <2> QED
    BY <2>1, WorthProperties
<1>6. PICK c \in Int : /\ credit' = c
                       /\ \/ paused > 0 /\ c = credit
                          \/ paused = 0 /\ c = credit + 1
                          \/ paused = 0 /\ c = Full + Worth(Cardinality(Attempts))
  <2>1. credit' = IF paused > 0 THEN credit
                  ELSE Smaller(Full + Worth(Cardinality(Attempts)), credit + 1)
    BY <1>1 DEF Earned, Worth
  <2>2. CASE paused > 0
    BY <1>2, <2>1, <2>2
  <2>3. CASE paused = 0
    <3> DEFINE e == Smaller(Full + Worth(Cardinality(Attempts)), credit + 1)
    <3>1. e \in Int /\ (e = credit + 1 \/ e = Full + Worth(Cardinality(Attempts)))
      BY <1>2, <1>5 DEF Smaller
    <3>2. credit' = e
      BY <2>1, <2>3
    <3> HIDE DEF e
    <3> QED
      BY <2>3, <3>1, <3>2
  <2> QED
    BY <1>2, <2>2, <2>3
<1>7. c >= 0 /\ c >= b + Worth(Len(line))
  BY <1>2, <1>4, <1>5, <1>6
<1> DEFINE k == -1
<1>8. ASSUME NEW i \in DOMAIN line
      PROVE  /\ line'[i] \in Entry
             /\ line'[i].who = line[i].who
             /\ line'[i].due = line[i].due + k
             /\ line'[i].refunded = line[i].refunded
             /\ line'[i].sleep = line[i].sleep - 1
  <2>1. line[i] \in Entry /\ Stands(i) /\ line[i].sleep > 0
    BY <1>1, WaiterFacts
  <2>2. /\ line[i].due \in Nat /\ line[i].sleep \in Nat
        /\ line[i].sleep <= line[i].due
    BY <2>1 DEF Stands
  <2>3. Sooner(line[i].due) = line[i].due - 1 /\ line[i].due - 1 \in Nat /\ line[i].sleep - 1 \in Nat
    BY <2>1, <2>2 DEF Sooner, Larger
  <2>4. line'[i] = [line[i] EXCEPT !.due = line[i].due - 1, !.sleep = line[i].sleep - 1]
    BY <1>1, <2>3
  <2>5. line[i].due + k = line[i].due - 1
    BY <2>2
  <2> QED
    BY <2>1, <2>3, <2>4, <2>5 DEF Entry
<1> HIDE DEF k
<1>9. line' \in Seq(Entry) /\ Len(line') = Len(line)
  <2>1. line' = [i \in DOMAIN line |-> line'[i]]
    BY <1>1
  <2> QED
    BY <1>0, <1>8, <2>1
<1>10. ASSUME NEW i \in DOMAIN line
       PROVE  /\ line'[i].sleep <= line'[i].due
              /\ paused' <= line'[i].due
              /\ ~line[i].refunded => line'[i].due - paused' <= 0 - balance'
              /\ credit' + (line'[i].due - paused') >= Owed(line, i)
  <2>1. /\ Stands(i) /\ line'[i].due = line[i].due + k /\ line'[i].sleep = line[i].sleep - 1
        /\ line[i].sleep > 0
    BY <1>1, <1>8, WaiterFacts
  <2>2. /\ line[i].due \in Nat /\ line[i].sleep \in Nat
        /\ line[i].sleep <= line[i].due /\ paused <= line[i].due
        /\ Owed(line, i) \in Nat /\ Owed(line, i) <= Worth(Len(line))
        /\ credit + (line[i].due - paused) >= Owed(line, i)
    BY <2>1 DEF Stands
  <2>3. line[i].due + k = line[i].due - 1
    BY <2>2 DEF k
  <2>4. /\ line[i].sleep - 1 <= line[i].due - 1
        /\ p <= line[i].due - 1
        /\ c + (line[i].due - 1 - p) >= Owed(line, i)
    <3>1. line[i].sleep - 1 <= line[i].due - 1 /\ p <= line[i].due - 1
      <4>1. line[i].sleep > 0
        BY <2>1
      <4>2. CASE paused > 0
        BY <1>2, <1>3, <2>2, <4>2
      <4>3. CASE ~(paused > 0)
        BY <1>2, <1>3, <2>2, <4>1, <4>3
      <4> QED
        BY <4>2, <4>3
    <3>2. CASE paused > 0 /\ c = credit
      BY <1>2, <1>3, <2>2, <3>1, <3>2
    <3>3. CASE paused = 0 /\ c = credit + 1
      <4>1. p = 0 /\ paused = 0
        BY <1>2, <1>3, <3>3
      <4> QED
        BY <1>2, <2>2, <3>1, <3>3, <4>1
    <3>4. CASE c = Full + Worth(Cardinality(Attempts))
      <4>1. Owed(line, i) <= Worth(Cardinality(Attempts))
        BY <1>2, <1>5, <2>2
      <4>2. c >= Worth(Cardinality(Attempts)) /\ line[i].due - 1 - p >= 0
        <5>1. c - Worth(Cardinality(Attempts)) = Full
          BY <1>2, <1>5, <3>4
        <5>2. line[i].due - 1 - p >= 0
          BY <2>2, <3>1
        <5> QED
          BY <1>2, <1>5, <5>1, <5>2
      <4> QED
        BY <1>5, <2>2, <3>1, <4>1, <4>2
    <3> QED
      BY <1>6, <3>1, <3>2, <3>3, <3>4
  <2>5. ~line[i].refunded => line[i].due - 1 - p <= 0 - b
    <3> SUFFICES ASSUME ~line[i].refunded PROVE line[i].due - 1 - p <= 0 - b
      OBVIOUS
    <3>1. line[i].due - paused <= 0 - balance
      BY <2>1 DEF Stands
    <3>2. b \in Int /\ b <= balance + (IF paused > 0 THEN 0 ELSE 1)
      BY <1>2, <1>4
    <3>3. CASE paused > 0
      BY <1>2, <1>3, <2>2, <3>1, <3>2, <3>3
    <3>4. CASE ~(paused > 0)
      BY <1>2, <1>3, <2>2, <3>1, <3>2, <3>4
    <3> QED
      BY <3>3, <3>4
  <2> QED
    BY <1>3, <1>4, <1>6, <2>1, <2>3, <2>4, <2>5
<1>11. forecast \in [in : -1..MaxPause, sure : BOOLEAN]
  BY Facts
<1>12. ASSUME forecast.in > 0
       PROVE  Foreseen' /\ forecast' \in [in : -1..MaxPause, sure : BOOLEAN]
  <2>1. /\ forecast.in \in Int /\ forecast.in <= MaxPause
        /\ forecast'.in = forecast.in - 1 /\ forecast'.sure = forecast.sure
        /\ forecast' \in [in : -1..MaxPause, sure : BOOLEAN]
    <3>0. forecast' = [forecast EXCEPT !.in = forecast.in - 1]
      BY <1>1, <1>12
    <3>1. forecast.in \in Int /\ forecast.in <= MaxPause
      <4>1. forecast.in \in -1..MaxPause
        BY <1>11
      <4> QED
        BY <1>2, <4>1
    <3>2. forecast.in - 1 \in -1..MaxPause
      BY <1>2, <1>12, <3>1
    <3> QED
      BY <1>11, <3>0, <3>1, <3>2
  <2>2. Wait' = p + IF b >= TokenTime THEN 0 ELSE TokenTime - b
    <3>1. Larger(p, p) = p /\ ~(p > p)
      BY DEF Larger
    <3> QED
      BY <1>3, <1>4, <3>1 DEF Wait, WaitFrom, Refilled
  <2>3. PICK w \in Int : Wait' = w /\ w >= Wait - 1
    <3> DEFINE w == p + IF b >= TokenTime THEN 0 ELSE TokenTime - b
    <3>1. Wait = paused + IF balance >= TokenTime THEN 0 ELSE TokenTime - balance
      BY <1>2, WaitIs
    <3>2. w \in Int /\ w >= Wait - 1
      BY <1>2, <1>3, <1>4, <3>1
    <3> HIDE DEF w
    <3> QED
      BY <2>2, <3>2 DEF w
  <2>4. Foreseen'
    <3> SUFFICES ASSUME forecast.sure
                 PROVE  forecast.in - 1 >= 0 /\ w - (forecast.in - 1) > MaxWait
      BY <2>1, <2>3 DEF Foreseen
    <3>1. Wait - forecast.in > MaxWait
      BY DEF IInv, Foreseen
    <3> QED
      BY <1>2, <1>12, <2>1, <2>3, <3>1
  <2> QED
    BY <2>1, <2>4
<1>13. Foreseen' /\ forecast' \in [in : -1..MaxPause, sure : BOOLEAN]
  <2>1. CASE forecast.in > 0
    BY <1>12, <2>1
  <2>2. CASE ~(forecast.in > 0)
    <3>1. forecast' = [in |-> -1, sure |-> FALSE]
      BY <1>1, <2>2 DEF NoForecast
    <3>2. -1 \in -1..MaxPause
      BY <1>2
    <3> QED
      BY <3>1, <3>2 DEF Foreseen
  <2> QED
    BY <2>1, <2>2
<1>14. /\ at' \in [Attempts -> Stages]
       /\ \A a \in Attempts : at'[a] = "asleep" <=> at[a] = "asleep"
  BY <1>1, Facts
<1>15. /\ balance' \in Int /\ balance' <= Full
       /\ paused' \in 0..MaxPause /\ frozen' = paused'
       /\ paused' > 0 => balance' <= 0
       /\ credit' \in Int /\ credit' >= 0 /\ credit' >= balance' + Worth(Len(line))
  <2>1. p \in 0..MaxPause /\ (p > 0 => b <= 0)
    BY <1>2, <1>3, <1>4
  <2> QED
    BY <1>3, <1>4, <1>6, <1>7, <2>1
<1>16. k \in Int
  BY DEF k
<1> QED
  BY <1>8, <1>9, <1>10, <1>13, <1>14, <1>15, <1>16, ShiftKeeps

-----------------------------------------------------------------------------
(* The invariant, and what it is for *)

(* At the start the bucket is full and nobody waits.                       *)
LEMMA InitIInv == Init => IInv
<1> SUFFICES ASSUME Init PROVE IInv
  OBVIOUS
<1>1. /\ balance = Full /\ frozen = 0 /\ paused = 0 /\ line = <<>>
      /\ at = [a \in Attempts |-> "idle"] /\ credit = Full
      /\ forecast = [in |-> -1, sure |-> FALSE]
  BY DEF Init, NoForecast
<1>2. Full \in Nat /\ MaxPause \in Nat
  BY FullProperties, LimitsAssumption
<1>3. Waiting(line) = {} /\ Line(line) /\ DOMAIN line = {} /\ Len(line) = 0
  <2>1. line \in Seq(Entry) /\ Len(line) = 0 /\ DOMAIN line = {}
    BY <1>1
  <2>2. Waiting(line) = {}
    BY <2>1 DEF Waiting
  <2> QED
    BY <2>1, <2>2, FS_EmptySet DEF Line
<1>4. TypeOK
  <2>1. line \in Seq([who : Attempts, due : Nat, sleep : Nat, refunded : BOOLEAN])
    BY <1>1
  <2>2. at \in [Attempts -> Stages] /\ {a \in Attempts : at[a] = "asleep"} = {}
    BY <1>1 DEF Stages
  <2>3. {line[i].who : i \in DOMAIN line} = {}
    BY <1>3
  <2>4. forecast \in [in : -1..MaxPause, sure : BOOLEAN]
    BY <1>1, <1>2
  <2>5. /\ balance \in Int /\ balance <= Full /\ credit \in Int
        /\ frozen \in 0..MaxPause /\ paused \in 0..MaxPause
    BY <1>1, <1>2
  <2> QED
    BY <2>1, <2>2, <2>3, <2>4, <2>5 DEF TypeOK
<1>5. SpacingKept /\ Earning /\ Indebted
  BY <1>1, <1>3 DEF SpacingKept, Earning, Indebted
<1>6. Covered /\ WithinRate /\ Frozen
  BY <1>1, <1>2, <1>3, WorthProperties DEF Covered, WithinRate, Frozen
<1>7. Foreseen
  BY <1>1 DEF Foreseen
<1> QED
  BY <1>3, <1>4, <1>5, <1>6, <1>7 DEF IInv

(* Every step keeps the invariant.                                         *)
LEMMA NextIInv == IInv /\ [Next]_vars => IInv'
<1> SUFFICES ASSUME IInv, [Next]_vars PROVE IInv'
  OBVIOUS
<1>1. ASSUME NEW a \in Attempts, TakeToken(a) PROVE IInv'
  BY <1>1, TakeTokenKeeps
<1>2. ASSUME NEW a \in Attempts, RefuseToken(a) \/ Start(a) \/ End(a) PROVE IInv'
  BY <1>2, RestKeeps
<1>3. ASSUME NEW a \in Attempts, Pushback(a) PROVE IInv'
  BY <1>3, PushbackKeeps
<1>4. ASSUME NEW i \in DOMAIN line, TimerFires(i) PROVE IInv'
  <2>1. SleepOn(i) \/ Awake(i)
    BY <1>4 DEF TimerFires
  <2> QED
    BY <1>4, <2>1, SleepOnKeeps, AwakeKeeps
<1>5. ASSUME NEW i \in DOMAIN line, AbortSleep(i) PROVE IInv'
  BY <1>5, AbortSleepKeeps
<1>6. ASSUME NEW ms \in 0..MaxPause, Foresee(ms) PROVE IInv'
  BY <1>6, RestKeeps
<1>7. CASE Tick
  BY <1>7, TickKeeps
<1>8. CASE UNCHANGED vars
  <2>1. UNCHANGED <<balance, frozen, paused, line, at, credit, forecast>>
    BY <1>8 DEF vars
  <2>2. Foreseen'
    BY <2>1 DEF IInv, Foreseen, Wait, WaitFrom, Refilled
  <2>3. at' \in [Attempts -> Stages] /\ forecast' \in [in : -1..MaxPause, sure : BOOLEAN]
    BY <2>1, Facts
  <2> QED
    BY <2>1, <2>2, <2>3, QuietKeeps
<1> QED
  BY <1>1, <1>2, <1>3, <1>4, <1>5, <1>6, <1>7, <1>8 DEF Next

(* The invariant holds throughout.                                         *)
LEMMA Invariance == Spec => []IInv
<1>1. Init => IInv
  BY InitIInv
<1>2. IInv /\ [Next]_vars => IInv'
  BY NextIInv
<1> QED
  BY <1>1, <1>2, PTL DEF Spec

(* The fields keep their shape, and those asleep are those in the line.    *)
THEOREM TypeCorrect == Spec => []TypeOK
<1>1. IInv => TypeOK
  BY DEF IInv
<1> QED
  BY <1>1, Invariance, PTL

(* For every rate, burst, maxWaitMs and maxPauseMs and any number of       *)
(* attempts: every attempt the bucket lets go is paid for with time of its *)
(* own, outside of pauses, whatever is refunded or extended meanwhile      *)
(* (reserve, refund and freezeUntil of src/queue/rate-limiter.ts).         *)
THEOREM RateKept == Spec => []WithinRate
<1>1. IInv => WithinRate
  BY DEF IInv
<1> QED
  BY <1>1, Invariance, PTL

(* A sleeper's timer is never set past its turn, no turn comes before the  *)
(* end of a pause, and turns stand a token apart unless a token came back  *)
(* (takeToken of src/queue/bulkhead.ts, shiftMs of the bucket).            *)
THEOREM SpacingHolds == Spec => []SpacingKept
<1>1. IInv => SpacingKept
  BY DEF IInv
<1> QED
  BY <1>1, Invariance, PTL

(* The refusal refusalAfter() announces is the refusal takeToken gives     *)
(* after the sleep (src/queue/bulkhead.ts).                                *)
THEOREM RefusalsForeseen == Spec => []RefusalForeseen
<1>1. IInv => RefusalForeseen
  <2> SUFFICES ASSUME IInv, forecast.in = 0, forecast.sure PROVE Wait > MaxWait
    BY DEF RefusalForeseen
  <2>1. Wait - forecast.in > MaxWait /\ Wait \in Nat
    BY Facts DEF IInv, Foreseen
  <2> QED
    BY <2>1
<1> QED
  BY <1>1, Invariance, PTL

=============================================================================
