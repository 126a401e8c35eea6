--------------------------- MODULE ObserversProofs ---------------------------
(***************************************************************************)
(* Proofs about Observers, for any streams, listeners and number of        *)
(* retries.  What is promised when nothing is under way has to be said     *)
(* of the middle of a turn, too, where a listener may call back: each      *)
(* count that a promise is about (endings announced, retries measured,     *)
(* updates seen, spans opened) is what it should be together with the work *)
(* of that kind that is left in todo.  So the lemmas are about how often   *)
(* a kind of work occurs in todo, and what an action does to that number.  *)
(***************************************************************************)
EXTENDS Observers, SequenceTheorems, FiniteSetTheorems, TLAPS

-----------------------------------------------------------------------------
(* Counting *)

\* Where something of W stands in a sequence, and how often.
At(t, W) == {i \in DOMAIN t : t[i] \in W}

Count(t, W) == Cardinality(At(t, W))

\* What the members of W in a sequence of work are about.
Args(t, W) == {t[i].arg : i \in At(t, W)}

-----------------------------------------------------------------------------
(* What there can be to do *)

Callees == Streams \cup Users \cup {Tracer}

\* Who registers for an event.
Listening(event) ==
  Users \cup (IF event \in ClientEvents THEN {Tracer} ELSE {})
        \cup (IF event = "update" THEN Streams ELSE {})

Calls == {w \in [what : {"call"}, of : Events, arg : States, to : Callees] : w.to \in Listening(w.of)}

Jobs ==
  [what : {"emit"}, of : Events, arg : States]
    \cup [what : {"mark"}, of : {"ticket"}, arg : States]
    \cup [what : {"resolve"}, of : {"ticket"}, arg : Terminal]
    \cup [what : {"cleanup"}, of : {"client"}, arg : {Pending}]
    \cup [what : {"measure"}, of : ClientEvents, arg : {Pending}]
    \cup Calls

Emits(event) == {w \in Jobs : w.what = "emit" /\ w.of = event}

Measures(event) == {w \in Jobs : w.what = "measure" /\ w.of = event}

Cleanups == {w \in Jobs : w.what = "cleanup"}

Resolves(S) == {w \in Jobs : w.what = "resolve" /\ w.arg \in S}

CallsTo(event, l) == {w \in Jobs : w.what = "call" /\ w.of = event /\ w.to = l}

UpdateCalls == {w \in Jobs : w.what = "call" /\ w.of = "update"}

Updates == Emits("update") \cup UpdateCalls

-----------------------------------------------------------------------------
(* The invariant *)

Generators == [
  pc : {"new", "late", "waiting", "yielded", "finished"},
  updates : Seq(States), notify : BOOLEAN, woken : BOOLEAN, isDone : BOOLEAN,
  got : Seq(States), from : Nat, left : BOOLEAN]

Clients == [
  pc : {"new", "first", "loop", "over"}, retries : 0..MaxRetries,
  attempt : {"none", "due", "begun"}, inflight : {0, 1}, gauge : {0, 1},
  measured : [ClientEvents -> Nat]]

Tracers == [active : BOOLEAN, span : {"none", "open"}, started : Nat, ended : Nat]

Histories == [
  emitted : Seq(States), dones : Nat, ends : Nat, reentered : BOOLEAN,
  stoppedAhead : BOOLEAN, orphaned : BOOLEAN]

Typed ==
  /\ ticket \in [state : States, promise : Terminal \cup {Pending}]
  /\ todo \in Seq(Jobs)
  /\ listeners \in [Events -> Seq(Callees)]
  /\ \A e \in Events :
       /\ listeners[e] \in Seq(Listening(e))
       /\ \A l \in Callees : Count(listeners[e], {l}) <= 1
  /\ stream \in [Streams -> Generators]
  /\ client \in Clients
  /\ tracer \in Tracers
  /\ hist \in Histories

(* A terminal state is announced once, and its ending is still to be       *)
(* resolved with or has been.                                              *)
Settling ==
  /\ hist.dones + Count(todo, Emits("done")) = IF ticket.state \in Terminal THEN 1 ELSE 0
  /\ Count(todo, Resolves(Terminal \ {ticket.state})) = 0
  /\ ticket.promise # Pending => ticket.promise = ticket.state
  /\ ticket.state \in Terminal /\ ticket.promise = Pending =>
       Count(todo, Resolves({ticket.state})) > 0

(* What is not measured yet is still to be.                                *)
Reporting ==
  /\ client.measured["retry"] + Count(todo, Emits("retry")) + Count(todo, Measures("retry"))
       = client.retries
  /\ client.measured["end"] + Count(todo, Measures("end")) = hist.ends
  /\ hist.ends + Count(todo, Emits("end")) <= IF client.pc = "over" THEN 1 ELSE 0
  /\ client.gauge # client.inflight =>
       /\ client.inflight = 1
       /\ Count(todo, Cleanups) + Count(todo, Emits("request")) + Count(todo, Measures("request")) > 0

\* How often the tracer will hear of the request, and of its end.
Opening == Count(todo, Emits("request")) + Count(todo, CallsTo("request", Tracer))

Closing == Count(todo, CallsTo("end", Tracer))

(* The span is opened once, before an attempt needs it, and closed by the  *)
(* event that ends the request or by who stops the tracing.                *)
Tracing ==
  /\ \A e \in ClientEvents : Count(listeners[e], {Tracer}) = IF tracer.active THEN 1 ELSE 0
  /\ tracer.started + Opening <= IF client.pc = "new" THEN 0 ELSE 1
  /\ tracer.ended + (IF tracer.span = "open" THEN 1 ELSE 0) <= tracer.started
  /\ Opening > 0 => client.pc = "first"
  /\ Closing > 0 => client.pc = "over"
  /\ ~tracer.active /\ Count(todo, CallsTo("request", Tracer)) > 0 => hist.stoppedAhead
  /\ tracer.span = "open" /\ ~hist.stoppedAhead => tracer.active /\ (hist.ends = 0 \/ Closing > 0)
  /\ tracer.active /\ client.pc \in {"first", "loop"} => tracer.span = "open" \/ Opening > 0
  /\ client.attempt = "due" => client.pc \in {"first", "loop"}
  /\ ~hist.orphaned

\* The updates a stream has to see, those it saw, and those on their way.
Since(t, k) == SubSeq(t, k + 1, Len(t))

Due(s) == Since(hist.emitted, stream[s].from)

Seen(s) == stream[s].got \o stream[s].updates

Coming(s) == Args(todo, CallsTo("update", s))

Follows(s) ==
  \/ stream[s].pc \in {"waiting", "yielded"}
  \/ stream[s].pc = "finished" /\ ~stream[s].left

(* Whoever follows the ticket has seen what was emitted but for the calls  *)
(* that are still to be made, and in that order unless a listener of an    *)
(* update called back.                                                     *)
Watched(s) ==
  /\ Count(listeners["update"], {s}) = IF stream[s].pc \in {"waiting", "yielded"} THEN 1 ELSE 0
  /\ Coming(s) # {} => stream[s].pc \in {"waiting", "yielded"}
  /\ stream[s].isDone <=> stream[s].pc # "late" /\ ToSet(Seen(s)) \cap Terminal # {}
  /\ stream[s].isDone => ticket.state \in Terminal
  /\ stream[s].pc = "new" => Seen(s) = <<>>
  /\ stream[s].from <= Len(hist.emitted)
  /\ Follows(s) =>
       /\ Len(Seen(s)) + Count(todo, CallsTo("update", s)) = Len(Due(s))
       /\ ToSet(Seen(s)) \cup Coming(s) = ToSet(Due(s))
       /\ ~hist.reentered =>
            /\ Coming(s) = {} => Seen(s) = Due(s)
            /\ \A update \in Coming(s) : Due(s) = Append(Seen(s), update)
       /\ stream[s].pc = "finished" =>
            /\ stream[s].updates = <<>> /\ stream[s].isDone
            /\ Count(todo, Emits("update")) = 0

Watching == \A s \in Streams : Watched(s)

(* A terminal update is only ever announced of a ticket that has ended.    *)
Truthful == Args(todo, Updates) \cap Terminal # {} => ticket.state \in Terminal

(* Nothing comes in front of an update that is being delivered, unless a   *)
(* listener of it calls back.                                              *)
Orderly ==
  ~hist.reentered =>
    \A j \in At(todo, UpdateCalls) : \A i \in 1..j : todo[i] \in UpdateCalls

IInv ==
  /\ Typed
  /\ Settling
  /\ Reporting
  /\ Tracing
  /\ Watching
  /\ Truthful
  /\ Orderly
(* A count is a number; it is zero when nothing of the kind is there.      *)
LEMMA CountType ==
  ASSUME NEW S, NEW t \in Seq(S), NEW W
  PROVE  /\ IsFiniteSet(At(t, W))
         /\ Count(t, W) \in Nat
         /\ Count(t, W) = 0 <=> At(t, W) = {}
<1>1. IsFiniteSet(DOMAIN t)
  BY FS_Interval
<1>2. At(t, W) \in SUBSET DOMAIN t
  BY DEF At
<1>3. IsFiniteSet(At(t, W))
  BY <1>1, <1>2, FS_Subset
<1> QED
  BY <1>3, FS_CardinalityType, FS_EmptySet DEF Count

(* There is nothing in an empty sequence.                                  *)
LEMMA CountNone ==
  ASSUME NEW W
  PROVE  At(<<>>, W) = {} /\ Count(<<>>, W) = 0
BY FS_EmptySet DEF At, Count

(* And one thing, or nothing of the kind, in a sequence of one.            *)
LEMMA CountOne ==
  ASSUME NEW a, NEW W
  PROVE  /\ At(<<a>>, W) = IF a \in W THEN {1} ELSE {}
         /\ Count(<<a>>, W) = IF a \in W THEN 1 ELSE 0
<1>1. At(<<a>>, W) = IF a \in W THEN {1} ELSE {}
  BY DEF At
<1> QED
  BY <1>1, FS_EmptySet, FS_Singleton DEF Count

(* Where something stands in two sequences, one after the other.           *)
LEMMA AtConcat ==
  ASSUME NEW S, NEW s \in Seq(S), NEW t \in Seq(S), NEW W
  PROVE  At(s \o t, W) = At(s, W) \cup {i + Len(s) : i \in At(t, W)}
<1>1. /\ s \o t \in Seq(S)
      /\ Len(s \o t) = Len(s) + Len(t)
      /\ \A i \in 1..(Len(s) + Len(t)) :
           (s \o t)[i] = IF i <= Len(s) THEN s[i] ELSE t[i - Len(s)]
  BY ConcatProperties
<1>2. ASSUME NEW i \in At(s \o t, W)
      PROVE  i \in At(s, W) \cup {j + Len(s) : j \in At(t, W)}
  <2>1. i \in 1..(Len(s) + Len(t)) /\ (s \o t)[i] \in W
    BY <1>1, <1>2 DEF At
  <2>2. CASE i <= Len(s)
    BY <1>1, <2>1, <2>2 DEF At
  <2>3. CASE i > Len(s)
    <3>1. i - Len(s) \in At(t, W)
      BY <1>1, <2>1, <2>3 DEF At
    <3> QED
      BY <2>1, <3>1
  <2> QED
    BY <2>1, <2>2, <2>3
<1>3. ASSUME NEW i \in At(s, W)
      PROVE  i \in At(s \o t, W)
  BY <1>1, <1>3 DEF At
<1>4. ASSUME NEW i \in At(t, W)
      PROVE  i + Len(s) \in At(s \o t, W)
  <2>1. i \in 1..Len(t) /\ t[i] \in W
    BY <1>4 DEF At
  <2>2. i + Len(s) \in 1..(Len(s) + Len(t)) /\ (i + Len(s)) - Len(s) = i
    BY <2>1
  <2>3. (s \o t)[i + Len(s)] = t[i]
    BY <1>1, <2>1, <2>2
  <2> QED
    BY <1>1, <2>1, <2>2, <2>3 DEF At
<1> QED
  BY <1>2, <1>3, <1>4

(* Counts of two sequences add up.                                         *)
LEMMA CountConcat ==
  ASSUME NEW S, NEW s \in Seq(S), NEW t \in Seq(S), NEW W
  PROVE  Count(s \o t, W) = Count(s, W) + Count(t, W)
<1> DEFINE shifted == {i + Len(s) : i \in At(t, W)}
           f == [i \in At(t, W) |-> i + Len(s)]
<1>1. At(s, W) \subseteq 1..Len(s) /\ At(t, W) \subseteq 1..Len(t) /\ Len(s) \in Nat
  BY DEF At
<1>2. f \in Bijection(At(t, W), shifted)
  <2>1. \A i, j \in At(t, W) : f[i] = f[j] => i = j
    BY <1>1
  <2>2. \A k \in shifted : \E i \in At(t, W) : f[i] = k
    OBVIOUS
  <2> QED
    BY <2>1, <2>2 DEF Bijection, Injection, Surjection, IsInjective
<1>3. IsFiniteSet(shifted) /\ Cardinality(shifted) = Cardinality(At(t, W))
  BY <1>2, FS_Bijection, CountType DEF ExistsBijection
<1>4. At(s, W) \cap shifted = {}
  BY <1>1
<1>5. IsFiniteSet(At(s, W)) /\ Cardinality(At(s, W)) \in Nat /\ Cardinality(At(t, W)) \in Nat
  BY CountType DEF Count
<1>6. At(s \o t, W) = At(s, W) \cup shifted
  BY AtConcat
<1> HIDE DEF shifted
<1>7. Cardinality(At(s, W) \cup shifted)
        = Cardinality(At(s, W)) + Cardinality(shifted) - Cardinality(At(s, W) \cap shifted)
  BY <1>3, <1>5, FS_Union
<1>8. Cardinality(At(s, W) \cap shifted) = 0
  BY <1>4, FS_EmptySet
<1> QED
  BY <1>3, <1>5, <1>6, <1>7, <1>8 DEF Count

(* A sequence is its head and its tail.                                    *)
LEMMA HeadAndTail ==
  ASSUME NEW S, NEW t \in Seq(S), t # <<>>
  PROVE  Head(t) \in S /\ Tail(t) \in Seq(S) /\ t = <<Head(t)>> \o Tail(t)
<1>1. Head(t) \in S /\ Tail(t) \in Seq(S) /\ Len(Tail(t)) = Len(t) - 1 /\ Len(t) >= 1
  BY HeadTailProperties, LenProperties, EmptySeq
<1>2. <<Head(t)>> \in Seq(S) /\ Len(<<Head(t)>>) = 1
  BY <1>1
<1>3. /\ <<Head(t)>> \o Tail(t) \in Seq(S)
      /\ Len(<<Head(t)>> \o Tail(t)) = Len(t)
  BY <1>1, <1>2, ConcatProperties
<1>4. \A i \in 1..Len(t) : (<<Head(t)>> \o Tail(t))[i] = t[i]
  BY <1>1, <1>2, ConcatProperties
<1> QED
  BY <1>1, <1>3, <1>4, SeqEqual

\* How much one thing counts.
Tally(a, W) == IF a \in W THEN 1 ELSE 0

(* Appending counts once more.                                             *)
LEMMA CountAppend ==
  ASSUME NEW S, NEW t \in Seq(S), NEW a \in S, NEW W
  PROVE  Append(t, a) \in Seq(S) /\ Count(Append(t, a), W) = Count(t, W) + Tally(a, W)
<1> DEFINE one == <<a>>
<1>1. one \in Seq(S) /\ Append(t, a) = t \o one /\ Append(t, a) \in Seq(S)
  BY AppendIsConcat, AppendProperties
<1>2. Count(one, W) = Tally(a, W)
  BY CountOne DEF Tally
<1> HIDE DEF one
<1>3. Count(t \o one, W) = Count(t, W) + Count(one, W)
  BY <1>1, CountConcat
<1> QED
  BY <1>1, <1>2, <1>3

(* What a pair of members counts for.                                      *)
LEMMA CountPair ==
  ASSUME NEW S, NEW a \in S, NEW b \in S, NEW W
  PROVE  <<a, b>> \in Seq(S) /\ Count(<<a, b>>, W) = Tally(a, W) + Tally(b, W)
<1> DEFINE one == <<a>>
<1>1. one \in Seq(S) /\ <<a, b>> = Append(one, b) /\ <<a, b>> \in Seq(S)
  OBVIOUS
<1>2. Count(one, W) = Tally(a, W)
  BY CountOne DEF Tally
<1> HIDE DEF one
<1>3. Count(Append(one, b), W) = Tally(a, W) + Tally(b, W)
  BY <1>1, <1>2, CountAppend
<1> QED
  BY <1>1, <1>3

(* What three of them count for.                                           *)
LEMMA CountTriple ==
  ASSUME NEW S, NEW a \in S, NEW b \in S, NEW c \in S, NEW W
  PROVE  /\ <<a, b, c>> \in Seq(S)
         /\ Count(<<a, b, c>>, W) = Tally(a, W) + Tally(b, W) + Tally(c, W)
<1> DEFINE two == <<a, b>>
<1>1. <<a, b, c>> = Append(two, c) /\ <<a, b, c>> \in Seq(S)
  OBVIOUS
<1>2. two \in Seq(S) /\ Count(two, W) = Tally(a, W) + Tally(b, W)
  BY CountPair
<1> HIDE DEF two
<1>3. Count(Append(two, c), W) = Tally(a, W) + Tally(b, W) + Tally(c, W)
  BY <1>2, CountAppend
<1> QED
  BY <1>1, <1>3

(* What the tail of a sequence counts.                                     *)
LEMMA CountTail ==
  ASSUME NEW S, NEW t \in Seq(S), t # <<>>, NEW W
  PROVE  Count(t, W) = Tally(Head(t), W) + Count(Tail(t), W)
<1>1. Head(t) \in S /\ Tail(t) \in Seq(S) /\ t = <<Head(t)>> \o Tail(t)
  BY HeadAndTail
<1> DEFINE one == <<Head(t)>>
<1>2. one \in Seq(S)
  BY <1>1
<1>3. Count(one \o Tail(t), W) = Count(one, W) + Count(Tail(t), W)
  <2> HIDE DEF one
  <2> QED
    BY <1>1, <1>2, CountConcat
<1>4. Count(one, W) = Tally(Head(t), W)
  BY CountOne DEF Tally
<1> QED
  BY <1>1, <1>3, <1>4

(* What the work in two sequences is about, and in a tail.                 *)
LEMMA ArgsConcat ==
  ASSUME NEW S, NEW s \in Seq(S), NEW t \in Seq(S), NEW W
  PROVE  \A x : x \in Args(s \o t, W) <=> x \in Args(s, W) \/ x \in Args(t, W)
<1>1. At(s \o t, W) = At(s, W) \cup {i + Len(s) : i \in At(t, W)}
  BY AtConcat
<1>2. \A i \in At(s, W) : (s \o t)[i] = s[i]
  BY ConcatProperties DEF At
<1>3. \A i \in At(t, W) : (s \o t)[i + Len(s)] = t[i]
  <2> SUFFICES ASSUME NEW i \in At(t, W)
               PROVE  (s \o t)[i + Len(s)] = t[i]
    OBVIOUS
  <2>1. i \in 1..Len(t) /\ Len(s) \in Nat /\ Len(t) \in Nat
    BY DEF At
  <2>2. i + Len(s) \in 1..(Len(s) + Len(t)) /\ ~(i + Len(s) <= Len(s)) /\ (i + Len(s)) - Len(s) = i
    BY <2>1
  <2> QED
    BY <2>1, <2>2, ConcatProperties
<1>4. \A k \in At(s \o t, W) : (s \o t)[k].arg \in Args(s, W) \/ (s \o t)[k].arg \in Args(t, W)
  <2> SUFFICES ASSUME NEW k \in At(s \o t, W)
               PROVE  (s \o t)[k].arg \in Args(s, W) \/ (s \o t)[k].arg \in Args(t, W)
    OBVIOUS
  <2>1. CASE k \in At(s, W)
    BY <1>2, <2>1 DEF Args
  <2>2. ASSUME NEW i \in At(t, W), k = i + Len(s)
        PROVE  (s \o t)[k].arg \in Args(t, W)
    BY <1>3, <2>2 DEF Args
  <2> QED
    BY <1>1, <2>1, <2>2
<1>5. Args(s, W) \subseteq Args(s \o t, W)
  BY <1>1, <1>2 DEF Args
<1>6. Args(t, W) \subseteq Args(s \o t, W)
  <2> SUFFICES ASSUME NEW i \in At(t, W)
               PROVE  t[i].arg \in Args(s \o t, W)
    BY DEF Args
  <2>1. i + Len(s) \in At(s \o t, W) /\ (s \o t)[i + Len(s)] = t[i]
    BY <1>1, <1>3
  <2> QED
    BY <2>1 DEF Args
<1>7. \A x \in Args(s \o t, W) : x \in Args(s, W) \/ x \in Args(t, W)
  BY <1>4 DEF Args
<1> QED
  BY <1>5, <1>6, <1>7

(* What the tail of a sequence is about.                                   *)
LEMMA ArgsTail ==
  ASSUME NEW S, NEW t \in Seq(S), t # <<>>, NEW W
  PROVE  \A x : x \in Args(t, W) <=> (x = Head(t).arg /\ Head(t) \in W) \/ x \in Args(Tail(t), W)
<1> DEFINE one == <<Head(t)>>
<1>1. Head(t) \in S /\ Tail(t) \in Seq(S) /\ t = one \o Tail(t)
  BY HeadAndTail
<1>2. one \in Seq(S)
  BY <1>1
<1>3. \A x : x \in Args(one \o Tail(t), W) <=> x \in Args(one, W) \/ x \in Args(Tail(t), W)
  <2> HIDE DEF one
  <2> QED
    BY <1>1, <1>2, ArgsConcat
<1>4. \A x : x \in Args(one, W) <=> x = Head(t).arg /\ Head(t) \in W
  <2>1. At(one, W) = IF Head(t) \in W THEN {1} ELSE {}
    BY CountOne
  <2>2. one[1] = Head(t)
    OBVIOUS
  <2> HIDE DEF one
  <2> QED
    BY <2>1, <2>2 DEF Args
<1> HIDE DEF one
<1> QED
  BY <1>1, <1>3, <1>4

(* A removal counts one thing less.                                        *)
LEMMA CountRemoveAt ==
  ASSUME NEW S, NEW t \in Seq(S), NEW i \in 1..Len(t), NEW W
  PROVE  /\ RemoveAt(t, i) \in Seq(S)
         /\ Count(t, W) = Count(RemoveAt(t, i), W) + Tally(t[i], W)
<1> DEFINE front == SubSeq(t, 1, i - 1)
           rest == SubSeq(t, i, Len(t))
           back == SubSeq(t, i + 1, Len(t))
           one == <<t[i]>>
<1>1. /\ front \in Seq(S) /\ back \in Seq(S) /\ rest \in Seq(S) /\ one \in Seq(S)
      /\ Count(one, W) = Tally(t[i], W)
  BY CountOne DEF Tally
<1>2. front \o rest = t
  <2>1. /\ 1 \in 1..(Len(t) + 1) /\ (i - 1) \in (1 - 1)..Len(t) /\ Len(t) \in (i - 1)..Len(t)
        /\ (i - 1) + 1 = i
    OBVIOUS
  <2>2. SubSeq(t, 1, i - 1) \o SubSeq(t, (i - 1) + 1, Len(t)) = SubSeq(t, 1, Len(t))
    BY <2>1, ConcatAdjacentSubSeq
  <2> QED
    BY <2>1, <2>2, SubSeqFull
<1>3. rest = one \o back
  <2>1. Len(t) \in i..Len(t)
    OBVIOUS
  <2> QED
    BY <2>1, SubSeqRecursiveFirst
<1>4. RemoveAt(t, i) = front \o back
  BY DEF RemoveAt
<1> HIDE DEF front, rest, back, one
<1>5. Count(t, W) = Count(front, W) + Count(rest, W)
  BY <1>1, <1>2, CountConcat
<1>6. Count(rest, W) = Count(one, W) + Count(back, W)
  BY <1>1, <1>3, CountConcat
<1>7. Count(RemoveAt(t, i), W) = Count(front, W) + Count(back, W)
  BY <1>1, <1>4, CountConcat
<1>8. Count(front, W) \in Nat /\ Count(back, W) \in Nat /\ Tally(t[i], W) \in Nat
  BY <1>1, CountType DEF Tally
<1> QED
  BY <1>1, <1>4, <1>5, <1>6, <1>7, <1>8, ConcatProperties

-----------------------------------------------------------------------------
(* What the operators of the model do to the counts *)

(* The work at hand is taken from todo, and what it leads to is put there. *)
LEMMA Moves ==
  ASSUME todo \in Seq(Jobs), todo # <<>>, NEW more \in Seq(Jobs), Then(more)
  PROVE  /\ Head(todo) \in Jobs /\ todo' \in Seq(Jobs)
         /\ \A W :
              /\ Count(todo, W) \in Nat /\ Count(more, W) \in Nat /\ Count(todo', W) \in Nat
              /\ Count(todo', W) + Tally(Head(todo), W) = Count(more, W) + Count(todo, W)
              /\ Tally(Head(todo), W) <= Count(todo, W)
              /\ \A x : x \in Args(todo', W) => x \in Args(more, W) \/ x \in Args(todo, W)
              /\ \A x : x \in Args(more, W) => x \in Args(todo', W)
              /\ \A x : x \in Args(todo, W) => x = Head(todo).arg \/ x \in Args(todo', W)
              /\ Head(todo) \notin W =>
                   \A x : x \in Args(todo', W) <=> x \in Args(more, W) \/ x \in Args(todo, W)
<1>1. Head(todo) \in Jobs /\ Tail(todo) \in Seq(Jobs) /\ todo' = more \o Tail(todo)
  BY HeadTailProperties DEF Then
<1>2. todo' \in Seq(Jobs)
  BY <1>1, ConcatProperties
<1>3. ASSUME NEW W
      PROVE  /\ Count(todo, W) \in Nat /\ Count(more, W) \in Nat /\ Count(todo', W) \in Nat
             /\ Count(todo', W) + Tally(Head(todo), W) = Count(more, W) + Count(todo, W)
             /\ Tally(Head(todo), W) <= Count(todo, W)
  <2>1. /\ Count(todo, W) \in Nat /\ Count(more, W) \in Nat /\ Count(todo', W) \in Nat
        /\ Count(Tail(todo), W) \in Nat /\ Tally(Head(todo), W) \in Nat
    BY <1>1, <1>2, CountType DEF Tally
  <2>2. Count(todo', W) = Count(more, W) + Count(Tail(todo), W)
    BY <1>1, CountConcat
  <2>3. Count(todo, W) = Tally(Head(todo), W) + Count(Tail(todo), W)
    BY CountTail
  <2> QED
    BY <2>1, <2>2, <2>3
<1>4. ASSUME NEW W, NEW x
      PROVE  /\ x \in Args(todo', W) => x \in Args(more, W) \/ x \in Args(todo, W)
             /\ x \in Args(more, W) => x \in Args(todo', W)
             /\ Head(todo) \notin W =>
                  (x \in Args(todo', W) <=> x \in Args(more, W) \/ x \in Args(todo, W))
             /\ x \in Args(todo, W) => x = Head(todo).arg \/ x \in Args(todo', W)
  <2>1. x \in Args(more \o Tail(todo), W) <=> x \in Args(more, W) \/ x \in Args(Tail(todo), W)
    BY <1>1, ArgsConcat
  <2>2. x \in Args(todo, W)
          <=> (x = Head(todo).arg /\ Head(todo) \in W) \/ x \in Args(Tail(todo), W)
    BY ArgsTail
  <2> QED
    BY <1>1, <2>1, <2>2
<1> QED
  BY <1>1, <1>2, <1>3, <1>4

(* Who takes a listener off takes off its one registration.                *)
LEMMA WithoutCounts ==
  ASSUME listeners \in [Events -> Seq(Callees)], NEW e \in Events, NEW l \in Callees,
         NEW S, listeners[e] \in Seq(S), Count(listeners[e], {l}) <= 1
  PROVE  /\ Without(e, l) \in [Events -> Seq(Callees)]
         /\ Without(e, l)[e] \in Seq(S)
         /\ \A f \in Events : f # e => Without(e, l)[f] = listeners[f]
         /\ \A m : Count(Without(e, l)[e], {m}) = IF m = l THEN 0 ELSE Count(listeners[e], {m})
<1> DEFINE t == listeners[e]
           I == {i \in 1..Len(t) : t[i] = l}
           i == SelectLastInSeq(t, LAMBDA x : x = l)
           u == IF i = 0 THEN t ELSE RemoveAt(t, i)
<1>1. t \in Seq(Callees) /\ t \in Seq(S)
  OBVIOUS
<1>2. I = At(t, {l})
  BY <1>1 DEF At
<1>3. i = IF I # {} THEN Max(I) ELSE 0
  BY DEF SelectLastInSeq
<1>4. Without(e, l) = [listeners EXCEPT ![e] = u]
  BY DEF Without
<1>5. CASE I = {}
  <2>1. u = t
    BY <1>3, <1>5
  <2>2. Count(t, {l}) = 0
    BY <1>1, <1>2, <1>5, CountType
  <2> HIDE DEF u, i, I
  <2> QED
    BY <1>1, <1>4, <2>1, <2>2
<1>6. CASE I # {}
  <2>1. IsFiniteSet(I) /\ Cardinality(I) = 1
    <3>1. IsFiniteSet(I) /\ Cardinality(I) \in Nat /\ Cardinality(I) # 0 /\ Cardinality(I) <= 1
      BY <1>1, <1>2, <1>6, CountType DEF Count
    <3> QED
      BY <3>1
  <2>2. PICK k : I = {k}
    BY <2>1, FS_Singleton
  <2>3. Max(I) = k /\ k \in 1..Len(t) /\ t[k] = l
    <3>1. k \in I
      <4> HIDE DEF I
      <4> QED
        BY <2>2
    <3>2. k \in 1..Len(t) /\ t[k] = l /\ Len(t) \in Nat
      BY <1>1, <3>1
    <3>3. Max(I) = k
      <4> HIDE DEF I
      <4> QED
        BY <2>2, <3>2 DEF Max
    <3> QED
      BY <3>2, <3>3
  <2>4. i = k /\ k # 0
    BY <1>3, <1>6, <2>3
  <2>5. u = RemoveAt(t, k)
    BY <2>4
  <2> HIDE DEF u, i, I
  <2>6. u \in Seq(Callees) /\ u \in Seq(S)
    BY <1>1, <2>3, <2>5, CountRemoveAt
  <2>7. \A m : Count(u, {m}) = IF m = l THEN 0 ELSE Count(t, {m})
    <3> SUFFICES ASSUME NEW m
                 PROVE  Count(u, {m}) = IF m = l THEN 0 ELSE Count(t, {m})
      OBVIOUS
    <3>1. Count(t, {m}) = Count(u, {m}) + Tally(l, {m})
      BY <1>1, <2>3, <2>5, CountRemoveAt
    <3>2. Count(t, {m}) \in Nat /\ Count(u, {m}) \in Nat
      BY <1>1, <2>6, CountType
    <3>3. Tally(l, {m}) = IF m = l THEN 1 ELSE 0
      BY DEF Tally
    <3>4. m = l => Count(t, {m}) <= 1
      OBVIOUS
    <3> HIDE DEF t
    <3> QED
      BY <3>1, <3>2, <3>3, <3>4
  <2> QED
    BY <1>1, <1>4, <2>6, <2>7
<1> QED
  BY <1>5, <1>6

-----------------------------------------------------------------------------
(* The kinds of work *)

(* The endings are not the states a request begins in.                     *)
LEMMA StateFacts ==
  /\ Terminal \subseteq States /\ Pending \in States /\ Queued \in States
  /\ Pending \notin Terminal /\ Queued \notin Terminal
  /\ Done \in Terminal /\ Failed \in Terminal /\ Gone \in Terminal
  /\ \A n \in 1..MaxRetries : Retrying(n) \in States /\ Retrying(n) \notin Terminal
<1>1. Pending \notin Terminal /\ Queued \notin Terminal
  BY DEF Terminal, Pending, Queued, Done, Failed, Gone
<1>2. \A n : Retrying(n) \notin Terminal
  BY DEF Terminal, Retrying, Done, Failed, Gone
<1>3. Done \in Terminal /\ Failed \in Terminal /\ Gone \in Terminal
  BY DEF Terminal
<1> HIDE DEF Terminal, Pending, Queued, Retrying
<1> QED
  BY <1>1, <1>2, <1>3 DEF States

(* What an action puts into todo is work.                                  *)
LEMMA Constructors ==
  /\ \A e \in Events, a \in States :
       Emit(e, a) \in Jobs /\ Emit(e, a) = [what |-> "emit", of |-> e, arg |-> a]
  /\ \A a \in States : Mark(a) \in Jobs /\ Mark(a) = [what |-> "mark", of |-> "ticket", arg |-> a]
  /\ \A a \in Terminal : /\ Work("resolve", "ticket", a) \in Jobs
                         /\ Work("resolve", "ticket", a) = [what |-> "resolve", of |-> "ticket", arg |-> a]
  /\ Cleanup \in Jobs /\ Cleanup = [what |-> "cleanup", of |-> "client", arg |-> Pending]
  /\ \A e \in ClientEvents : /\ Measure(e) \in Jobs
                             /\ Measure(e) = [what |-> "measure", of |-> e, arg |-> Pending]
<1> USE DEF Work
<1>1. \A e \in Events, a \in States : Emit(e, a) \in Jobs
  BY DEF Emit, Jobs
<1>2. \A a \in States : Mark(a) \in Jobs
  BY DEF Mark, Jobs
<1>3. \A a \in Terminal : Work("resolve", "ticket", a) \in Jobs
  BY DEF Jobs
<1>4. Cleanup \in Jobs
  BY DEF Cleanup, Jobs
<1>5. \A e \in ClientEvents : Measure(e) \in Jobs
  BY DEF Measure, Jobs
<1> QED
  BY <1>1, <1>2, <1>3, <1>4, <1>5 DEF Emit, Mark, Cleanup, Measure

(* What there is to do, field by field.                                    *)
LEMMA JobFields ==
  ASSUME NEW w \in Jobs
  PROVE  /\ w.arg \in States
         /\ w.what = "emit" => w.of \in Events
         /\ w.what = "measure" => w.of \in ClientEvents
         /\ w.what = "resolve" => w.arg \in Terminal
         /\ w.what = "call" => w.of \in Events /\ w.to \in Callees /\ w.to \in Listening(w.of)
BY StateFacts DEF Jobs, Calls

(* What a job counts for.                                                  *)
LEMMA Sorts ==
  ASSUME NEW w \in Jobs
  PROVE  /\ \A e : Tally(w, Emits(e)) = IF w.what = "emit" /\ w.of = e THEN 1 ELSE 0
         /\ \A e : Tally(w, Measures(e)) = IF w.what = "measure" /\ w.of = e THEN 1 ELSE 0
         /\ Tally(w, Cleanups) = IF w.what = "cleanup" THEN 1 ELSE 0
         /\ \A S : Tally(w, Resolves(S)) = IF w.what = "resolve" /\ w.arg \in S THEN 1 ELSE 0
         /\ \A e, l : Tally(w, CallsTo(e, l))
                        = IF w.what = "call" /\ w.of = e /\ w.to = l THEN 1 ELSE 0
         /\ Tally(w, UpdateCalls) = IF w.what = "call" /\ w.of = "update" THEN 1 ELSE 0
         /\ Tally(w, Updates) = IF w.what \in {"emit", "call"} /\ w.of = "update" THEN 1 ELSE 0
BY DEF Tally, Emits, Measures, Cleanups, Resolves, CallsTo, UpdateCalls, Updates

(* What is not counted is not there, and has no argument.                  *)
LEMMA Absent ==
  ASSUME NEW S, NEW t \in Seq(S), NEW W, Count(t, W) = 0
  PROVE  At(t, W) = {} /\ Args(t, W) = {}
BY CountType DEF Args

\* The calls of an event's listeners.
CallsOf(e, a) ==
  [i \in DOMAIN listeners[e] |-> [what |-> "call", of |-> e, arg |-> a, to |-> listeners[e][i]]]

(* An event calls who listens for it, each as often as it is registered.   *)
LEMMA Calling ==
  ASSUME NEW e \in Events, NEW a \in States,
         listeners[e] \in Seq(Listening(e)), listeners[e] \in Seq(Callees)
  PROVE  /\ CallsOf(e, a) \in Seq(Jobs)
         /\ \A i \in 1..Len(CallsOf(e, a)) : /\ CallsOf(e, a)[i].what = "call" /\ CallsOf(e, a)[i].of = e
                                     /\ CallsOf(e, a)[i].arg = a
         /\ \A l : Count(CallsOf(e, a), CallsTo(e, l)) = Count(listeners[e], {l})
         /\ \A W : Args(CallsOf(e, a), W) \subseteq {a}
         /\ \A W : (\A w \in W : w.what = "call" => w.of # e) => Count(CallsOf(e, a), W) = 0
<1> DEFINE calls == CallsOf(e, a)
<1> DEFINE t == listeners[e]
<1>1. /\ Len(t) \in Nat /\ DOMAIN t = 1..Len(t)
      /\ \A i \in 1..Len(t) : t[i] \in Callees /\ t[i] \in Listening(e)
  OBVIOUS
<1>2. DOMAIN calls = 1..Len(t)
  BY <1>1 DEF CallsOf
<1>3. \A i \in 1..Len(t) :
        /\ calls[i] = [what |-> "call", of |-> e, arg |-> a, to |-> t[i]]
        /\ calls[i] \in Calls
  BY <1>1 DEF Calls, CallsOf
<1>4. \A i \in 1..Len(t) : calls[i] \in Jobs
  BY <1>3 DEF Jobs
<1>5. calls \in [1..Len(t) -> Jobs]
  BY <1>2, <1>4 DEF CallsOf
<1> HIDE DEF t, calls
<1>6. calls \in Seq(Jobs) /\ Len(calls) = Len(t)
  <2>1. calls \in Seq(Jobs)
    BY <1>1, <1>5, SeqDef
  <2> QED
    BY <1>1, <1>2, <2>1, LenProperties
<1>7. \A i \in 1..Len(t) :
         calls[i].what = "call" /\ calls[i].of = e /\ calls[i].arg = a /\ calls[i].to = t[i]
  <2> SUFFICES ASSUME NEW i \in 1..Len(t)
               PROVE  /\ calls[i].what = "call" /\ calls[i].of = e
                      /\ calls[i].arg = a /\ calls[i].to = t[i]
    OBVIOUS
  <2>1. calls[i] = [what |-> "call", of |-> e, arg |-> a, to |-> t[i]]
    BY <1>3
  <2> QED
    BY <2>1
<1>8. \A l : At(calls, CallsTo(e, l)) = At(t, {l})
  BY <1>1, <1>2, <1>4, <1>7 DEF At, CallsTo
<1>9. \A W : Args(calls, W) \subseteq {a}
  BY <1>2, <1>7 DEF Args, At
<1>10. ASSUME NEW W, \A w \in W : w.what = "call" => w.of # e
       PROVE  Count(calls, W) = 0
  <2>1. At(calls, W) = {}
    BY <1>2, <1>7, <1>10 DEF At
  <2> QED
    BY <1>6, <2>1, CountType
<1> QED
  BY <1>6, <1>7, <1>8, <1>9, <1>10 DEF Count, t, calls

-----------------------------------------------------------------------------
(* What leaves the parts of the invariant alone *)

(* The number of each kind of work, after the work at hand.                *)
LEMMA Books ==
  ASSUME todo \in Seq(Jobs), todo # <<>>, NEW more \in Seq(Jobs), Then(more)
  PROVE  /\ Head(todo) \in Jobs /\ todo' \in Seq(Jobs)
         /\ \A W : Count(todo, W) \in Nat /\ Count(more, W) \in Nat /\ Count(todo', W) \in Nat
         /\ \A e : Count(todo', Emits(e)) + (IF Head(todo).what = "emit" /\ Head(todo).of = e
                                             THEN 1 ELSE 0)
                     = Count(more, Emits(e)) + Count(todo, Emits(e))
         /\ \A e : Count(todo', Measures(e)) + (IF Head(todo).what = "measure" /\ Head(todo).of = e
                                                THEN 1 ELSE 0)
                     = Count(more, Measures(e)) + Count(todo, Measures(e))
         /\ Count(todo', Cleanups) + (IF Head(todo).what = "cleanup" THEN 1 ELSE 0)
              = Count(more, Cleanups) + Count(todo, Cleanups)
         /\ \A S : Count(todo', Resolves(S)) + (IF Head(todo).what = "resolve" /\ Head(todo).arg \in S
                                                THEN 1 ELSE 0)
                     = Count(more, Resolves(S)) + Count(todo, Resolves(S))
         /\ \A e, l : Count(todo', CallsTo(e, l))
                        + (IF Head(todo).what = "call" /\ Head(todo).of = e /\ Head(todo).to = l
                           THEN 1 ELSE 0)
                      = Count(more, CallsTo(e, l)) + Count(todo, CallsTo(e, l))
         /\ Count(todo', UpdateCalls) + (IF Head(todo).what = "call" /\ Head(todo).of = "update"
                                         THEN 1 ELSE 0)
              = Count(more, UpdateCalls) + Count(todo, UpdateCalls)
<1>1. /\ Head(todo) \in Jobs /\ todo' \in Seq(Jobs)
      /\ \A W : /\ Count(todo, W) \in Nat /\ Count(more, W) \in Nat /\ Count(todo', W) \in Nat
               /\ Count(todo', W) + Tally(Head(todo), W) = Count(more, W) + Count(todo, W)
  BY Moves
<1>2. ASSUME NEW e
      PROVE  Count(todo', Emits(e)) + (IF Head(todo).what = "emit" /\ Head(todo).of = e THEN 1 ELSE 0)
               = Count(more, Emits(e)) + Count(todo, Emits(e))
  <2>1. Tally(Head(todo), Emits(e)) = IF Head(todo).what = "emit" /\ Head(todo).of = e THEN 1 ELSE 0
    BY <1>1, Sorts
  <2> QED
    BY <1>1, <2>1
<1>3. ASSUME NEW e
      PROVE  Count(todo', Measures(e)) + (IF Head(todo).what = "measure" /\ Head(todo).of = e THEN 1 ELSE 0)
               = Count(more, Measures(e)) + Count(todo, Measures(e))
  <2>1. Tally(Head(todo), Measures(e)) = IF Head(todo).what = "measure" /\ Head(todo).of = e THEN 1 ELSE 0
    BY <1>1, Sorts
  <2> QED
    BY <1>1, <2>1
<1>4. Count(todo', Cleanups) + (IF Head(todo).what = "cleanup" THEN 1 ELSE 0)
        = Count(more, Cleanups) + Count(todo, Cleanups)
  <2>1. Tally(Head(todo), Cleanups) = IF Head(todo).what = "cleanup" THEN 1 ELSE 0
    BY <1>1, Sorts
  <2> QED
    BY <1>1, <2>1
<1>5. ASSUME NEW S
      PROVE  Count(todo', Resolves(S))
               + (IF Head(todo).what = "resolve" /\ Head(todo).arg \in S THEN 1 ELSE 0)
               = Count(more, Resolves(S)) + Count(todo, Resolves(S))
  <2>1. Tally(Head(todo), Resolves(S)) = IF Head(todo).what = "resolve" /\ Head(todo).arg \in S THEN 1 ELSE 0
    BY <1>1, Sorts
  <2> QED
    BY <1>1, <2>1
<1>6. ASSUME NEW e, NEW l
      PROVE  Count(todo', CallsTo(e, l))
               + (IF Head(todo).what = "call" /\ Head(todo).of = e /\ Head(todo).to = l THEN 1 ELSE 0)
               = Count(more, CallsTo(e, l)) + Count(todo, CallsTo(e, l))
  <2>1. Tally(Head(todo), CallsTo(e, l))
          = IF Head(todo).what = "call" /\ Head(todo).of = e /\ Head(todo).to = l THEN 1 ELSE 0
    BY <1>1, Sorts
  <2> QED
    BY <1>1, <2>1
<1>7. Count(todo', UpdateCalls) + (IF Head(todo).what = "call" /\ Head(todo).of = "update" THEN 1 ELSE 0)
        = Count(more, UpdateCalls) + Count(todo, UpdateCalls)
  <2>1. Tally(Head(todo), UpdateCalls) = IF Head(todo).what = "call" /\ Head(todo).of = "update" THEN 1 ELSE 0
    BY <1>1, Sorts
  <2> QED
    BY <1>1, <2>1
<1> QED
  BY <1>1, <1>2, <1>3, <1>4, <1>5, <1>6, <1>7

(* Nothing is announced of the ticket or resolved.                         *)
LEMMA SettlingKept ==
  ASSUME Settling, UNCHANGED ticket, hist'.dones = hist.dones,
         Count(todo', Emits("done")) = Count(todo, Emits("done")),
         \A S : Count(todo', Resolves(S)) = Count(todo, Resolves(S))
  PROVE  Settling'
BY DEF Settling

(* Nothing is announced of the request, measured or cleaned up.            *)
LEMMA ReportingKept ==
  ASSUME Reporting, UNCHANGED client, hist'.ends = hist.ends,
         \A e \in ClientEvents : /\ Count(todo', Emits(e)) = Count(todo, Emits(e))
                                 /\ Count(todo', Measures(e)) = Count(todo, Measures(e)),
         Count(todo', Cleanups) = Count(todo, Cleanups)
  PROVE  Reporting'
BY DEF Reporting, ClientEvents

(* The tracer hears of nothing and stays.                                  *)
LEMMA TracingKept ==
  ASSUME Tracing, UNCHANGED tracer,
         client'.pc = client.pc, client'.attempt = client.attempt,
         \A e \in ClientEvents : Count(listeners'[e], {Tracer}) = Count(listeners[e], {Tracer}),
         hist'.ends = hist.ends, hist'.stoppedAhead = hist.stoppedAhead,
         hist'.orphaned = hist.orphaned,
         Count(todo', Emits("request")) = Count(todo, Emits("request")),
         Count(todo', CallsTo("request", Tracer)) = Count(todo, CallsTo("request", Tracer)),
         Count(todo', CallsTo("end", Tracer)) = Count(todo, CallsTo("end", Tracer))
  PROVE  Tracing'
BY DEF Tracing, Opening, Closing

(* No update is announced or delivered, and the streams do not move.       *)
LEMMA WatchingKept ==
  ASSUME Watching, UNCHANGED stream, hist'.emitted = hist.emitted,
         hist.reentered => hist'.reentered,
         ticket.state \in Terminal => ticket'.state \in Terminal,
         ticket.state \notin Terminal \/ Count(todo', Emits("update")) = Count(todo, Emits("update")),
         \A s \in Streams :
           /\ Count(listeners'["update"], {s}) = Count(listeners["update"], {s})
           /\ Count(todo', CallsTo("update", s)) = Count(todo, CallsTo("update", s))
           /\ Args(todo', CallsTo("update", s)) = Args(todo, CallsTo("update", s))
  PROVE  Watching'
<1> SUFFICES ASSUME NEW s \in Streams
             PROVE  Watched(s)'
  BY DEF Watching
<1>1. /\ stream'[s] = stream[s] /\ Due(s)' = Due(s) /\ Seen(s)' = Seen(s)
      /\ Coming(s)' = Coming(s) /\ Follows(s)' = Follows(s)
  BY DEF Due, Seen, Coming, Follows
<1>2. Watched(s)
  BY DEF Watching
<1> QED
  BY <1>1, <1>2 DEF Watched

(* No update is announced that was not known of.                           *)
LEMMA TruthfulKept ==
  ASSUME Truthful, ticket.state \in Terminal => ticket'.state \in Terminal,
         \A x : x \in Args(todo', Updates) => x \in Args(todo, Updates)
  PROVE  Truthful'
BY DEF Truthful

(* While other work is done no update is being delivered.                  *)
LEMMA NoneDelivered ==
  ASSUME todo \in Seq(Jobs), todo # <<>>, Orderly, ~hist.reentered,
         Head(todo).what # "call" \/ Head(todo).of # "update"
  PROVE  Count(todo, UpdateCalls) = 0
<1>1. At(todo, UpdateCalls) = {}
  <2> SUFFICES ASSUME NEW j \in At(todo, UpdateCalls)
               PROVE  FALSE
    OBVIOUS
  <2>1. 1 \in 1..j
    BY DEF At
  <2>2. todo[1] \in UpdateCalls /\ todo[1] = Head(todo)
    BY <2>1 DEF Orderly
  <2> QED
    BY <2>2 DEF UpdateCalls
<1> QED
  BY <1>1, CountType

(* Where no update is being delivered, none is out of its order.           *)
LEMMA OrderlyWithout ==
  ASSUME todo' \in Seq(Jobs), hist'.reentered \/ Count(todo', UpdateCalls) = 0
  PROVE  Orderly'
<1>1. Count(todo', UpdateCalls) = 0 => At(todo', UpdateCalls) = {}
  BY CountType
<1> QED
  BY <1>1 DEF Orderly

(* Work that leads to nothing: the rest is as it was.                      *)
LEMMA Finished ==
  ASSUME todo \in Seq(Jobs), todo # <<>>, Then(<<>>)
  PROVE  /\ Head(todo) \in Jobs /\ todo' \in Seq(Jobs)
         /\ \A W : /\ Count(todo, W) \in Nat /\ Count(todo', W) \in Nat
                  /\ Count(todo', W) + Tally(Head(todo), W) = Count(todo, W)
         /\ Head(todo).what # "emit" => \A e : Count(todo', Emits(e)) = Count(todo, Emits(e))
         /\ Head(todo).what # "measure" => \A e : Count(todo', Measures(e)) = Count(todo, Measures(e))
         /\ Head(todo).what # "cleanup" => Count(todo', Cleanups) = Count(todo, Cleanups)
         /\ Head(todo).what # "resolve" => \A S : Count(todo', Resolves(S)) = Count(todo, Resolves(S))
         /\ \A e, l : ~(Head(todo).what = "call" /\ Head(todo).of = e /\ Head(todo).to = l) =>
                        Count(todo', CallsTo(e, l)) = Count(todo, CallsTo(e, l))
         /\ ~(Head(todo).what = "call" /\ Head(todo).of = "update") =>
              /\ Count(todo', UpdateCalls) = Count(todo, UpdateCalls)
              /\ \A l : Args(todo', CallsTo("update", l)) = Args(todo, CallsTo("update", l))
         /\ \A x : x \in Args(todo', Updates) => x \in Args(todo, Updates)
<1> DEFINE none == <<>>
<1>1. none \in Seq(Jobs) /\ \A W : Count(none, W) = 0 /\ Args(none, W) = {}
  BY CountNone DEF Args
<1> HIDE DEF none
<1>2. /\ Head(todo) \in Jobs /\ todo' \in Seq(Jobs)
      /\ \A W : /\ Count(todo, W) \in Nat /\ Count(todo', W) \in Nat
               /\ Count(todo', W) + Tally(Head(todo), W) = Count(todo, W)
               /\ \A x : /\ x \in Args(todo', W) => x \in Args(todo, W)
                         /\ Head(todo) \notin W => (x \in Args(todo', W) <=> x \in Args(todo, W))
  <2>1. Then(none)
    BY DEF none
  <2>2. /\ Head(todo) \in Jobs /\ todo' \in Seq(Jobs)
        /\ \A W : /\ Count(todo, W) \in Nat /\ Count(todo', W) \in Nat
                 /\ Count(todo', W) + Tally(Head(todo), W) = Count(none, W) + Count(todo, W)
    BY <1>1, <2>1, Moves
  <2>3. \A W, x : /\ x \in Args(todo', W) => x \in Args(none, W) \/ x \in Args(todo, W)
                  /\ Head(todo) \notin W =>
                      (x \in Args(todo', W) <=> x \in Args(none, W) \/ x \in Args(todo, W))
    BY <1>1, <2>1, Moves
  <2> QED
    BY <1>1, <2>2, <2>3
<1>3. ASSUME Head(todo).what # "emit", NEW e
      PROVE  Count(todo', Emits(e)) = Count(todo, Emits(e))
  <2>1. Tally(Head(todo), Emits(e)) = 0
    BY <1>2, <1>3, Sorts
  <2> QED
    BY <1>2, <2>1
<1>4. ASSUME Head(todo).what # "measure", NEW e
      PROVE  Count(todo', Measures(e)) = Count(todo, Measures(e))
  <2>1. Tally(Head(todo), Measures(e)) = 0
    BY <1>2, <1>4, Sorts
  <2> QED
    BY <1>2, <2>1
<1>5. ASSUME Head(todo).what # "cleanup"
      PROVE  Count(todo', Cleanups) = Count(todo, Cleanups)
  <2>1. Tally(Head(todo), Cleanups) = 0
    BY <1>2, <1>5, Sorts
  <2> QED
    BY <1>2, <2>1
<1>6. ASSUME Head(todo).what # "resolve", NEW S
      PROVE  Count(todo', Resolves(S)) = Count(todo, Resolves(S))
  <2>1. Tally(Head(todo), Resolves(S)) = 0
    BY <1>2, <1>6, Sorts
  <2> QED
    BY <1>2, <2>1
<1>7. ASSUME NEW e, NEW l, ~(Head(todo).what = "call" /\ Head(todo).of = e /\ Head(todo).to = l)
      PROVE  Count(todo', CallsTo(e, l)) = Count(todo, CallsTo(e, l))
  <2>1. Tally(Head(todo), CallsTo(e, l)) = 0
    BY <1>2, <1>7, Sorts
  <2> QED
    BY <1>2, <2>1
<1>8. ASSUME ~(Head(todo).what = "call" /\ Head(todo).of = "update")
      PROVE  /\ Count(todo', UpdateCalls) = Count(todo, UpdateCalls)
             /\ \A l : Args(todo', CallsTo("update", l)) = Args(todo, CallsTo("update", l))
  <2>1. Tally(Head(todo), UpdateCalls) = 0 /\ \A l : Head(todo) \notin CallsTo("update", l)
    BY <1>2, <1>8, Sorts DEF CallsTo
  <2>2. \A l, x : x \in Args(todo', CallsTo("update", l)) <=> x \in Args(todo, CallsTo("update", l))
    BY <1>2, <2>1
  <2>3. \A l : Args(todo', CallsTo("update", l)) = Args(todo, CallsTo("update", l))
    <3> SUFFICES ASSUME NEW l
                 PROVE  Args(todo', CallsTo("update", l)) = Args(todo, CallsTo("update", l))
      OBVIOUS
    <3>1. /\ Args(todo', CallsTo("update", l)) \subseteq Args(todo, CallsTo("update", l))
          /\ Args(todo, CallsTo("update", l)) \subseteq Args(todo', CallsTo("update", l))
      BY <2>2
    <3> QED
      BY <3>1
  <2> QED
    BY <1>2, <2>1, <2>3
<1> QED
  BY <1>2, <1>3, <1>4, <1>5, <1>6, <1>7, <1>8

-----------------------------------------------------------------------------
(* The synchronous work *)

(* What is counted is what happened.                                       *)
LEMMA RunMeasureKeeps ==
  ASSUME IInv, RunMeasure
  PROVE  IInv'
<1>1. /\ Typed /\ Settling /\ Reporting /\ Tracing /\ Watching /\ Truthful /\ Orderly
      /\ todo \in Seq(Jobs) /\ todo # <<>> /\ Head(todo).what = "measure" /\ Then(<<>>)
      /\ UNCHANGED <<ticket, listeners, stream, tracer, hist>>
  BY DEF IInv, RunMeasure, Typed, AtHand, Idle
<1> DEFINE event == Head(todo).of
<1>2. /\ Head(todo) \in Jobs /\ todo' \in Seq(Jobs)
      /\ \A W : /\ Count(todo, W) \in Nat /\ Count(todo', W) \in Nat
               /\ Count(todo', W) + Tally(Head(todo), W) = Count(todo, W)
      /\ \A e : Count(todo', Emits(e)) = Count(todo, Emits(e))
      /\ Count(todo', Cleanups) = Count(todo, Cleanups)
      /\ \A S : Count(todo', Resolves(S)) = Count(todo, Resolves(S))
      /\ \A e, l : Count(todo', CallsTo(e, l)) = Count(todo, CallsTo(e, l))
      /\ Count(todo', UpdateCalls) = Count(todo, UpdateCalls)
      /\ \A l : Args(todo', CallsTo("update", l)) = Args(todo, CallsTo("update", l))
      /\ \A x : x \in Args(todo', Updates) => x \in Args(todo, Updates)
  BY <1>1, Finished
<1>3. event \in ClientEvents
  BY <1>1, <1>2, JobFields
<1>4. \A e : Count(todo', Measures(e)) + (IF event = e THEN 1 ELSE 0) = Count(todo, Measures(e))
  <2> SUFFICES ASSUME NEW e
               PROVE  Count(todo', Measures(e)) + (IF event = e THEN 1 ELSE 0) = Count(todo, Measures(e))
    OBVIOUS
  <2>1. Tally(Head(todo), Measures(e)) = IF event = e THEN 1 ELSE 0
    BY <1>1, <1>2, Sorts
  <2> QED
    BY <1>2, <2>1
<1>5. /\ client'.pc = client.pc /\ client'.retries = client.retries
      /\ client'.attempt = client.attempt /\ client'.inflight = client.inflight
      /\ client'.gauge = IF event = "request" THEN client.inflight ELSE client.gauge
      /\ client'.measured = [client.measured EXCEPT ![event] = @ + 1]
      /\ client' \in Clients
  <2>1. client \in Clients /\ client.inflight \in {0, 1}
    BY <1>1 DEF Typed, Clients, Histories
  <2>2. client' = [client EXCEPT !.measured = [client.measured EXCEPT ![event] = @ + 1],
                                 !.gauge = IF event = "request" THEN client.inflight ELSE client.gauge]
    BY <1>3, <2>1 DEF RunMeasure, Measured, Clients
  <2>3. [client.measured EXCEPT ![event] = @ + 1] \in [ClientEvents -> Nat]
    BY <1>3, <2>1 DEF Clients
  <2> QED
    BY <2>1, <2>2, <2>3 DEF Clients
<1>6. Typed'
  BY <1>1, <1>2, <1>5 DEF Typed
<1>7. Settling'
  BY <1>1, <1>2, SettlingKept
<1>8. Reporting'
  <2>1. /\ client.measured \in [ClientEvents -> Nat] /\ client.gauge \in {0, 1}
        /\ client.inflight \in {0, 1} /\ hist.ends \in Nat
    BY <1>1 DEF Typed, Clients, Histories
  <2>2. \A e \in ClientEvents :
          client'.measured[e] + Count(todo', Measures(e))
            = client.measured[e] + Count(todo, Measures(e))
    <3> SUFFICES ASSUME NEW e \in ClientEvents
                 PROVE  client'.measured[e] + Count(todo', Measures(e))
                          = client.measured[e] + Count(todo, Measures(e))
      OBVIOUS
    <3>1. client'.measured[e] = IF e = event THEN client.measured[e] + 1 ELSE client.measured[e]
      BY <1>3, <1>5, <2>1
    <3> QED
      BY <1>2, <1>4, <2>1, <3>1
  <2>3. client'.gauge # client'.inflight => client.gauge # client.inflight
    BY <1>5
  <2>4. /\ client'.measured["retry"] + Count(todo', Measures("retry"))
            = client.measured["retry"] + Count(todo, Measures("retry"))
        /\ client'.measured["end"] + Count(todo', Measures("end"))
            = client.measured["end"] + Count(todo, Measures("end"))
        /\ client.measured["retry"] \in Nat /\ client'.measured["retry"] \in Nat
    BY <1>5, <2>1, <2>2 DEF ClientEvents, Clients
  <2>5. client'.measured["retry"] + Count(todo', Emits("retry")) + Count(todo', Measures("retry"))
          = client.measured["retry"] + Count(todo, Emits("retry")) + Count(todo, Measures("retry"))
    <3>1. /\ Count(todo', Emits("retry")) = Count(todo, Emits("retry"))
          /\ Count(todo, Emits("retry")) \in Nat
          /\ Count(todo, Measures("retry")) \in Nat /\ Count(todo', Measures("retry")) \in Nat
      BY <1>2
    <3> QED
      BY <2>4, <3>1
  <2>6. client'.gauge # client'.inflight =>
          Count(todo', Measures("request")) = Count(todo, Measures("request"))
    <3>1. event = "request" => client'.gauge = client'.inflight
      BY <1>5
    <3>2. event # "request" => Count(todo', Measures("request")) = Count(todo, Measures("request"))
      BY <1>2, <1>4
    <3> QED
      BY <3>1, <3>2
  <2> QED
    BY <1>1, <1>2, <1>5, <2>3, <2>4, <2>5, <2>6 DEF Reporting
<1>9. Tracing'
  BY <1>1, <1>2, <1>5, TracingKept
<1>10. Watching' /\ Truthful'
  BY <1>1, <1>2, WatchingKept, TruthfulKept
<1>11. Orderly'
  BY <1>1, <1>2, NoneDelivered, OrderlyWithout
<1> QED
  BY <1>6, <1>7, <1>8, <1>9, <1>10, <1>11 DEF IInv

(* The entry leaves the set, and the gauge is reported with it.            *)
LEMMA RunCleanupKeeps ==
  ASSUME IInv, RunCleanup
  PROVE  IInv'
<1>1. /\ Typed /\ Settling /\ Reporting /\ Tracing /\ Watching /\ Truthful /\ Orderly
      /\ todo \in Seq(Jobs) /\ todo # <<>> /\ Head(todo).what = "cleanup" /\ Then(<<>>)
      /\ UNCHANGED <<ticket, listeners, stream, tracer, hist>>
  BY DEF IInv, RunCleanup, Typed, AtHand, Idle
<1>2. /\ todo' \in Seq(Jobs)
      /\ \A W : Count(todo, W) \in Nat /\ Count(todo', W) \in Nat
      /\ \A e : /\ Count(todo', Emits(e)) = Count(todo, Emits(e))
                /\ Count(todo', Measures(e)) = Count(todo, Measures(e))
      /\ \A S : Count(todo', Resolves(S)) = Count(todo, Resolves(S))
      /\ \A e, l : Count(todo', CallsTo(e, l)) = Count(todo, CallsTo(e, l))
      /\ Count(todo', UpdateCalls) = Count(todo, UpdateCalls)
      /\ \A l : Args(todo', CallsTo("update", l)) = Args(todo, CallsTo("update", l))
      /\ \A x : x \in Args(todo', Updates) => x \in Args(todo, Updates)
  BY <1>1, Finished
<1>3. /\ client' \in Clients /\ client'.pc = client.pc /\ client'.retries = client.retries
      /\ client'.attempt = client.attempt /\ client'.measured = client.measured
      /\ client'.gauge = client'.inflight
  <2>1. client \in Clients /\ client' = Cleaned
    BY <1>1 DEF Typed, RunCleanup
  <2>2. CASE client.inflight = 1
    BY <2>1, <2>2 DEF Cleaned, Clients
  <2>3. CASE client.inflight = 0
    <3>1. client.gauge # client.inflight => client.inflight = 1
      BY <1>1 DEF Reporting
    <3> QED
      BY <2>1, <2>3, <3>1 DEF Cleaned, Clients
  <2> QED
    BY <2>1, <2>2, <2>3 DEF Clients
<1>4. Typed'
  BY <1>1, <1>2, <1>3 DEF Typed
<1>5. Settling'
  BY <1>1, <1>2, SettlingKept
<1>6. Reporting'
  BY <1>1, <1>2, <1>3 DEF Reporting
<1>7. Tracing'
  BY <1>1, <1>2, <1>3, TracingKept
<1>8. Watching' /\ Truthful'
  BY <1>1, <1>2, WatchingKept, TruthfulKept
<1>9. Orderly'
  BY <1>1, <1>2, NoneDelivered, OrderlyWithout
<1> QED
  BY <1>4, <1>5, <1>6, <1>7, <1>8, <1>9 DEF IInv

(* The promise resolves once, and there is only one ending to do it with.  *)
LEMMA RunResolveKeeps ==
  ASSUME IInv, RunResolve
  PROVE  IInv'
<1>1. /\ Typed /\ Settling /\ Reporting /\ Tracing /\ Watching /\ Truthful /\ Orderly
      /\ todo \in Seq(Jobs) /\ todo # <<>> /\ Head(todo).what = "resolve" /\ Then(<<>>)
      /\ UNCHANGED <<listeners, stream, client, tracer, hist>>
  BY DEF IInv, RunResolve, Typed, AtHand, Idle
<1> DEFINE ending == Head(todo).arg
<1>2. /\ todo' \in Seq(Jobs) /\ Head(todo) \in Jobs
      /\ \A W : /\ Count(todo, W) \in Nat /\ Count(todo', W) \in Nat
                /\ Count(todo', W) + Tally(Head(todo), W) = Count(todo, W)
      /\ \A e : /\ Count(todo', Emits(e)) = Count(todo, Emits(e))
                /\ Count(todo', Measures(e)) = Count(todo, Measures(e))
      /\ Count(todo', Cleanups) = Count(todo, Cleanups)
      /\ \A e, l : Count(todo', CallsTo(e, l)) = Count(todo, CallsTo(e, l))
      /\ Count(todo', UpdateCalls) = Count(todo, UpdateCalls)
      /\ \A l : Args(todo', CallsTo("update", l)) = Args(todo, CallsTo("update", l))
      /\ \A x : x \in Args(todo', Updates) => x \in Args(todo, Updates)
  BY <1>1, Finished
<1>3. ending \in Terminal
  BY <1>1, <1>2, JobFields
<1>4. ending = ticket.state
  <2> SUFFICES ASSUME ending # ticket.state
               PROVE  FALSE
    OBVIOUS
  <2> DEFINE others == Terminal \ {ticket.state}
  <2>1. ending \in others
    BY <1>3
  <2> HIDE DEF others
  <2>2. Tally(Head(todo), Resolves(others)) = 1
    BY <1>1, <1>2, <2>1, Sorts
  <2>3. Count(todo, Resolves(others)) = 0
    BY <1>1 DEF Settling, others
  <2>4. /\ Count(todo', Resolves(others)) \in Nat
        /\ Count(todo', Resolves(others)) + Tally(Head(todo), Resolves(others))
             = Count(todo, Resolves(others))
    BY <1>2
  <2> QED
    BY <2>2, <2>3, <2>4
<1>5. /\ ticket \in [state : States, promise : Terminal \cup {Pending}]
      /\ ticket' = [ticket EXCEPT !.promise = IF @ = Pending THEN ending ELSE @]
  BY <1>1 DEF Typed, RunResolve
<1>6. ticket'.state = ticket.state /\ ticket'.promise = ticket.state
      /\ ticket' \in [state : States, promise : Terminal \cup {Pending}]
  <2>1. ticket.promise # Pending => ticket.promise = ticket.state
    BY <1>1 DEF Settling
  <2> HIDE DEF ending
  <2> QED
    BY <1>3, <1>4, <1>5, <2>1
<1>7. Typed'
  BY <1>1, <1>2, <1>6 DEF Typed
<1>8. Settling'
  <2> DEFINE others == Terminal \ {ticket.state}
  <2>1. Count(todo, Resolves(others)) = 0
    BY <1>1 DEF Settling
  <2> HIDE DEF others
  <2>2. Count(todo', Resolves(others)) = 0
    <3>1. /\ Count(todo', Resolves(others)) \in Nat /\ Tally(Head(todo), Resolves(others)) \in Nat
          /\ Count(todo', Resolves(others)) + Tally(Head(todo), Resolves(others))
               = Count(todo, Resolves(others))
      BY <1>2 DEF Tally
    <3> QED
      BY <2>1, <3>1
  <2>3. ticket'.promise # Pending
    BY <1>3, <1>4, <1>6, StateFacts
  <2> QED
    BY <1>1, <1>2, <1>6, <2>2, <2>3 DEF Settling, others
<1>9. Reporting'
  BY <1>1, <1>2, ReportingKept
<1>10. Tracing'
  BY <1>1, <1>2, TracingKept
<1>11. Watching' /\ Truthful'
  BY <1>1, <1>2, <1>6, WatchingKept, TruthfulKept
<1>12. Orderly'
  BY <1>1, <1>2, NoneDelivered, OrderlyWithout
<1> QED
  BY <1>7, <1>8, <1>9, <1>10, <1>11, <1>12 DEF IInv

(* What a listener is called for.                                          *)
LEMMA CallerFacts ==
  ASSUME NEW w \in Jobs, w.what = "call"
  PROVE  /\ w.to = Tracer => w.of \in ClientEvents /\ w.of # "update"
         /\ w.to \in Streams => w.of = "update" /\ w.to # Tracer
         /\ w.to \in Users => w.to # Tracer /\ w.to \notin Streams
         /\ w.of \in Events /\ w.to \in Callees
<1>1. w.of \in Events /\ w.to \in Callees /\ w.to \in Listening(w.of)
  BY JobFields
<1> QED
  BY <1>1, ObserversAssumption DEF Listening, ClientEvents

(* A span is opened once, for a request on its way, and closed by its end. *)
LEMMA CallTracerKeeps ==
  ASSUME IInv, CallTracer
  PROVE  IInv'
<1>1. /\ Typed /\ Settling /\ Reporting /\ Tracing /\ Watching /\ Truthful /\ Orderly
      /\ todo \in Seq(Jobs) /\ todo # <<>> /\ Head(todo).what = "call" /\ Head(todo).to = Tracer
      /\ Then(<<>>) /\ UNCHANGED <<ticket, listeners, stream, client, hist>>
  BY DEF IInv, CallTracer, Typed, Called, AtHand, Idle
<1> DEFINE event == Head(todo).of
<1>2. Head(todo) \in Jobs /\ event \in ClientEvents /\ event # "update" /\ Tracer \notin Streams
  <2>1. Head(todo) \in Jobs
    BY <1>1, Finished
  <2> QED
    BY <1>1, <2>1, CallerFacts, ObserversAssumption
<1>3. /\ todo' \in Seq(Jobs)
      /\ \A W : /\ Count(todo, W) \in Nat /\ Count(todo', W) \in Nat
                /\ Count(todo', W) + Tally(Head(todo), W) = Count(todo, W)
      /\ \A e : /\ Count(todo', Emits(e)) = Count(todo, Emits(e))
                /\ Count(todo', Measures(e)) = Count(todo, Measures(e))
      /\ Count(todo', Cleanups) = Count(todo, Cleanups)
      /\ \A S : Count(todo', Resolves(S)) = Count(todo, Resolves(S))
      /\ \A e, l : e # event \/ l # Tracer => Count(todo', CallsTo(e, l)) = Count(todo, CallsTo(e, l))
      /\ Count(todo', UpdateCalls) = Count(todo, UpdateCalls)
      /\ \A l : Args(todo', CallsTo("update", l)) = Args(todo, CallsTo("update", l))
      /\ \A x : x \in Args(todo', Updates) => x \in Args(todo, Updates)
  BY <1>1, <1>2, Finished
<1>4. /\ Count(todo', CallsTo(event, Tracer)) + 1 = Count(todo, CallsTo(event, Tracer))
      /\ Count(todo', CallsTo(event, Tracer)) \in Nat
  <2>1. Tally(Head(todo), CallsTo(event, Tracer)) = 1
    BY <1>1, <1>2, Sorts
  <2> QED
    BY <1>3, <2>1
<1>5. /\ event = "request" => tracer' = [tracer EXCEPT !.span = "open", !.started = @ + 1]
      /\ event = "retry" => tracer' = tracer
      /\ event = "end" => tracer' = Ended(tracer)
  BY DEF CallTracer
<1>7. /\ tracer \in Tracers /\ tracer.started \in Nat /\ tracer.ended \in Nat
          /\ tracer.span \in {"none", "open"} /\ tracer.active \in BOOLEAN
  BY <1>1 DEF Typed, Tracers
<1>6. /\ Count(todo, Emits("request")) \in Nat /\ Count(todo, CallsTo("request", Tracer)) \in Nat
      /\ Count(todo, CallsTo("end", Tracer)) \in Nat /\ Count(todo, Emits("end")) \in Nat
      /\ Count(todo', CallsTo("request", Tracer)) \in Nat /\ Count(todo', CallsTo("end", Tracer)) \in Nat
      /\ hist.ends \in Nat
  BY <1>1, <1>3 DEF Typed, Histories
<1>12. Typed' /\ Tracing'
  <2>1. CASE event = "request"
    <3>1. tracer' = [tracer EXCEPT !.span = "open", !.started = @ + 1]
      BY <1>5, <2>1
    <3>2. /\ Opening' + 1 = Opening /\ Opening' \in Nat /\ Closing' = Closing /\ Closing \in Nat
      <4>1. /\ Count(todo', Emits("request")) = Count(todo, Emits("request"))
            /\ Count(todo', CallsTo("request", Tracer)) + 1 = Count(todo, CallsTo("request", Tracer))
        BY <1>3, <1>4, <2>1
      <4>2. Count(todo', CallsTo("end", Tracer)) = Count(todo, CallsTo("end", Tracer))
        BY <1>3, <2>1
      <4>3. Opening' + 1 = Opening /\ Opening' \in Nat
        BY <1>6, <4>1 DEF Opening
      <4> QED
        BY <1>6, <4>2, <4>3 DEF Closing
    <3>3. client.pc = "first" /\ tracer.started = 0
      BY <1>1, <1>7, <3>2 DEF Tracing
    <3>4. tracer.ended = 0
      BY <1>1, <1>7, <3>3 DEF Tracing
    <3>5. hist.ends = 0
      BY <1>1, <1>6, <3>3 DEF Reporting
    <3>6. ~tracer.active => hist.stoppedAhead
      BY <1>1, <1>4, <1>6, <2>1 DEF Tracing
    <3>7. Opening' = 0 /\ Count(todo', CallsTo("request", Tracer)) = 0
      BY <1>1, <1>3, <1>6, <3>2, <3>3 DEF Tracing, Opening
    <3>8. /\ tracer' \in Tracers /\ tracer'.active = tracer.active /\ tracer'.span = "open"
          /\ tracer'.started = 1 /\ tracer'.ended = 0
      <4>1. /\ tracer' \in Tracers /\ tracer'.active = tracer.active /\ tracer'.span = "open"
            /\ tracer'.started = tracer.started + 1 /\ tracer'.ended = tracer.ended
        <5> DEFINE n == tracer.started + 1
        <5>1. n \in Nat /\ tracer' = [tracer EXCEPT !.span = "open", !.started = n]
          BY <1>7, <3>1
        <5> HIDE DEF n
        <5>2. /\ tracer' \in Tracers /\ tracer'.active = tracer.active /\ tracer'.span = "open"
              /\ tracer'.started = n /\ tracer'.ended = tracer.ended
          BY <1>7, <5>1 DEF Tracers
        <5> QED
          BY <5>2 DEF n
      <4> QED
        BY <3>3, <3>4, <4>1
    <3>9. Tracing'
      <4>1. /\ \A e \in ClientEvents : Count(listeners'[e], {Tracer}) = IF tracer'.active THEN 1 ELSE 0
            /\ client'.attempt = "due" => client'.pc \in {"first", "loop"}
            /\ ~hist'.orphaned /\ client'.pc = "first" /\ hist'.ends = 0
            /\ ~tracer'.active => hist'.stoppedAhead
        BY <1>1, <3>3, <3>5, <3>6, <3>8 DEF Tracing
      <4>2. tracer'.started + Opening' <= 1 /\ ~(Opening' > 0)
        BY <3>2, <3>7, <3>8
      <4>3. ~(Closing' > 0) \/ client'.pc = "over"
        BY <1>1, <3>2 DEF Tracing
      <4> QED
        BY <3>7, <3>8, <4>1, <4>2, <4>3 DEF Tracing
    <3>10. Typed'
      BY <1>1, <1>3, <3>8 DEF Typed
    <3> QED
      BY <3>9, <3>10
  <2>2. CASE event = "retry"
    <3>1. tracer' = tracer
      BY <1>5, <2>2
    <3>2. Tracing'
      BY <1>1, <1>3, <2>2, <3>1, TracingKept
    <3>3. Typed'
      BY <1>1, <1>3, <1>7, <3>1 DEF Typed
    <3> QED
      BY <3>2, <3>3
  <2>3. CASE event = "end"
    <3>1. tracer' = Ended(tracer)
      BY <1>5, <2>3
    <3>2. Opening' = Opening /\ Closing > 0
      BY <1>3, <1>4, <1>6, <2>3 DEF Opening, Closing
    <3>3. client.pc = "over"
      BY <1>1, <3>2 DEF Tracing
    <3>4. Opening = 0
      BY <1>1, <1>6, <3>3 DEF Tracing, Opening
    <3>5. /\ tracer' \in Tracers
          /\ tracer'.active = tracer.active /\ tracer'.started = tracer.started
          /\ tracer'.span = "none"
          /\ tracer'.ended = tracer.ended + (IF tracer.span = "open" THEN 1 ELSE 0)
      <4>1. CASE tracer.span = "open"
        <5> DEFINE n == tracer.ended + 1
        <5>1. n \in Nat /\ tracer' = [tracer EXCEPT !.span = "none", !.ended = n]
          BY <1>7, <3>1, <4>1 DEF Ended
        <5> HIDE DEF n
        <5>2. /\ tracer' \in Tracers /\ tracer'.active = tracer.active /\ tracer'.span = "none"
              /\ tracer'.started = tracer.started /\ tracer'.ended = n
          BY <1>7, <5>1 DEF Tracers
        <5> QED
          BY <4>1, <5>2 DEF n
      <4>2. CASE tracer.span # "open"
        <5>1. tracer' = tracer /\ tracer.span = "none"
          BY <1>7, <3>1, <4>2 DEF Ended
        <5> QED
          BY <1>7, <4>2, <5>1
      <4> QED
        BY <4>1, <4>2
    <3>6. Tracing'
      <4>1. /\ tracer.ended \in Nat /\ tracer.started \in Nat
            /\ tracer.ended + (IF tracer.span = "open" THEN 1 ELSE 0) <= tracer.started
        BY <1>1, <1>7 DEF Tracing
      <4>2. tracer'.ended + (IF tracer'.span = "open" THEN 1 ELSE 0) <= tracer'.started
        BY <3>5, <4>1
      <4> QED
        <5>1. /\ \A e \in ClientEvents : Count(listeners'[e], {Tracer}) = IF tracer'.active THEN 1 ELSE 0
              /\ tracer'.started + Opening' <= 1 /\ ~(Opening' > 0)
              /\ client'.attempt = "due" => client'.pc \in {"first", "loop"}
              /\ ~hist'.orphaned /\ client'.pc = "over"
          BY <1>1, <3>2, <3>3, <3>4, <3>5 DEF Tracing
        <5>2. ~tracer'.active /\ Count(todo', CallsTo("request", Tracer)) > 0 => hist'.stoppedAhead
          BY <1>1, <1>3, <1>6, <2>3, <3>5 DEF Tracing
        <5> QED
          BY <3>5, <4>2, <5>1, <5>2 DEF Tracing
    <3>7. Typed'
      BY <1>1, <1>3, <3>5 DEF Typed
    <3> QED
      BY <3>6, <3>7
  <2> QED
    BY <1>2, <2>1, <2>2, <2>3 DEF ClientEvents
<1>8. Settling'
  BY <1>1, <1>3, SettlingKept
<1>9. Reporting'
  BY <1>1, <1>3, ReportingKept
<1>10. Watching' /\ Truthful'
  BY <1>1, <1>2, <1>3, WatchingKept, TruthfulKept
<1>11. Orderly'
  BY <1>1, <1>2, <1>3, NoneDelivered, OrderlyWithout
<1> QED
  BY <1>12, <1>8, <1>9, <1>10, <1>11 DEF IInv

(* An append adds one member.                                              *)
LEMMA OneMore ==
  ASSUME NEW S, NEW t \in Seq(S), NEW u \in S
  PROVE  /\ Append(t, u) \in Seq(S) /\ Len(t) \in Nat /\ Len(Append(t, u)) = Len(t) + 1
         /\ ToSet(Append(t, u)) = ToSet(t) \cup {u}
<1>1. /\ Append(t, u) \in Seq(S) /\ Len(Append(t, u)) = Len(t) + 1
      /\ \A i \in 1..Len(t) : Append(t, u)[i] = t[i]
      /\ Append(t, u)[Len(t) + 1] = u
  BY AppendProperties
<1>2. DOMAIN t = 1..Len(t) /\ DOMAIN Append(t, u) = 1..(Len(t) + 1) /\ Len(t) \in Nat
  BY <1>1
<1> DEFINE a == Append(t, u)
<1> HIDE DEF a
<1>3. \A i \in 1..(Len(t) + 1) : i \in 1..Len(t) \/ i = Len(t) + 1
  BY <1>2
<1>4. \A i \in DOMAIN a : a[i] \in ToSet(t) \cup {u}
  BY <1>1, <1>2, <1>3 DEF a, ToSet
<1>5. \A i \in DOMAIN t : t[i] \in ToSet(a)
  BY <1>1, <1>2 DEF a, ToSet
<1>6. u \in ToSet(a)
  BY <1>1, <1>2 DEF a, ToSet
<1>7. ToSet(a) \subseteq ToSet(t) \cup {u} /\ ToSet(t) \cup {u} \subseteq ToSet(a)
  BY <1>4, <1>5, <1>6 DEF ToSet
<1> QED
  BY <1>1, <1>7 DEF a

(* What an update adds to what a stream has seen.                          *)
LEMMA SeenMore ==
  ASSUME NEW S, NEW g \in Seq(S), NEW q \in Seq(S), NEW u \in S
  PROVE  /\ g \o Append(q, u) = Append(g \o q, u)
         /\ g \o q \in Seq(S) /\ Append(g \o q, u) \in Seq(S)
         /\ Len(Append(g \o q, u)) = Len(g \o q) + 1
         /\ ToSet(Append(g \o q, u)) = ToSet(g \o q) \cup {u}
<1> DEFINE one == <<u>>
<1>1. /\ one \in Seq(S) /\ Append(q, u) = q \o one /\ g \o q \in Seq(S)
      /\ Append(g \o q, u) = (g \o q) \o one
  BY AppendIsConcat, ConcatProperties
<1>2. g \o (q \o one) = (g \o q) \o one
  <2> HIDE DEF one
  <2> QED
    BY <1>1, ConcatAssociative
<1> DEFINE seen == g \o q
<1>3. seen \in Seq(S)
  BY <1>1
<1> HIDE DEF seen
<1>4. /\ Append(seen, u) \in Seq(S) /\ Len(Append(seen, u)) = Len(seen) + 1
      /\ ToSet(Append(seen, u)) = ToSet(seen) \cup {u}
  BY <1>3, OneMore
<1> QED
  BY <1>1, <1>2, <1>4 DEF seen

(* onUpdate leaves the stream where it is.                                 *)
LEMMA OnUpdateIs ==
  ASSUME NEW g \in Generators, NEW u \in States
  PROVE  LET r == OnUpdate(g, u)
         IN /\ r \in Generators
            /\ r.pc = g.pc /\ r.got = g.got /\ r.from = g.from /\ r.left = g.left
            /\ r.updates = Append(g.updates, u)
            /\ r.isDone <=> g.isDone \/ u \in Terminal
<1> DEFINE q == Append(g.updates, u)
           w == g.woken \/ g.notify
           d == g.isDone \/ u \in Terminal
           r == [g EXCEPT !.updates = q, !.woken = w, !.notify = FALSE, !.isDone = d]
<1>1. q \in Seq(States) /\ w \in BOOLEAN /\ d \in BOOLEAN
  BY DEF Generators
<1>2. OnUpdate(g, u) = r
  BY DEF OnUpdate, Generators
<1> HIDE DEF q, w, d
<1>3. /\ r \in Generators
      /\ r.pc = g.pc /\ r.got = g.got /\ r.from = g.from /\ r.left = g.left
      /\ r.updates = q /\ r.isDone = d
  BY <1>1 DEF Generators
<1> HIDE DEF r
<1> QED
  BY <1>2, <1>3 DEF q, d

(* What is left of a sequence that was in order is in order.               *)
LEMMA OrderlyTail ==
  ASSUME todo \in Seq(Jobs), todo # <<>>, Then(<<>>), Orderly, hist.reentered => hist'.reentered
  PROVE  Orderly'
<1>1. /\ todo' = Tail(todo) /\ Len(todo) \in Nat /\ Len(todo') = Len(todo) - 1
      /\ todo' \in Seq(Jobs)
      /\ \A i \in 1..(Len(todo) - 1) : todo'[i] = todo[i + 1]
  <2>1. Tail(todo) \in Seq(Jobs) /\ <<>> \o Tail(todo) = Tail(todo)
    BY HeadTailProperties, ConcatEmptySeq
  <2> QED
    BY <2>1 DEF Then
<1> SUFFICES ASSUME ~hist'.reentered, NEW j \in At(todo', UpdateCalls), NEW i \in 1..j
             PROVE  todo'[i] \in UpdateCalls
  BY DEF Orderly
<1>2. j \in 1..(Len(todo) - 1) /\ todo'[j] \in UpdateCalls
  BY <1>1 DEF At
<1>3. j + 1 \in At(todo, UpdateCalls) /\ i + 1 \in 1..(j + 1) /\ i \in 1..(Len(todo) - 1)
  BY <1>1, <1>2 DEF At
<1>4. todo[i + 1] \in UpdateCalls
  BY <1>3 DEF Orderly
<1> QED
  BY <1>1, <1>3, <1>4

(* A stream has each update from its listener's call on.                   *)
LEMMA CallStreamKeeps ==
  ASSUME IInv, CallStream
  PROVE  IInv'
<1> DEFINE s0 == Head(todo).to
           update == Head(todo).arg
<1>1. /\ Typed /\ Settling /\ Reporting /\ Tracing /\ Watching /\ Truthful /\ Orderly
      /\ todo \in Seq(Jobs) /\ todo # <<>> /\ Head(todo).what = "call" /\ s0 \in Streams
      /\ Then(<<>>) /\ UNCHANGED <<ticket, listeners, client, tracer, hist>>
      /\ stream \in [Streams -> Generators]
      /\ stream' = [stream EXCEPT ![s0] = OnUpdate(@, update)]
  BY DEF IInv, CallStream, Typed, Called, AtHand, Idle
<1>2. /\ Head(todo) \in Jobs /\ update \in States /\ Head(todo).of = "update" /\ s0 # Tracer
      /\ Tracer \notin Streams
  <2>1. Head(todo) \in Jobs
    BY <1>1, Finished
  <2> QED
    BY <1>1, <2>1, CallerFacts, JobFields, ObserversAssumption
<1>3. /\ todo' \in Seq(Jobs)
      /\ \A W : /\ Count(todo, W) \in Nat /\ Count(todo', W) \in Nat
                /\ Count(todo', W) + Tally(Head(todo), W) = Count(todo, W)
      /\ \A e : /\ Count(todo', Emits(e)) = Count(todo, Emits(e))
                /\ Count(todo', Measures(e)) = Count(todo, Measures(e))
      /\ Count(todo', Cleanups) = Count(todo, Cleanups)
      /\ \A S : Count(todo', Resolves(S)) = Count(todo, Resolves(S))
      /\ \A e, l : e # "update" \/ l # s0 => Count(todo', CallsTo(e, l)) = Count(todo, CallsTo(e, l))
      /\ \A x : x \in Args(todo', Updates) => x \in Args(todo, Updates)
  BY <1>1, <1>2, Finished
<1>4. /\ Head(todo) \in CallsTo("update", s0) /\ Head(todo) \in Updates
      /\ \A s \in Streams : s # s0 => Head(todo) \notin CallsTo("update", s)
  BY <1>1, <1>2 DEF CallsTo, Updates, UpdateCalls
<1>5. \A W, x : /\ x \in Args(todo', W) => x \in Args(todo, W)
                /\ x \in Args(todo, W) => x = update \/ x \in Args(todo', W)
                /\ Head(todo) \notin W => (x \in Args(todo', W) <=> x \in Args(todo, W))
                /\ Head(todo) \in W => update \in Args(todo, W)
  <2> DEFINE none == <<>>
  <2>1. none \in Seq(Jobs) /\ (\A W : Args(none, W) = {}) /\ Then(none)
    BY <1>1, CountNone DEF Args
  <2> HIDE DEF none
  <2>2. \A W, x : /\ x \in Args(todo', W) => x \in Args(none, W) \/ x \in Args(todo, W)
                  /\ x \in Args(todo, W) => x = Head(todo).arg \/ x \in Args(todo', W)
                  /\ Head(todo) \notin W =>
                       (x \in Args(todo', W) <=> x \in Args(none, W) \/ x \in Args(todo, W))
    BY <1>1, <2>1, Moves
  <2>3. \A W : Head(todo) \in W => update \in Args(todo, W)
    BY <1>1, ArgsTail
  <2> QED
    BY <2>1, <2>2, <2>3
<1>6. update \in Terminal => ticket.state \in Terminal
  BY <1>1, <1>4, <1>5 DEF Truthful
<1>7. /\ stream' \in [Streams -> Generators]
      /\ \A s \in Streams : s # s0 => stream'[s] = stream[s]
      /\ stream'[s0] = OnUpdate(stream[s0], update)
      /\ stream'[s0] \in Generators
  BY <1>1, <1>2, OnUpdateIs
<1>8. Typed'
  BY <1>1, <1>3, <1>7 DEF Typed
<1>9. Settling' /\ Reporting'
  BY <1>1, <1>3, SettlingKept, ReportingKept
<1>10. Tracing'
  BY <1>1, <1>2, <1>3, TracingKept
<1>11. Truthful' /\ Orderly'
  BY <1>1, <1>3, TruthfulKept, OrderlyTail
<1>12. ASSUME NEW s \in Streams, s # s0
       PROVE  Watched(s)'
  <2>1. stream'[s] = stream[s] /\ Due(s)' = Due(s) /\ Seen(s)' = Seen(s) /\ Follows(s)' = Follows(s)
    BY <1>1, <1>7, <1>12 DEF Due, Seen, Follows
  <2>2. /\ Count(todo', CallsTo("update", s)) = Count(todo, CallsTo("update", s))
        /\ Coming(s)' = Coming(s)
    <3>1. Coming(s)' \subseteq Coming(s) /\ Coming(s) \subseteq Coming(s)'
      BY <1>4, <1>5, <1>12 DEF Coming
    <3> QED
      BY <1>3, <1>12, <3>1
  <2> QED
    BY <1>1, <1>3, <2>1, <2>2 DEF Watching, Watched
<1>13. ASSUME NEW s \in Streams, s = s0
       PROVE  Watched(s)'
  <2> DEFINE g == stream[s]
             h == stream'[s]
             W == CallsTo("update", s)
  <2>1. /\ g \in Generators /\ h \in Generators
        /\ h.pc = g.pc /\ h.got = g.got /\ h.from = g.from /\ h.left = g.left
        /\ h.updates = Append(g.updates, update)
        /\ h.isDone <=> g.isDone \/ update \in Terminal
    BY <1>13, <1>1, <1>2, <1>7, OnUpdateIs
  <2>2. update \in Coming(s) /\ g.pc \in {"waiting", "yielded"}
    BY <1>13, <1>1, <1>4, <1>5 DEF Coming, Watching, Watched
  <2>3. /\ Seen(s) \in Seq(States) /\ Seen(s)' = Append(Seen(s), update)
        /\ Seen(s)' \in Seq(States)
        /\ Len(Seen(s)') = Len(Seen(s)) + 1 /\ ToSet(Seen(s)') = ToSet(Seen(s)) \cup {update}
    <3>1. g.got \in Seq(States) /\ g.updates \in Seq(States)
      BY <2>1 DEF Generators
    <3> QED
      <4>1. Seen(s) = g.got \o g.updates /\ Seen(s)' = h.got \o h.updates
        BY DEF Seen
      <4> DEFINE got == g.got
                 queue == g.updates
      <4> HIDE DEF g, h, update
      <4>2. got \in Seq(States) /\ queue \in Seq(States) /\ update \in States
        BY <1>2, <3>1
      <4> HIDE DEF got, queue
      <4>3. /\ got \o Append(queue, update) = Append(got \o queue, update)
            /\ got \o queue \in Seq(States) /\ Append(got \o queue, update) \in Seq(States)
            /\ Len(Append(got \o queue, update)) = Len(got \o queue) + 1
            /\ ToSet(Append(got \o queue, update)) = ToSet(got \o queue) \cup {update}
        BY <4>2, SeenMore
      <4> QED
        BY <2>1, <4>1, <4>3 DEF got, queue
  <2>4. Due(s)' = Due(s)
    BY <1>13, <1>1, <2>1 DEF Due
  <2>5. /\ Len(Seen(s)) + Count(todo, W) = Len(Due(s))
        /\ ToSet(Seen(s)) \cup Coming(s) = ToSet(Due(s))
        /\ ~hist.reentered => Due(s) = Append(Seen(s), update)
        /\ Count(listeners["update"], {s}) = 1
        /\ g.isDone <=> ToSet(Seen(s)) \cap Terminal # {}
        /\ g.isDone => ticket.state \in Terminal
        /\ g.from <= Len(hist.emitted)
    BY <1>13, <1>1, <2>2 DEF Watching, Watched, Follows
  <2>6. /\ Count(todo', W) + 1 = Count(todo, W) /\ Count(todo', W) \in Nat
    <3>1. Tally(Head(todo), W) = 1
      BY <1>13, <1>4 DEF Tally
    <3> QED
      BY <1>13, <1>3, <3>1
  <2>7. Len(Seen(s)') + Count(todo', W) = Len(Due(s)')
    BY <2>3, <2>4, <2>5, <2>6
  <2>8. ToSet(Seen(s)') \cup Coming(s)' = ToSet(Due(s)')
    <3>1. Coming(s)' \subseteq Coming(s) /\ Coming(s) \subseteq Coming(s)' \cup {update}
      BY <1>13, <1>5 DEF Coming
    <3> QED
      BY <2>2, <2>3, <2>4, <2>5, <3>1
  <2>9. ~hist'.reentered => Coming(s)' = {} /\ Seen(s)' = Due(s)'
    <3>1. ~hist.reentered => Len(Due(s)) = Len(Seen(s)) + 1
      BY <2>3, <2>5
    <3>2. ~hist.reentered => Count(todo', W) = 0
      BY <2>3, <2>5, <2>6, <3>1
    <3>3. Count(todo', W) = 0 => Coming(s)' = {}
      BY <1>13, <1>3, Absent DEF Coming
    <3> QED
      BY <1>13, <1>1, <2>3, <2>4, <2>5, <3>2, <3>3
  <2>10. /\ h.isDone <=> ToSet(Seen(s)') \cap Terminal # {}
         /\ h.isDone => ticket'.state \in Terminal
    BY <1>13, <1>1, <1>6, <2>1, <2>3, <2>5
  <2> HIDE DEF g, h, W
  <2> QED
    BY <1>1, <2>1, <2>2, <2>5, <2>7, <2>8, <2>9, <2>10 DEF Watched, Follows, g, h, W
<1>14. Watching'
  BY <1>12, <1>13 DEF Watching
<1> QED
  BY <1>8, <1>9, <1>10, <1>11, <1>14 DEF IInv

(* Of a kind that does not occur no narrower kind does.                    *)
LEMMA CountWithin ==
  ASSUME NEW S, NEW t \in Seq(S), NEW V, Count(t, V) = 0, NEW W, W \subseteq V
  PROVE  Count(t, W) = 0
<1>1. At(t, V) = {}
  BY Absent
<1>2. At(t, W) = {}
  BY <1>1 DEF At
<1> QED
  BY <1>2, CountType

(* A transition is announced, and an ending is resolved with.              *)
LEMMA Announcement ==
  ASSUME NEW state \in States
  PROVE  LET more == Announce(state)
         IN /\ more \in Seq(Jobs)
            /\ \A e : Count(more, Emits(e)) =
                        IF \/ e = "update"
                           \/ e = "done" /\ state \in Terminal
                           \/ e = "error" /\ state \in Terminal \ {Done}
                        THEN 1 ELSE 0
            /\ \A S : Count(more, Resolves(S)) = IF state \in Terminal /\ state \in S THEN 1 ELSE 0
            /\ \A e : Count(more, Measures(e)) = 0
            /\ Count(more, Cleanups) = 0 /\ Count(more, UpdateCalls) = 0
            /\ \A e, l : Count(more, CallsTo(e, l)) = 0
            /\ \A W, x : x \in Args(more, W) => x = state
<1> DEFINE j1 == Emit("update", state)
           j2 == Emit("done", state)
           j3 == Emit("error", state)
           j4 == Work("resolve", "ticket", state)
           p1 == <<j1>>
           p2 == IF state \in Terminal THEN <<j2>> ELSE <<>>
           p3 == IF state \in Terminal \ {Done} THEN <<j3>> ELSE <<>>
           p4 == IF state \in Terminal THEN <<j4>> ELSE <<>>
           q2 == p1 \o p2
           q3 == q2 \o p3
           more == q3 \o p4
<1>1. /\ j1 \in Jobs /\ j1.what = "emit" /\ j1.of = "update" /\ j1.arg = state
      /\ j2 \in Jobs /\ j2.what = "emit" /\ j2.of = "done" /\ j2.arg = state
      /\ j3 \in Jobs /\ j3.what = "emit" /\ j3.of = "error" /\ j3.arg = state
  BY Constructors DEF Events, TicketEvents
<1>2. state \in Terminal => j4 \in Jobs /\ j4.what = "resolve" /\ j4.arg = state
  BY Constructors
<1> HIDE DEF j1, j2, j3, j4
<1>3. /\ p1 \in Seq(Jobs) /\ p2 \in Seq(Jobs) /\ p3 \in Seq(Jobs) /\ p4 \in Seq(Jobs)
  BY <1>1, <1>2
<1>4. \A W : /\ Count(p1, W) = Tally(j1, W)
             /\ Count(p2, W) = IF state \in Terminal THEN Tally(j2, W) ELSE 0
             /\ Count(p3, W) = IF state \in Terminal \ {Done} THEN Tally(j3, W) ELSE 0
             /\ Count(p4, W) = IF state \in Terminal THEN Tally(j4, W) ELSE 0
  BY CountOne, CountNone DEF Tally
<1>5. \A W, x : /\ x \in Args(p1, W) => x = state
                /\ x \in Args(p2, W) => x = state
                /\ x \in Args(p3, W) => x = state
                /\ x \in Args(p4, W) => x = state
  <2>1. \A W : /\ At(p1, W) \subseteq {1} /\ At(p2, W) \subseteq {1}
               /\ At(p3, W) \subseteq {1} /\ At(p4, W) \subseteq {1}
               /\ At(p4, W) # {} => state \in Terminal /\ p4[1] = j4
               /\ At(p2, W) # {} => p2[1] = j2
               /\ At(p3, W) # {} => p3[1] = j3
               /\ p1[1] = j1
    BY CountOne, CountNone
  <2> HIDE DEF p1, p2, p3, p4
  <2>2. \A W, x : x \in Args(p1, W) => x = state
    BY <1>1, <2>1 DEF Args
  <2>3. \A W, x : x \in Args(p2, W) => x = state
    BY <1>1, <2>1 DEF Args
  <2>4. \A W, x : x \in Args(p3, W) => x = state
    BY <1>1, <2>1 DEF Args
  <2>5. \A W, x : x \in Args(p4, W) => x = state
    BY <1>2, <2>1 DEF Args
  <2> QED
    BY <2>2, <2>3, <2>4, <2>5
<1>6. Announce(state) = more
  BY DEF Announce, j1, j2, j3, j4
<1> HIDE DEF p1, p2, p3, p4
<1>7. q2 \in Seq(Jobs) /\ q3 \in Seq(Jobs) /\ more \in Seq(Jobs)
  BY <1>3, ConcatProperties
<1>8. \A W : /\ Count(more, W) = Count(p1, W) + Count(p2, W) + Count(p3, W) + Count(p4, W)
  <2> SUFFICES ASSUME NEW W
               PROVE  Count(more, W) = Count(p1, W) + Count(p2, W) + Count(p3, W) + Count(p4, W)
    OBVIOUS
  <2>1. Count(q2, W) = Count(p1, W) + Count(p2, W)
    BY <1>3, CountConcat
  <2>2. Count(q3, W) = Count(q2, W) + Count(p3, W)
    BY <1>3, <1>7, CountConcat
  <2>3. Count(more, W) = Count(q3, W) + Count(p4, W)
    BY <1>3, <1>7, CountConcat
  <2> QED
    BY <2>1, <2>2, <2>3
<1>9. \A W, x : x \in Args(more, W) => x = state
  <2> SUFFICES ASSUME NEW W, NEW x
               PROVE  x \in Args(more, W) => x = state
    OBVIOUS
  <2>1. x \in Args(q2, W) <=> x \in Args(p1, W) \/ x \in Args(p2, W)
    BY <1>3, ArgsConcat
  <2> HIDE DEF q2
  <2>2. x \in Args(q3, W) <=> x \in Args(q2, W) \/ x \in Args(p3, W)
    BY <1>3, <1>7, ArgsConcat
  <2> HIDE DEF q3
  <2>3. x \in Args(more, W) <=> x \in Args(q3, W) \/ x \in Args(p4, W)
    BY <1>3, <1>7, ArgsConcat
  <2> QED
    BY <1>5, <2>1, <2>2, <2>3
<1> HIDE DEF more
<1>10. \A W : Count(more, W) = Tally(j1, W) + (IF state \in Terminal THEN Tally(j2, W) ELSE 0)
                 + (IF state \in Terminal \ {Done} THEN Tally(j3, W) ELSE 0)
                 + (IF state \in Terminal THEN Tally(j4, W) ELSE 0)
  BY <1>4, <1>8
<1>11. ASSUME NEW e
       PROVE  /\ Count(more, Emits(e)) = IF \/ e = "update"
                                            \/ e = "done" /\ state \in Terminal
                                            \/ e = "error" /\ state \in Terminal \ {Done}
                                         THEN 1 ELSE 0
              /\ Count(more, Measures(e)) = 0
              /\ \A l : Count(more, CallsTo(e, l)) = 0
  <2>1. /\ Tally(j1, Emits(e)) = IF e = "update" THEN 1 ELSE 0
        /\ Tally(j2, Emits(e)) = IF e = "done" THEN 1 ELSE 0
        /\ Tally(j3, Emits(e)) = IF e = "error" THEN 1 ELSE 0
        /\ state \in Terminal => Tally(j4, Emits(e)) = 0
    BY <1>1, <1>2, Sorts
  <2>2. /\ Tally(j1, Measures(e)) = 0 /\ Tally(j2, Measures(e)) = 0 /\ Tally(j3, Measures(e)) = 0
        /\ state \in Terminal => Tally(j4, Measures(e)) = 0
    BY <1>1, <1>2, Sorts
  <2>3. \A l : /\ Tally(j1, CallsTo(e, l)) = 0 /\ Tally(j2, CallsTo(e, l)) = 0
               /\ Tally(j3, CallsTo(e, l)) = 0
               /\ state \in Terminal => Tally(j4, CallsTo(e, l)) = 0
    BY <1>1, <1>2, Sorts
  <2> QED
    BY <1>10, <2>1, <2>2, <2>3
<1>12. ASSUME NEW S
       PROVE  Count(more, Resolves(S)) = IF state \in Terminal /\ state \in S THEN 1 ELSE 0
  <2>1. /\ Tally(j1, Resolves(S)) = 0 /\ Tally(j2, Resolves(S)) = 0 /\ Tally(j3, Resolves(S)) = 0
        /\ state \in Terminal => Tally(j4, Resolves(S)) = IF state \in S THEN 1 ELSE 0
    BY <1>1, <1>2, Sorts
  <2> QED
    BY <1>10, <2>1
<1>13. Count(more, Cleanups) = 0 /\ Count(more, UpdateCalls) = 0
  <2>1. /\ Tally(j1, Cleanups) = 0 /\ Tally(j2, Cleanups) = 0 /\ Tally(j3, Cleanups) = 0
        /\ state \in Terminal => Tally(j4, Cleanups) = 0
        /\ Tally(j1, UpdateCalls) = 0 /\ Tally(j2, UpdateCalls) = 0 /\ Tally(j3, UpdateCalls) = 0
        /\ state \in Terminal => Tally(j4, UpdateCalls) = 0
    BY <1>1, <1>2, Sorts
  <2> QED
    BY <1>10, <2>1
<1> QED
  BY <1>6, <1>7, <1>9, <1>11, <1>12, <1>13

(* A transition is announced once, since nothing leads out of an ending.   *)
LEMMA RunMarkKeeps ==
  ASSUME IInv, RunMark
  PROVE  IInv'
<1> DEFINE state == Head(todo).arg
<1>1. /\ Typed /\ Settling /\ Reporting /\ Tracing /\ Watching /\ Truthful /\ Orderly
      /\ todo \in Seq(Jobs) /\ todo # <<>> /\ Head(todo).what = "mark"
      /\ UNCHANGED <<listeners, stream, client, tracer, hist>>
      /\ \/ UNCHANGED ticket /\ Then(<<>>)
         \/ /\ ticket.state \notin Terminal /\ ticket' = [ticket EXCEPT !.state = state]
            /\ Then(Announce(state))
  BY DEF IInv, RunMark, Typed, AtHand, Idle, Allowed
<1>2. CASE UNCHANGED ticket /\ Then(<<>>)
  <2>1. /\ todo' \in Seq(Jobs)
        /\ \A W : Count(todo, W) \in Nat /\ Count(todo', W) \in Nat
        /\ \A e : /\ Count(todo', Emits(e)) = Count(todo, Emits(e))
                  /\ Count(todo', Measures(e)) = Count(todo, Measures(e))
        /\ Count(todo', Cleanups) = Count(todo, Cleanups)
        /\ \A S : Count(todo', Resolves(S)) = Count(todo, Resolves(S))
        /\ \A e, l : Count(todo', CallsTo(e, l)) = Count(todo, CallsTo(e, l))
        /\ \A l : Args(todo', CallsTo("update", l)) = Args(todo, CallsTo("update", l))
        /\ \A x : x \in Args(todo', Updates) => x \in Args(todo, Updates)
    BY <1>1, <1>2, Finished
  <2>2. Typed'
    BY <1>1, <1>2, <2>1 DEF Typed
  <2>3. Settling' /\ Reporting'
    BY <1>1, <1>2, <2>1, SettlingKept, ReportingKept
  <2>4. Tracing'
    BY <1>1, <1>2, <2>1, TracingKept
  <2>5. Watching' /\ Truthful'
    BY <1>1, <1>2, <2>1, WatchingKept, TruthfulKept
  <2>6. Orderly'
    BY <1>1, <1>2, OrderlyTail
  <2> QED
    BY <2>2, <2>3, <2>4, <2>5, <2>6 DEF IInv
<1>3. CASE /\ ticket.state \notin Terminal /\ ticket' = [ticket EXCEPT !.state = state]
           /\ Then(Announce(state))
  <2> DEFINE more == Announce(state)
  <2>1. Head(todo) \in Jobs /\ state \in States
    <3>1. Head(todo) \in Jobs
      BY <1>1, HeadTailProperties
    <3> QED
      BY <3>1, JobFields
  <2>2. /\ more \in Seq(Jobs)
        /\ \A e : Count(more, Emits(e)) =
                    IF \/ e = "update"
                       \/ e = "done" /\ state \in Terminal
                       \/ e = "error" /\ state \in Terminal \ {Done}
                    THEN 1 ELSE 0
        /\ \A S : Count(more, Resolves(S)) = IF state \in Terminal /\ state \in S THEN 1 ELSE 0
        /\ \A e : Count(more, Measures(e)) = 0
        /\ Count(more, Cleanups) = 0 /\ Count(more, UpdateCalls) = 0
        /\ \A e, l : Count(more, CallsTo(e, l)) = 0
        /\ \A W, x : x \in Args(more, W) => x = state
    BY <2>1, Announcement
  <2>3. Then(more)
    BY <1>3
  <2> HIDE DEF more, state
  <2>4. /\ todo' \in Seq(Jobs)
        /\ \A W : Count(todo, W) \in Nat /\ Count(todo', W) \in Nat
        /\ \A e : Count(todo', Emits(e)) = Count(more, Emits(e)) + Count(todo, Emits(e))
        /\ \A e : Count(todo', Measures(e)) = Count(todo, Measures(e))
        /\ Count(todo', Cleanups) = Count(todo, Cleanups)
        /\ \A S : Count(todo', Resolves(S)) = Count(more, Resolves(S)) + Count(todo, Resolves(S))
        /\ \A e, l : Count(todo', CallsTo(e, l)) = Count(todo, CallsTo(e, l))
        /\ Count(todo', UpdateCalls) = Count(todo, UpdateCalls)
    <3>1. /\ todo' \in Seq(Jobs)
          /\ \A W : Count(todo, W) \in Nat /\ Count(todo', W) \in Nat
      BY <1>1, <2>2, <2>3, Books
    <3>2. ASSUME NEW e
          PROVE  /\ Count(todo', Emits(e)) = Count(more, Emits(e)) + Count(todo, Emits(e))
                 /\ Count(todo', Measures(e)) = Count(todo, Measures(e))
      <4>1. /\ Count(todo', Emits(e)) + 0 = Count(more, Emits(e)) + Count(todo, Emits(e))
            /\ Count(todo', Measures(e)) + 0 = Count(more, Measures(e)) + Count(todo, Measures(e))
        BY <1>1, <2>2, <2>3, Books
      <4> QED
        BY <2>2, <3>1, <4>1
    <3>3. /\ Count(todo', Cleanups) = Count(todo, Cleanups)
          /\ Count(todo', UpdateCalls) = Count(todo, UpdateCalls)
      <4>1. /\ Count(todo', Cleanups) + 0 = Count(more, Cleanups) + Count(todo, Cleanups)
            /\ Count(todo', UpdateCalls) + 0 = Count(more, UpdateCalls) + Count(todo, UpdateCalls)
        BY <1>1, <2>2, <2>3, Books
      <4> QED
        BY <2>2, <3>1, <4>1
    <3>4. ASSUME NEW S
          PROVE  Count(todo', Resolves(S)) = Count(more, Resolves(S)) + Count(todo, Resolves(S))
      <4>1. Count(todo', Resolves(S)) + 0 = Count(more, Resolves(S)) + Count(todo, Resolves(S))
        BY <1>1, <2>2, <2>3, Books
      <4> QED
        BY <2>2, <3>1, <4>1
    <3>5. ASSUME NEW e, NEW l
          PROVE  Count(todo', CallsTo(e, l)) = Count(todo, CallsTo(e, l))
      <4>1. Count(todo', CallsTo(e, l)) + 0 = Count(more, CallsTo(e, l)) + Count(todo, CallsTo(e, l))
        BY <1>1, <2>2, <2>3, Books
      <4> QED
        BY <2>2, <3>1, <4>1
    <3> QED
      BY <3>1, <3>2, <3>3, <3>4, <3>5
  <2>5. /\ \A l : Args(todo', CallsTo("update", l)) = Args(todo, CallsTo("update", l))
        /\ \A x : x \in Args(todo', Updates) => x = state \/ x \in Args(todo, Updates)
    <3>1. ASSUME NEW l
          PROVE  Args(todo', CallsTo("update", l)) = Args(todo, CallsTo("update", l))
      <4>1. Args(more, CallsTo("update", l)) = {}
        BY <2>2, Absent
      <4>2. Head(todo) \notin CallsTo("update", l)
        BY <1>1 DEF CallsTo
      <4>3. \A x : x \in Args(todo', CallsTo("update", l))
                     <=> x \in Args(more, CallsTo("update", l)) \/ x \in Args(todo, CallsTo("update", l))
        BY <1>1, <2>2, <2>3, <4>2, Moves
      <4>4. /\ Args(todo', CallsTo("update", l)) \subseteq Args(todo, CallsTo("update", l))
            /\ Args(todo, CallsTo("update", l)) \subseteq Args(todo', CallsTo("update", l))
        BY <4>1, <4>3
      <4> QED
        BY <4>4
    <3>2. \A x : x \in Args(todo', Updates) => x \in Args(more, Updates) \/ x \in Args(todo, Updates)
      BY <1>1, <2>2, <2>3, Moves
    <3> QED
      BY <2>2, <3>1, <3>2
  <2>6. /\ ticket' \in [state : States, promise : Terminal \cup {Pending}]
        /\ ticket'.state = state /\ ticket'.promise = Pending /\ ticket.promise = Pending
    BY <1>1, <1>3, <2>1 DEF Typed, Settling
  <2>7. Typed'
    BY <1>1, <2>4, <2>6 DEF Typed
  <2>8. Settling'
    <3>1. /\ hist.dones \in Nat /\ hist.dones + Count(todo, Emits("done")) = 0
          /\ Count(todo, Resolves(Terminal \ {ticket.state})) = 0
      BY <1>1, <1>3 DEF Settling, Typed, Histories
    <3>2. hist.dones + Count(todo', Emits("done")) = IF state \in Terminal THEN 1 ELSE 0
      BY <2>2, <2>4, <3>1
    <3> DEFINE others == Terminal \ {state}
    <3>3. Count(todo, Resolves(others)) = 0
      <4>1. Resolves(others) \subseteq Resolves(Terminal \ {ticket.state})
        BY <1>3 DEF Resolves
      <4> QED
        BY <1>1, <3>1, <4>1, CountWithin
    <3>4. Count(more, Resolves(others)) = 0
      BY <2>2
    <3> HIDE DEF others
    <3>5. Count(todo', Resolves(others)) = 0
      BY <2>4, <3>3, <3>4
    <3>6. state \in Terminal => Count(todo', Resolves({state})) > 0
      <4>1. state \in Terminal => Count(more, Resolves({state})) = 1
        BY <2>2
      <4>2. /\ Count(todo', Resolves({state}))
                 = Count(more, Resolves({state})) + Count(todo, Resolves({state}))
            /\ Count(todo, Resolves({state})) \in Nat
        BY <2>4
      <4> QED
        BY <4>1, <4>2
    <3> QED
      BY <1>1, <2>6, <3>2, <3>5, <3>6 DEF Settling, others
  <2>9. \A e \in ClientEvents : Count(todo', Emits(e)) = Count(todo, Emits(e))
    <3>1. \A e \in ClientEvents : Count(more, Emits(e)) = 0
      BY <2>2 DEF ClientEvents
    <3> QED
      BY <2>4, <3>1
  <2>10. Reporting' /\ Tracing'
    <3>1. "request" \in ClientEvents
      BY DEF ClientEvents
    <3> QED
      BY <1>1, <2>4, <2>9, <3>1, ReportingKept, TracingKept
  <2>11. Watching'
    BY <1>1, <1>3, <2>4, <2>5, WatchingKept
  <2>12. Truthful'
    BY <1>1, <1>3, <2>5, <2>6 DEF Truthful
  <2>13. Orderly'
    <3>1. ~hist.reentered => Count(todo, UpdateCalls) = 0
      BY <1>1, NoneDelivered
    <3> QED
      BY <1>1, <2>4, <3>1, OrderlyWithout
  <2> QED
    BY <2>7, <2>8, <2>10, <2>11, <2>12, <2>13 DEF IInv
<1> QED
  BY <1>1, <1>2, <1>3

(* What is due of a sequence that grows.                                   *)
LEMMA DueMore ==
  ASSUME NEW S, NEW t \in Seq(S), NEW a \in S, NEW k \in Nat, k <= Len(t)
  PROVE  Since(t, k) \in Seq(S) /\ Since(Append(t, a), k) = Append(Since(t, k), a)
<1> DEFINE n == Len(t)
           b == Append(t, a)
           due == SubSeq(t, k + 1, n)
           more == SubSeq(b, k + 1, n + 1)
<1>1. /\ n \in Nat /\ b \in Seq(S) /\ Len(b) = n + 1 /\ b[n + 1] = a
      /\ \A i \in 1..n : b[i] = t[i] /\ b[i] \in S /\ t[i] \in S
  BY AppendProperties
<1>2. /\ due \in Seq(S) /\ Len(due) = n - k
      /\ \A i \in 1..(n - k) : due[i] = t[k + i]
  <2>1. \A i \in (k + 1)..n : t[i] \in S
    BY <1>1
  <2>2. /\ SubSeq(t, k + 1, n) \in Seq(S)
        /\ Len(SubSeq(t, k + 1, n)) = IF k + 1 <= n THEN n - (k + 1) + 1 ELSE 0
        /\ \A i \in 1..(n - (k + 1) + 1) : SubSeq(t, k + 1, n)[i] = t[(k + 1) + i - 1]
    <3> HIDE DEF n
    <3> QED
      BY <1>1, <2>1, SubSeqProperties
  <2>3. k <= n
    OBVIOUS
  <2> HIDE DEF n
  <2> QED
    BY <1>1, <2>2, <2>3
<1>3. /\ more \in Seq(S) /\ Len(more) = n + 1 - k
      /\ \A i \in 1..(n + 1 - k) : more[i] = b[k + i]
  <2>1. \A i \in (k + 1)..(n + 1) : b[i] \in S
    BY <1>1
  <2>2. /\ SubSeq(b, k + 1, n + 1) \in Seq(S)
        /\ Len(SubSeq(b, k + 1, n + 1)) = IF k + 1 <= n + 1 THEN (n + 1) - (k + 1) + 1 ELSE 0
        /\ \A i \in 1..((n + 1) - (k + 1) + 1) : SubSeq(b, k + 1, n + 1)[i] = b[(k + 1) + i - 1]
    <3> HIDE DEF n, b
    <3> QED
      BY <1>1, <2>1, SubSeqProperties
  <2>3. k <= n
    OBVIOUS
  <2> HIDE DEF n, b
  <2> QED
    BY <1>1, <2>2, <2>3
<1>4. k <= n
  OBVIOUS
<1> HIDE DEF n, b, due, more
<1>5. /\ Append(due, a) \in Seq(S) /\ Len(Append(due, a)) = n - k + 1
      /\ \A i \in 1..(n - k) : Append(due, a)[i] = due[i]
      /\ Append(due, a)[n - k + 1] = a
  BY <1>2, AppendProperties
<1>6. \A i \in 1..(n + 1 - k) : more[i] = Append(due, a)[i]
  <2> SUFFICES ASSUME NEW i \in 1..(n + 1 - k)
               PROVE  more[i] = Append(due, a)[i]
    OBVIOUS
  <2>1. CASE i \in 1..(n - k)
    <3>1. k + i \in 1..n /\ i \in 1..(n + 1 - k)
      BY <1>1, <1>4, <2>1
    <3> QED
      BY <1>1, <1>2, <1>3, <1>5, <2>1, <3>1
  <2>2. CASE i = n + 1 - k
    <3>1. k + i = n + 1 /\ i = n - k + 1
      BY <1>1, <1>4, <2>2
    <3> QED
      BY <1>1, <1>3, <1>5, <3>1
  <2>3. i \in 1..(n - k) \/ i = n + 1 - k
    <3>1. n \in Nat /\ k \in Nat /\ k <= n /\ i \in 1..(n + 1 - k)
      BY <1>1, <1>4
    <3> QED
      BY <3>1
  <2> QED
    BY <2>1, <2>2, <2>3
<1>7. more = Append(due, a)
  BY <1>1, <1>3, <1>4, <1>5, <1>6, SeqEqual
<1> QED
  BY <1>1, <1>2, <1>7 DEF n, b, due, more, Since

\* What an event leads to: its listeners' calls, and the client's measures.
Emitted(e, a) == CallsOf(e, a) \o IF e \in ClientEvents THEN <<Measure(e)>> ELSE <<>>

(* What that counts.                                                       *)
LEMMA Emission ==
  ASSUME NEW e0 \in Events, NEW a \in States,
         listeners[e0] \in Seq(Listening(e0)), listeners[e0] \in Seq(Callees)
  PROVE  LET more == Emitted(e0, a) IN
         /\ more \in Seq(Jobs)
         /\ \A e : Count(more, Emits(e)) = 0
         /\ \A e : Count(more, Measures(e)) = IF e = e0 /\ e0 \in ClientEvents THEN 1 ELSE 0
         /\ Count(more, Cleanups) = 0
         /\ \A S : Count(more, Resolves(S)) = 0
         /\ \A e, l : Count(more, CallsTo(e, l)) = IF e = e0 THEN Count(listeners[e0], {l}) ELSE 0
         /\ e0 # "update" => Count(more, UpdateCalls) = 0 /\ Count(more, Updates) = 0
         /\ \A x : x \in Args(more, Updates) => x = a
         /\ \A l, x : x \in Args(more, CallsTo("update", l)) => x = a
<1> DEFINE more == Emitted(e0, a)
           calls == CallsOf(e0, a)
           last == IF e0 \in ClientEvents THEN <<Measure(e0)>> ELSE <<>>
<1>1. /\ calls \in Seq(Jobs)
      /\ \A l : Count(calls, CallsTo(e0, l)) = Count(listeners[e0], {l})
      /\ \A W, x : x \in Args(calls, W) => x = a
      /\ \A W : (\A w \in W : w.what = "call" => w.of # e0) => Count(calls, W) = 0
  <2>1. /\ calls \in Seq(Jobs)
        /\ \A l : Count(calls, CallsTo(e0, l)) = Count(listeners[e0], {l})
        /\ \A W : Args(calls, W) \subseteq {a}
        /\ \A W : (\A w \in W : w.what = "call" => w.of # e0) => Count(calls, W) = 0
    BY Calling
  <2> HIDE DEF calls
  <2> QED
    BY <2>1
<1>2. e0 \in ClientEvents => /\ Measure(e0) \in Jobs /\ Measure(e0).what = "measure"
                             /\ Measure(e0).of = e0
  BY Constructors
<1>3. /\ last \in Seq(Jobs)
      /\ \A W : Count(last, W) = IF e0 \in ClientEvents THEN Tally(Measure(e0), W) ELSE 0
  BY <1>2, CountOne, CountNone DEF Tally
<1>4. more = calls \o last
  BY DEF Emitted
<1> HIDE DEF last, calls, more
<1>5. /\ more \in Seq(Jobs)
      /\ \A W : Count(more, W) = Count(calls, W) + Count(last, W)
      /\ \A W, x : x \in Args(more, W) <=> x \in Args(calls, W) \/ x \in Args(last, W)
      /\ \A W : Count(calls, W) \in Nat /\ Count(last, W) \in Nat
  <2>1. more \in Seq(Jobs)
    BY <1>1, <1>3, <1>4, ConcatProperties
  <2>2. \A W : Count(more, W) = Count(calls, W) + Count(last, W)
    <3>1. calls \in Seq(Jobs) /\ last \in Seq(Jobs)
      BY <1>1, <1>3
    <3>2. \A W : Count(calls \o last, W) = Count(calls, W) + Count(last, W)
      BY <3>1, CountConcat
    <3> QED
      BY <1>4, <3>2
  <2>3. \A W, x : x \in Args(more, W) <=> x \in Args(calls, W) \/ x \in Args(last, W)
    BY <1>1, <1>3, <1>4, ArgsConcat
  <2>4. \A W : Count(calls, W) \in Nat /\ Count(last, W) \in Nat
    BY <1>1, <1>3, CountType
  <2> QED
    BY <2>1, <2>2, <2>3, <2>4
<1>6. ASSUME NEW e
      PROVE  Count(more, Emits(e)) = 0
  <2>1. Count(calls, Emits(e)) = 0
    BY <1>1 DEF Emits
  <2>2. Count(last, Emits(e)) = 0
    BY <1>2, <1>3, Sorts
  <2>3. Count(more, Emits(e)) = Count(calls, Emits(e)) + Count(last, Emits(e))
    BY <1>5
  <2> QED
    BY <2>1, <2>2, <2>3
<1>7. ASSUME NEW e
      PROVE  Count(more, Measures(e)) = IF e = e0 /\ e0 \in ClientEvents THEN 1 ELSE 0
  <2>1. Count(calls, Measures(e)) = 0
    BY <1>1 DEF Measures
  <2>2. Count(last, Measures(e)) = IF e = e0 /\ e0 \in ClientEvents THEN 1 ELSE 0
    BY <1>2, <1>3, Sorts
  <2>3. Count(more, Measures(e)) = Count(calls, Measures(e)) + Count(last, Measures(e))
    BY <1>5
  <2> QED
    BY <2>1, <2>2, <2>3
<1>8. Count(more, Cleanups) = 0
  <2>1. Count(calls, Cleanups) = 0
    BY <1>1 DEF Cleanups
  <2>2. Count(last, Cleanups) = 0
    BY <1>2, <1>3, Sorts
  <2>3. Count(more, Cleanups) = Count(calls, Cleanups) + Count(last, Cleanups)
    BY <1>5
  <2> QED
    BY <2>1, <2>2, <2>3
<1>9. ASSUME NEW S
      PROVE  Count(more, Resolves(S)) = 0
  <2>1. Count(calls, Resolves(S)) = 0
    BY <1>1 DEF Resolves
  <2>2. Count(last, Resolves(S)) = 0
    BY <1>2, <1>3, Sorts
  <2>3. Count(more, Resolves(S)) = Count(calls, Resolves(S)) + Count(last, Resolves(S))
    BY <1>5
  <2> QED
    BY <2>1, <2>2, <2>3
<1>10. ASSUME NEW e, NEW l
      PROVE  Count(more, CallsTo(e, l)) = IF e = e0 THEN Count(listeners[e0], {l}) ELSE 0
  <2>1. e # e0 => Count(calls, CallsTo(e, l)) = 0
    BY <1>1 DEF CallsTo
  <2>2. Count(last, CallsTo(e, l)) = 0
    BY <1>2, <1>3, Sorts
  <2>3. Count(more, CallsTo(e, l)) = Count(calls, CallsTo(e, l)) + Count(last, CallsTo(e, l))
    BY <1>5
  <2> QED
    BY <1>1, <1>5, <2>1, <2>2, <2>3
<1>11. Count(last, UpdateCalls) = 0 /\ Count(last, Updates) = 0
       /\ \A l : Count(last, CallsTo("update", l)) = 0
  BY <1>2, <1>3, Sorts
<1>12. e0 # "update" => Count(more, UpdateCalls) = 0 /\ Count(more, Updates) = 0
  <2>1. e0 # "update" => Count(calls, UpdateCalls) = 0 /\ Count(calls, Updates) = 0
    BY <1>1 DEF UpdateCalls, Updates, Emits
  <2>2. /\ Count(more, UpdateCalls) = Count(calls, UpdateCalls) + Count(last, UpdateCalls)
        /\ Count(more, Updates) = Count(calls, Updates) + Count(last, Updates)
    BY <1>5
  <2> QED
    BY <1>11, <2>1, <2>2
<1>13. /\ \A x : x \in Args(more, Updates) => x = a
       /\ \A l, x : x \in Args(more, CallsTo("update", l)) => x = a
  <2>1. Args(last, Updates) = {} /\ \A l : Args(last, CallsTo("update", l)) = {}
    BY <1>3, <1>11, Absent
  <2> QED
    BY <1>1, <1>5, <2>1
<1> QED
  BY <1>5, <1>6, <1>7, <1>8, <1>9, <1>10, <1>12, <1>13 DEF more

(* The updates on their way to a stream when an update is announced.       *)
LEMMA EmitWatched ==
  ASSUME Typed, Watching, Orderly, NEW a \in States, NEW more \in Seq(Jobs), todo # <<>>, Then(more),
         Head(todo).what = "emit", Head(todo).of = "update", Head(todo).arg = a,
         UNCHANGED <<ticket, listeners, stream>>,
         hist'.emitted = Append(hist.emitted, a), hist'.reentered = hist.reentered,
         NEW s \in Streams,
         Count(more, CallsTo("update", s)) = Count(listeners["update"], {s}),
         \A x : x \in Args(more, CallsTo("update", s)) => x = a
  PROVE  Watched(s)'
<1> DEFINE W == CallsTo("update", s)
<1>1. /\ todo \in Seq(Jobs) /\ hist.emitted \in Seq(States) /\ Watched(s)
      /\ stream[s] \in Generators
  BY DEF Typed, Watching, Histories
<1>2. /\ Head(todo) \in Jobs
      /\ Count(todo, W) \in Nat /\ Count(more, W) \in Nat /\ Count(todo', W) \in Nat
      /\ Head(todo) \notin W
      /\ \A x : x \in Args(todo', W) <=> x \in Args(more, W) \/ x \in Args(todo, W)
      /\ Count(todo', W) = Count(more, W) + Count(todo, W)
  <2>1. Head(todo) \in Jobs /\ Head(todo) \notin W
    BY <1>1, HeadTailProperties DEF CallsTo
  <2>2. Tally(Head(todo), W) = 0
    BY <2>1 DEF Tally
  <2>3. /\ Count(todo, W) \in Nat /\ Count(more, W) \in Nat /\ Count(todo', W) \in Nat
        /\ Count(todo', W) + Tally(Head(todo), W) = Count(more, W) + Count(todo, W)
        /\ \A x : x \in Args(todo', W) <=> x \in Args(more, W) \/ x \in Args(todo, W)
    BY <1>1, <2>1, Moves
  <2> QED
    BY <2>1, <2>2, <2>3
<1>3. Count(todo, Emits("update")) > 0
  <2>1. /\ Count(todo, Emits("update")) \in Nat
        /\ Tally(Head(todo), Emits("update")) <= Count(todo, Emits("update"))
    BY <1>1, Moves
  <2>2. Tally(Head(todo), Emits("update")) = 1
    BY <1>2, Sorts
  <2> QED
    BY <2>1, <2>2
<1>4. /\ Due(s) \in Seq(States)
      /\ stream[s].from <= Len(hist.emitted) => Due(s)' = Append(Due(s), a)
      /\ stream[s].from <= Len(hist'.emitted)
  <2>1. stream[s].from \in Nat
    BY <1>1 DEF Generators
  <2>2. stream[s].from <= Len(hist.emitted)
    BY <1>1 DEF Watched
  <2>3. /\ Since(hist.emitted, stream[s].from) \in Seq(States)
        /\ Since(Append(hist.emitted, a), stream[s].from) = Append(Since(hist.emitted, stream[s].from), a)
    <3> DEFINE k == stream[s].from
               t == hist.emitted
    <3>1. k \in Nat /\ t \in Seq(States) /\ k <= Len(t)
      BY <1>1, <2>1, <2>2
    <3> HIDE DEF k, t
    <3>2. Since(t, k) \in Seq(States) /\ Since(Append(t, a), k) = Append(Since(t, k), a)
      BY <3>1, DueMore
    <3> QED
      BY <3>2 DEF k, t
  <2>4. Len(Append(hist.emitted, a)) = Len(hist.emitted) + 1 /\ Len(hist.emitted) \in Nat
    BY <1>1, OneMore
  <2>5. stream[s].from <= Len(hist.emitted) + 1
    BY <2>1, <2>2, <2>4
  <2> QED
    BY <2>3, <2>4, <2>5 DEF Due
<1>5. /\ Seen(s)' = Seen(s) /\ Follows(s)' = Follows(s)
  BY DEF Seen, Follows
<1>6. /\ Len(Append(Due(s), a)) = Len(Due(s)) + 1
      /\ ToSet(Append(Due(s), a)) = ToSet(Due(s)) \cup {a} /\ Len(Due(s)) \in Nat
  <2> DEFINE due == Due(s)
  <2>1. due \in Seq(States)
    BY <1>4
  <2> HIDE DEF due
  <2>2. /\ Len(Append(due, a)) = Len(due) + 1 /\ Len(due) \in Nat
        /\ ToSet(Append(due, a)) = ToSet(due) \cup {a}
    BY <2>1, OneMore
  <2> QED
    BY <2>2 DEF due
<1>7. CASE stream[s].pc \in {"waiting", "yielded"}
  <2>1. Count(listeners["update"], {s}) = 1 /\ Follows(s)
    BY <1>1, <1>7 DEF Watched, Follows
  <2>2. Args(more, W) = {a}
    <3>1. Args(more, W) # {}
      <4>1. At(more, W) # {}
        BY <1>2, <2>1, CountType
      <4> QED
        BY <4>1 DEF Args
    <3> QED
      BY <3>1
  <2>3. Coming(s)' = Coming(s) \cup {a}
    <3>1. Coming(s)' \subseteq Coming(s) \cup {a} /\ Coming(s) \cup {a} \subseteq Coming(s)'
      BY <1>2, <2>2 DEF Coming
    <3> QED
      BY <3>1
  <2>4. /\ Len(Seen(s)) + Count(todo, W) = Len(Due(s))
        /\ ToSet(Seen(s)) \cup Coming(s) = ToSet(Due(s))
        /\ stream[s].from <= Len(hist.emitted)
        /\ ~hist.reentered /\ Coming(s) = {} => Seen(s) = Due(s)
    BY <1>1, <2>1 DEF Watched
  <2>5. Len(Seen(s)') + Count(todo', W) = Len(Due(s)')
    <3>1. Len(Seen(s)) \in Nat
      <4>1. Seen(s) \in Seq(States)
        BY <1>1, ConcatProperties DEF Generators, Seen
      <4> QED
        BY <4>1, LenProperties
    <3>2. Count(todo', W) = 1 + Count(todo, W)
      BY <1>2, <2>1
    <3> QED
      BY <1>2, <1>4, <1>5, <1>6, <2>4, <3>1, <3>2
  <2>6. ToSet(Seen(s)') \cup Coming(s)' = ToSet(Due(s)')
    BY <1>4, <1>5, <1>6, <2>3, <2>4
  <2>7. ~hist.reentered => Coming(s) = {}
    <3>1. ~hist.reentered => Count(todo, UpdateCalls) = 0
      BY <1>1, NoneDelivered
    <3>2. W \subseteq UpdateCalls
      BY DEF CallsTo, UpdateCalls
    <3>3. ~hist.reentered => Count(todo, W) = 0
      BY <1>1, <3>1, <3>2, CountWithin
    <3> QED
      BY <1>1, <3>3, Absent DEF Coming
  <2>8. ~hist'.reentered =>
          /\ Coming(s)' # {}
          /\ \A update \in Coming(s)' : Due(s)' = Append(Seen(s)', update)
    BY <1>4, <1>5, <2>3, <2>4, <2>7
  <2> QED
    BY <1>1, <1>4, <1>5, <1>7, <2>1, <2>5, <2>6, <2>8 DEF Watched
<1>8. CASE stream[s].pc \notin {"waiting", "yielded"}
  <2>1. Count(more, W) = 0 /\ Coming(s) = {} /\ ~Follows(s)
    BY <1>1, <1>3, <1>8 DEF Watched, Follows
  <2>2. Coming(s)' = {}
    BY <1>2, <2>1, Absent DEF Coming
  <2> QED
    BY <1>1, <1>4, <1>5, <1>8, <2>1, <2>2 DEF Watched
<1> QED
  BY <1>7, <1>8

(* The calls of an update's listeners stand in front.                      *)
LEMMA OrderlyCalls ==
  ASSUME todo \in Seq(Jobs), todo # <<>>, Orderly, hist'.reentered = hist.reentered,
         Head(todo).what = "emit", NEW calls \in Seq(Jobs), Then(calls),
         \A i \in 1..Len(calls) : calls[i].what = "call" /\ calls[i].of = "update"
  PROVE  Orderly'
<1> SUFFICES ASSUME ~hist.reentered
             PROVE  \A j \in At(todo', UpdateCalls) : \A i \in 1..j : todo'[i] \in UpdateCalls
  BY DEF Orderly
<1>1. Tail(todo) \in Seq(Jobs) /\ todo' = calls \o Tail(todo)
  BY HeadTailProperties DEF Then
<1>2. At(Tail(todo), UpdateCalls) = {}
  <2>1. Count(todo, UpdateCalls) = 0
    BY NoneDelivered
  <2>2. Count(todo, UpdateCalls) = Tally(Head(todo), UpdateCalls) + Count(Tail(todo), UpdateCalls)
    BY CountTail
  <2>3. Count(Tail(todo), UpdateCalls) \in Nat
    BY <1>1, CountType
  <2>4. Tally(Head(todo), UpdateCalls) = 0
    BY DEF Tally, UpdateCalls
  <2>5. Count(Tail(todo), UpdateCalls) = 0
    BY <2>1, <2>2, <2>3, <2>4
  <2> QED
    BY <1>1, <2>5, Absent
<1>3. At(todo', UpdateCalls) = At(calls, UpdateCalls)
  <2>1. At(calls \o Tail(todo), UpdateCalls)
          = At(calls, UpdateCalls) \cup {i + Len(calls) : i \in At(Tail(todo), UpdateCalls)}
    <3> DEFINE rest == Tail(todo)
    <3>1. rest \in Seq(Jobs)
      BY <1>1
    <3> HIDE DEF rest
    <3>2. At(calls \o rest, UpdateCalls)
            = At(calls, UpdateCalls) \cup {i + Len(calls) : i \in At(rest, UpdateCalls)}
      BY <3>1, AtConcat
    <3> QED
      BY <3>2 DEF rest
  <2> QED
    BY <1>1, <1>2, <2>1
<1>4. ASSUME NEW j \in At(calls, UpdateCalls), NEW i \in 1..j
      PROVE  todo'[i] \in UpdateCalls
  <2>1. Len(calls) \in Nat /\ j \in 1..Len(calls)
    BY DEF At
  <2>2. i \in 1..Len(calls)
    BY <2>1
  <2>3. calls[i] \in UpdateCalls
    BY <2>2 DEF UpdateCalls
  <2>4. todo'[i] = calls[i]
    <3>1. Len(Tail(todo)) \in Nat
      BY <1>1
    <3>2. i \in 1..(Len(calls) + Len(Tail(todo))) /\ i <= Len(calls)
      BY <2>1, <2>2, <3>1
    <3> QED
      BY <1>1, <3>2, ConcatProperties
  <2> QED
    BY <2>3, <2>4
<1> QED
  BY <1>3, <1>4

(* An event is heard of by each of its listeners, and the request's events *)
(* are measured after that.                                                *)
LEMMA RunEmitKeeps ==
  ASSUME IInv, RunEmit, NEW e0, e0 = Head(todo).of, NEW a, a = Head(todo).arg
  PROVE  IInv'
<1> DEFINE more == Emitted(e0, a)
<1>1. /\ Typed /\ Settling /\ Reporting /\ Tracing /\ Watching /\ Truthful /\ Orderly
      /\ todo \in Seq(Jobs) /\ todo # <<>> /\ Head(todo).what = "emit"
      /\ UNCHANGED <<ticket, listeners, stream, client, tracer>>
      /\ Then(more)
  BY DEF IInv, RunEmit, Typed, AtHand, Idle, CallsOf, Emitted
<1>2. Head(todo) \in Jobs /\ e0 \in Events /\ a \in States
  <2>1. Head(todo) \in Jobs
    BY <1>1, HeadTailProperties
  <2> QED
    BY <1>1, <2>1, JobFields
<1>3. /\ listeners[e0] \in Seq(Listening(e0)) /\ listeners[e0] \in Seq(Callees)
      /\ \A l \in Callees : Count(listeners[e0], {l}) <= 1
      /\ \A l : Count(listeners[e0], {l}) \in Nat
  BY <1>1, <1>2, CountType DEF Typed
<1>4. /\ more \in Seq(Jobs)
      /\ \A e : Count(more, Emits(e)) = 0
      /\ \A e : Count(more, Measures(e)) = IF e = e0 /\ e0 \in ClientEvents THEN 1 ELSE 0
      /\ Count(more, Cleanups) = 0
      /\ \A S : Count(more, Resolves(S)) = 0
      /\ \A e, l : Count(more, CallsTo(e, l)) = IF e = e0 THEN Count(listeners[e0], {l}) ELSE 0
      /\ e0 # "update" => Count(more, UpdateCalls) = 0 /\ Count(more, Updates) = 0
      /\ \A x : x \in Args(more, Updates) => x = a
      /\ \A l, x : x \in Args(more, CallsTo("update", l)) => x = a
  BY <1>2, <1>3, Emission
<1>5. /\ hist' \in Histories
      /\ hist'.emitted = IF e0 = "update" THEN Append(hist.emitted, a) ELSE hist.emitted
      /\ hist'.dones = IF e0 = "done" THEN hist.dones + 1 ELSE hist.dones
      /\ hist'.ends = IF e0 = "end" THEN hist.ends + 1 ELSE hist.ends
      /\ hist'.reentered = hist.reentered /\ hist'.stoppedAhead = hist.stoppedAhead
      /\ hist'.orphaned = hist.orphaned
  <2>1. hist \in Histories
    BY <1>1 DEF Typed
  <2> DEFINE emitted == IF e0 = "update" THEN Append(hist.emitted, a) ELSE hist.emitted
             dones == IF e0 = "done" THEN hist.dones + 1 ELSE hist.dones
             ends == IF e0 = "end" THEN hist.ends + 1 ELSE hist.ends
  <2>2. emitted \in Seq(States) /\ dones \in Nat /\ ends \in Nat
    BY <1>2, <2>1, AppendProperties DEF Histories
  <2>3. hist' = [hist EXCEPT !.emitted = emitted, !.dones = dones, !.ends = ends]
    BY <2>1 DEF RunEmit, Histories
  <2> HIDE DEF emitted, dones, ends
  <2>4. /\ hist' \in Histories
        /\ hist'.emitted = emitted /\ hist'.dones = dones /\ hist'.ends = ends
        /\ hist'.reentered = hist.reentered /\ hist'.stoppedAhead = hist.stoppedAhead
        /\ hist'.orphaned = hist.orphaned
    BY <2>1, <2>2, <2>3 DEF Histories
  <2> QED
    BY <2>4 DEF emitted, dones, ends
<1> HIDE DEF more
<1>6. /\ todo' \in Seq(Jobs)
      /\ \A W : Count(todo, W) \in Nat /\ Count(todo', W) \in Nat
  BY <1>1, <1>4, Books
<1>7. ASSUME NEW e
      PROVE  /\ Count(todo', Emits(e)) + (IF e = e0 THEN 1 ELSE 0) = Count(todo, Emits(e))
             /\ Count(todo', Measures(e))
                  = (IF e = e0 /\ e0 \in ClientEvents THEN 1 ELSE 0) + Count(todo, Measures(e))
  <2>1. /\ Count(todo', Emits(e)) + (IF e = e0 THEN 1 ELSE 0)
             = Count(more, Emits(e)) + Count(todo, Emits(e))
        /\ Count(todo', Measures(e)) + 0 = Count(more, Measures(e)) + Count(todo, Measures(e))
    BY <1>1, <1>4, Books
  <2> QED
    BY <1>4, <1>6, <2>1
<1>8. ASSUME NEW S
      PROVE  Count(todo', Resolves(S)) = Count(todo, Resolves(S))
  <2>1. Count(todo', Resolves(S)) + 0 = Count(more, Resolves(S)) + Count(todo, Resolves(S))
    BY <1>1, <1>4, Books
  <2> QED
    BY <1>4, <1>6, <2>1
<1>9. ASSUME NEW e, NEW l
      PROVE  Count(todo', CallsTo(e, l))
               = (IF e = e0 THEN Count(listeners[e0], {l}) ELSE 0) + Count(todo, CallsTo(e, l))
  <2>1. Count(todo', CallsTo(e, l)) + 0 = Count(more, CallsTo(e, l)) + Count(todo, CallsTo(e, l))
    BY <1>1, <1>4, Books
  <2>2. Count(listeners[e0], {l}) \in Nat
    BY <1>2, <1>3, CountType
  <2>3. Count(more, CallsTo(e, l)) = IF e = e0 THEN Count(listeners[e0], {l}) ELSE 0
    BY <1>4
  <2>4. Count(todo, CallsTo(e, l)) \in Nat /\ Count(todo', CallsTo(e, l)) \in Nat
    BY <1>6
  <2> QED
    BY <2>1, <2>2, <2>3, <2>4
<1>10. /\ Count(todo', Cleanups) = Count(todo, Cleanups)
       /\ Count(todo', UpdateCalls) = Count(more, UpdateCalls) + Count(todo, UpdateCalls)
  <2>1. /\ Count(todo', Cleanups) + 0 = Count(more, Cleanups) + Count(todo, Cleanups)
        /\ Count(todo', UpdateCalls) + 0 = Count(more, UpdateCalls) + Count(todo, UpdateCalls)
    BY <1>1, <1>4, Books
  <2>2. Count(more, UpdateCalls) \in Nat
    BY <1>4, CountType
  <2>3. Count(more, Cleanups) = 0 /\ Count(todo', Cleanups) \in Nat /\ Count(todo, Cleanups) \in Nat
    BY <1>4, <1>6
  <2>4. Count(todo', UpdateCalls) \in Nat /\ Count(todo, UpdateCalls) \in Nat
    BY <1>6
  <2> QED
    BY <2>1, <2>2, <2>3, <2>4
<1>11. Typed'
  BY <1>1, <1>5, <1>6 DEF Typed
<1>12. Settling'
  <2>1. hist'.dones + Count(todo', Emits("done")) = hist.dones + Count(todo, Emits("done"))
    <3>1. Count(todo', Emits("done")) + (IF "done" = e0 THEN 1 ELSE 0) = Count(todo, Emits("done"))
      BY <1>7
    <3>2. hist.dones \in Nat /\ Count(todo', Emits("done")) \in Nat /\ Count(todo, Emits("done")) \in Nat
      BY <1>1, <1>6 DEF Typed, Histories
    <3> QED
      BY <1>5, <3>1, <3>2
  <2> QED
    BY <1>1, <1>8, <2>1 DEF Settling
<1>13. Reporting'
  <2>1. /\ \A e \in ClientEvents : client.measured[e] \in Nat
        /\ hist.ends \in Nat
    BY <1>1 DEF Typed, Clients, Histories
  <2>2. ASSUME NEW e \in ClientEvents
        PROVE  /\ Count(todo', Emits(e)) + Count(todo', Measures(e))
                    = Count(todo, Emits(e)) + Count(todo, Measures(e))
               /\ e # e0 => /\ Count(todo', Emits(e)) = Count(todo, Emits(e))
                            /\ Count(todo', Measures(e)) = Count(todo, Measures(e))
               /\ e = e0 => /\ Count(todo', Emits(e)) + 1 = Count(todo, Emits(e))
                            /\ Count(todo', Measures(e)) = Count(todo, Measures(e)) + 1
    <3>1. /\ Count(todo', Emits(e)) \in Nat /\ Count(todo, Emits(e)) \in Nat
          /\ Count(todo', Measures(e)) \in Nat /\ Count(todo, Measures(e)) \in Nat
      BY <1>6
    <3> QED
      BY <1>7, <3>1
  <2>3. "retry" \in ClientEvents /\ "end" \in ClientEvents /\ "request" \in ClientEvents
    BY DEF ClientEvents
  <2>4. \A e : /\ Count(todo', Emits(e)) \in Nat /\ Count(todo, Emits(e)) \in Nat
               /\ Count(todo', Measures(e)) \in Nat /\ Count(todo, Measures(e)) \in Nat
    BY <1>6
  <2>5. client.measured["retry"] + Count(todo', Emits("retry")) + Count(todo', Measures("retry"))
          = client.measured["retry"] + Count(todo, Emits("retry")) + Count(todo, Measures("retry"))
    BY <2>1, <2>2, <2>3, <2>4
  <2>6. /\ client.measured["end"] + Count(todo, Measures("end")) = hist.ends
        /\ hist.ends + Count(todo, Emits("end")) <= IF client.pc = "over" THEN 1 ELSE 0
        /\ client.measured["retry"] + Count(todo, Emits("retry")) + Count(todo, Measures("retry"))
             = client.retries
        /\ client.gauge # client.inflight =>
             /\ client.inflight = 1
             /\ Count(todo, Cleanups) + Count(todo, Emits("request")) + Count(todo, Measures("request")) > 0
    BY <1>1 DEF Reporting
  <2>7. client.measured["end"] + Count(todo', Measures("end")) = hist'.ends
    BY <1>5, <2>1, <2>2, <2>3, <2>4, <2>6
  <2>8. hist'.ends + Count(todo', Emits("end")) = hist.ends + Count(todo, Emits("end"))
    BY <1>5, <2>1, <2>2, <2>3, <2>4
  <2>9. Count(todo', Cleanups) + Count(todo', Emits("request")) + Count(todo', Measures("request"))
          = Count(todo, Cleanups) + Count(todo, Emits("request")) + Count(todo, Measures("request"))
    <3>1. Count(todo, Cleanups) \in Nat
      BY <1>6
    <3> QED
      BY <1>10, <2>2, <2>3, <2>4, <3>1
  <2> QED
    BY <1>1, <2>5, <2>6, <2>7, <2>8, <2>9 DEF Reporting
<1>14. Tracing'
  <2>1. /\ Count(todo, Emits("request")) \in Nat /\ Count(todo', Emits("request")) \in Nat
        /\ Count(todo, CallsTo("request", Tracer)) \in Nat /\ Count(todo', CallsTo("request", Tracer)) \in Nat
        /\ Count(todo, CallsTo("end", Tracer)) \in Nat /\ Count(todo', CallsTo("end", Tracer)) \in Nat
        /\ hist.ends \in Nat /\ tracer.started \in Nat /\ tracer.active \in BOOLEAN
    BY <1>1, <1>6 DEF Typed, Histories, Tracers
  <2>2. e0 \in ClientEvents => Count(listeners[e0], {Tracer}) = IF tracer.active THEN 1 ELSE 0
    BY <1>1 DEF Tracing
  <2>3. "end" \in ClientEvents /\ "request" \in ClientEvents
    BY DEF ClientEvents
  <2>4. /\ Opening \in Nat /\ Opening' \in Nat /\ Closing \in Nat /\ Closing' \in Nat
        /\ Opening' <= Opening
        /\ tracer.active => Opening' = Opening
        /\ ~tracer.active => Count(todo', CallsTo("request", Tracer)) = Count(todo, CallsTo("request", Tracer))
    <3>1. CASE e0 = "request"
      <4>1. /\ Count(todo', Emits("request")) + 1 = Count(todo, Emits("request"))
            /\ Count(todo', CallsTo("request", Tracer))
                 = (IF tracer.active THEN 1 ELSE 0) + Count(todo, CallsTo("request", Tracer))
        BY <1>7, <1>9, <2>2, <2>3, <3>1
      <4> QED
        BY <2>1, <4>1 DEF Opening, Closing
    <3>2. CASE e0 # "request"
      <4>1. /\ Count(todo', Emits("request")) + 0 = Count(todo, Emits("request"))
            /\ Count(todo', CallsTo("request", Tracer)) = 0 + Count(todo, CallsTo("request", Tracer))
        BY <1>7, <1>9, <3>2
      <4> QED
        BY <2>1, <4>1 DEF Opening, Closing
    <3> QED
      BY <3>1, <3>2
  <2>5. /\ \A e \in ClientEvents : Count(listeners'[e], {Tracer}) = IF tracer'.active THEN 1 ELSE 0
        /\ tracer'.started + Opening' <= IF client'.pc = "new" THEN 0 ELSE 1
        /\ tracer'.ended + (IF tracer'.span = "open" THEN 1 ELSE 0) <= tracer'.started
        /\ Opening' > 0 => client'.pc = "first"
        /\ tracer'.active /\ client'.pc \in {"first", "loop"} => tracer'.span = "open" \/ Opening' > 0
        /\ client'.attempt = "due" => client'.pc \in {"first", "loop"}
        /\ ~hist'.orphaned
    <3>1. /\ tracer.started + Opening <= IF client.pc = "new" THEN 0 ELSE 1
          /\ Opening > 0 => client.pc = "first"
          /\ tracer.active /\ client.pc \in {"first", "loop"} => tracer.span = "open" \/ Opening > 0
      BY <1>1 DEF Tracing
    <3>2. tracer.started + Opening' <= IF client.pc = "new" THEN 0 ELSE 1
      BY <2>1, <2>4, <3>1
    <3>3. Opening' > 0 => client.pc = "first"
      BY <2>4, <3>1
    <3>4. tracer.active /\ client.pc \in {"first", "loop"} => tracer.span = "open" \/ Opening' > 0
      BY <2>4, <3>1
    <3>5. /\ \A e \in ClientEvents : Count(listeners'[e], {Tracer}) = IF tracer'.active THEN 1 ELSE 0
          /\ tracer'.ended + (IF tracer'.span = "open" THEN 1 ELSE 0) <= tracer'.started
          /\ client'.attempt = "due" => client'.pc \in {"first", "loop"}
          /\ ~hist'.orphaned
      BY <1>1, <1>5 DEF Tracing
    <3> QED
      BY <1>1, <3>2, <3>3, <3>4, <3>5
  <2>6. ~tracer'.active /\ Count(todo', CallsTo("request", Tracer)) > 0 => hist'.stoppedAhead
    <3>1. ~tracer.active /\ Count(todo, CallsTo("request", Tracer)) > 0 => hist.stoppedAhead
      BY <1>1 DEF Tracing
    <3> QED
      BY <1>1, <1>5, <2>4, <3>1
  <2>7. CASE e0 = "end"
    <3>1. Closing' = (IF tracer.active THEN 1 ELSE 0) + Closing
      BY <1>9, <2>2, <2>3, <2>7 DEF Closing
    <3>2. client.pc = "over"
      <4>1. Count(todo', Emits("end")) + 1 = Count(todo, Emits("end")) /\ Count(todo', Emits("end")) \in Nat
        BY <1>6, <1>7, <2>7
      <4> QED
        BY <1>1, <2>1, <4>1 DEF Reporting
    <3>3. tracer.active => Closing' > 0
      BY <2>4, <3>1
    <3>4. tracer.span = "open" /\ ~hist.stoppedAhead => tracer.active
      BY <1>1 DEF Tracing
    <3>5. tracer'.span = "open" /\ ~hist'.stoppedAhead => tracer'.active /\ Closing' > 0
      BY <1>1, <1>5, <3>3, <3>4
    <3> QED
      BY <1>1, <2>5, <2>6, <3>2, <3>5 DEF Tracing
  <2>8. CASE e0 # "end"
    <3>1. Closing' = Closing
      <4>1. Count(todo', CallsTo("end", Tracer)) = 0 + Count(todo, CallsTo("end", Tracer))
        BY <1>9, <2>8
      <4> QED
        BY <2>1, <4>1 DEF Closing
    <3>2. hist'.ends = hist.ends
      BY <1>5, <2>8
    <3>3. /\ tracer.span = "open" /\ ~hist.stoppedAhead => tracer.active /\ (hist.ends = 0 \/ Closing > 0)
          /\ Closing > 0 => client.pc = "over"
      BY <1>1 DEF Tracing
    <3>4. /\ tracer'.span = "open" /\ ~hist'.stoppedAhead => tracer'.active /\ (hist'.ends = 0 \/ Closing' > 0)
          /\ Closing' > 0 => client'.pc = "over"
      BY <1>1, <1>5, <3>1, <3>2, <3>3
    <3> QED
      BY <2>5, <2>6, <3>4 DEF Tracing
  <2> QED
    BY <2>7, <2>8
<1>15. Watching'
  <2>1. CASE e0 = "update"
    <3> SUFFICES ASSUME NEW s \in Streams
                 PROVE  Watched(s)'
      BY DEF Watching
    <3>1. hist'.emitted = Append(hist.emitted, a)
      BY <1>5, <2>1
    <3>2. /\ Count(more, CallsTo("update", s)) = Count(listeners["update"], {s})
          /\ \A x : x \in Args(more, CallsTo("update", s)) => x = a
      BY <1>4, <2>1
    <3> QED
      BY <1>1, <1>2, <1>4, <1>5, <2>1, <3>1, <3>2, EmitWatched
  <2>2. CASE e0 # "update"
    <3>1. ASSUME NEW s \in Streams
          PROVE  /\ Count(todo', CallsTo("update", s)) = Count(todo, CallsTo("update", s))
                 /\ Args(todo', CallsTo("update", s)) = Args(todo, CallsTo("update", s))
      <4>1. Count(more, CallsTo("update", s)) = 0
        BY <1>4, <2>2
      <4>2. Args(more, CallsTo("update", s)) = {}
        BY <1>4, <4>1, Absent
      <4>3. Head(todo) \notin CallsTo("update", s)
        BY <1>1 DEF CallsTo
      <4>4. \A x : x \in Args(todo', CallsTo("update", s))
                     <=> x \in Args(more, CallsTo("update", s)) \/ x \in Args(todo, CallsTo("update", s))
        BY <1>1, <1>4, <4>3, Moves
      <4>5. /\ Args(todo', CallsTo("update", s)) \subseteq Args(todo, CallsTo("update", s))
            /\ Args(todo, CallsTo("update", s)) \subseteq Args(todo', CallsTo("update", s))
        BY <4>2, <4>4
      <4>6. Count(todo', CallsTo("update", s)) = 0 + Count(todo, CallsTo("update", s))
        BY <1>9, <2>2
      <4> QED
        BY <1>6, <4>5, <4>6
    <3>2. Count(todo', Emits("update")) = Count(todo, Emits("update"))
      <4>1. Count(todo', Emits("update")) + 0 = Count(todo, Emits("update"))
        BY <1>7, <2>2
      <4> QED
        BY <1>6, <4>1
    <3>3. hist'.emitted = hist.emitted
      BY <1>5, <2>2
    <3> QED
      BY <1>1, <1>5, <3>1, <3>2, <3>3, WatchingKept
  <2> QED
    BY <2>1, <2>2
<1>16. Truthful'
  <2>1. \A x : x \in Args(todo', Updates) => x \in Args(more, Updates) \/ x \in Args(todo, Updates)
    BY <1>1, <1>4, Moves
  <2>2. CASE e0 = "update"
    <3>1. Head(todo) \in Updates
      BY <1>1, <1>2, <2>2 DEF Updates, Emits
    <3>2. a \in Args(todo, Updates)
      BY <1>1, <3>1, ArgsTail
    <3> QED
      BY <1>1, <1>4, <2>1, <3>2, TruthfulKept
  <2>3. CASE e0 # "update"
    <3>1. Args(more, Updates) = {}
      BY <1>4, <2>3, Absent
    <3> QED
      BY <1>1, <2>1, <3>1, TruthfulKept
  <2> QED
    BY <2>2, <2>3
<1>17. Orderly'
  <2>1. CASE e0 = "update"
    <3> DEFINE calls == CallsOf(e0, a)
    <3>1. /\ calls \in Seq(Jobs)
          /\ \A i \in 1..Len(calls) : calls[i].what = "call" /\ calls[i].of = e0
      BY <1>2, <1>3, Calling
    <3>2. more = calls
      <4>1. e0 \notin ClientEvents
        BY <2>1 DEF ClientEvents
      <4>2. more = calls \o <<>>
        BY <4>1 DEF more, Emitted
      <4> HIDE DEF calls
      <4> QED
        BY <3>1, <4>2, ConcatEmptySeq
    <3> HIDE DEF calls
    <3>3. Then(calls)
      BY <1>1, <3>2
    <3> QED
      BY <1>1, <1>5, <2>1, <3>1, <3>3, OrderlyCalls
  <2>2. CASE e0 # "update"
    <3>1. ~hist.reentered => Count(todo, UpdateCalls) = 0
      BY <1>1, NoneDelivered
    <3> QED
      BY <1>4, <1>5, <1>6, <1>10, <2>2, <3>1, OrderlyWithout
  <2> QED
    BY <2>1, <2>2
<1> QED
  BY <1>11, <1>12, <1>13, <1>14, <1>15, <1>16, <1>17 DEF IInv

-----------------------------------------------------------------------------
(* The caller's listeners *)

\* Work that announces, measures, resolves and calls nothing.
Quiet(more) ==
  /\ \A e : Count(more, Emits(e)) = 0 /\ Count(more, Measures(e)) = 0
  /\ \A S : Count(more, Resolves(S)) = 0
  /\ \A e, l : Count(more, CallsTo(e, l)) = 0
  /\ Count(more, UpdateCalls) = 0 /\ Count(more, Updates) = 0

(* To cancel or to clean up is not to announce anything yet.               *)
LEMMA QuietWork ==
  /\ <<>> \in Seq(Jobs) /\ Quiet(<<>>) /\ Count(<<>>, Cleanups) = 0
  /\ <<Cancelling>> \in Seq(Jobs) /\ Quiet(<<Cancelling>>) /\ Count(<<Cancelling>>, Cleanups) = 0
  /\ <<Cleanup>> \in Seq(Jobs) /\ Quiet(<<Cleanup>>) /\ Count(<<Cleanup>>, Cleanups) = 1
  /\ /\ <<Cleanup, Cancelling>> \in Seq(Jobs) /\ Quiet(<<Cleanup, Cancelling>>)
     /\ Count(<<Cleanup, Cancelling>>, Cleanups) = 1
<1>1. <<>> \in Seq(Jobs) /\ Quiet(<<>>) /\ Count(<<>>, Cleanups) = 0
  BY CountNone DEF Quiet
<1> DEFINE a == Cancelling
           b == Cleanup
<1>2. a \in Jobs /\ b \in Jobs /\ a.what = "mark" /\ b.what = "cleanup"
  BY Constructors, StateFacts DEF Cancelling
<1> HIDE DEF a, b
<1>3. /\ \A e : Tally(a, Emits(e)) = 0 /\ Tally(a, Measures(e)) = 0
      /\ \A S : Tally(a, Resolves(S)) = 0
      /\ \A e, l : Tally(a, CallsTo(e, l)) = 0
      /\ Tally(a, UpdateCalls) = 0 /\ Tally(a, Updates) = 0 /\ Tally(a, Cleanups) = 0
  BY <1>2, Sorts
<1>4. /\ \A e : Tally(b, Emits(e)) = 0 /\ Tally(b, Measures(e)) = 0
      /\ \A S : Tally(b, Resolves(S)) = 0
      /\ \A e, l : Tally(b, CallsTo(e, l)) = 0
      /\ Tally(b, UpdateCalls) = 0 /\ Tally(b, Updates) = 0 /\ Tally(b, Cleanups) = 1
  BY <1>2, Sorts
<1>5. ASSUME NEW W
      PROVE  /\ Count(<<a>>, W) = Tally(a, W) /\ Count(<<b>>, W) = Tally(b, W)
             /\ Count(<<b, a>>, W) = Tally(b, W) + Tally(a, W)
  <2>1. Count(<<a>>, W) = Tally(a, W) /\ Count(<<b>>, W) = Tally(b, W)
    BY CountOne DEF Tally
  <2>2. Count(<<b, a>>, W) = Tally(b, W) + Tally(a, W)
    BY <1>2, CountPair
  <2> QED
    BY <2>1, <2>2
<1>6. <<a>> \in Seq(Jobs) /\ Quiet(<<a>>) /\ Count(<<a>>, Cleanups) = 0
  <2>1. <<a>> \in Seq(Jobs)
    BY <1>2
  <2>2. \A W : Count(<<a>>, W) = Tally(a, W)
    BY <1>5
  <2> QED
    BY <1>3, <2>1, <2>2 DEF Quiet
<1>7. <<b>> \in Seq(Jobs) /\ Quiet(<<b>>) /\ Count(<<b>>, Cleanups) = 1
  BY <1>2, <1>4, <1>5 DEF Quiet
<1>8. <<b, a>> \in Seq(Jobs) /\ Quiet(<<b, a>>) /\ Count(<<b, a>>, Cleanups) = 1
  BY <1>2, <1>3, <1>4, <1>5 DEF Quiet
<1> QED
  BY <1>1, <1>6, <1>7, <1>8 DEF a, b

(* A listener of the caller's has been called, and may have called back.   *)
LEMMA Answered ==
  ASSUME todo \in Seq(Jobs), todo # <<>>, Head(todo).what = "call", Head(todo).to \in Users,
         NEW more \in Seq(Jobs), Quiet(more), Then(more)
  PROVE  /\ Head(todo) \in Jobs /\ Head(todo).of \in Events /\ Head(todo).to \in Callees
         /\ todo' \in Seq(Jobs)
         /\ \A W : Count(todo, W) \in Nat /\ Count(todo', W) \in Nat
         /\ \A e : /\ Count(todo', Emits(e)) = Count(todo, Emits(e))
                   /\ Count(todo', Measures(e)) = Count(todo, Measures(e))
         /\ Count(todo', Cleanups) = Count(more, Cleanups) + Count(todo, Cleanups)
         /\ \A S : Count(todo', Resolves(S)) = Count(todo, Resolves(S))
         /\ \A e, l : l \notin Users => Count(todo', CallsTo(e, l)) = Count(todo, CallsTo(e, l))
         /\ \A s \in Streams : Args(todo', CallsTo("update", s)) = Args(todo, CallsTo("update", s))
         /\ \A x : x \in Args(todo', Updates) => x \in Args(todo, Updates)
         /\ Head(todo).of # "update" => Count(todo', UpdateCalls) = Count(todo, UpdateCalls)
<1>1. /\ Head(todo) \in Jobs /\ todo' \in Seq(Jobs)
      /\ \A W : /\ Count(todo, W) \in Nat /\ Count(more, W) \in Nat /\ Count(todo', W) \in Nat
                /\ Count(todo', W) + Tally(Head(todo), W) = Count(more, W) + Count(todo, W)
  BY Moves
<1>2. /\ \A W, x : x \in Args(todo', W) => x \in Args(more, W) \/ x \in Args(todo, W)
      /\ \A W : Head(todo) \notin W =>
           \A x : x \in Args(todo', W) <=> x \in Args(more, W) \/ x \in Args(todo, W)
  BY Moves
<1>3. /\ \A e : Tally(Head(todo), Emits(e)) = 0 /\ Tally(Head(todo), Measures(e)) = 0
      /\ Tally(Head(todo), Cleanups) = 0
      /\ \A S : Tally(Head(todo), Resolves(S)) = 0
      /\ \A e, l : l \notin Users => Tally(Head(todo), CallsTo(e, l)) = 0
      /\ Head(todo).of # "update" => Tally(Head(todo), UpdateCalls) = 0
  BY <1>1, Sorts
<1>4. /\ \A e : /\ Count(todo', Emits(e)) = Count(todo, Emits(e))
                /\ Count(todo', Measures(e)) = Count(todo, Measures(e))
  <2> SUFFICES ASSUME NEW e
               PROVE  /\ Count(todo', Emits(e)) = Count(todo, Emits(e))
                      /\ Count(todo', Measures(e)) = Count(todo, Measures(e))
    OBVIOUS
  <2>1. /\ Tally(Head(todo), Emits(e)) = 0 /\ Tally(Head(todo), Measures(e)) = 0
        /\ Count(more, Emits(e)) = 0 /\ Count(more, Measures(e)) = 0
    BY <1>3 DEF Quiet
  <2> QED
    BY <1>1, <2>1
<1>5. Count(todo', Cleanups) = Count(more, Cleanups) + Count(todo, Cleanups)
  BY <1>1, <1>3
<1>6. ASSUME NEW S
      PROVE  Count(todo', Resolves(S)) = Count(todo, Resolves(S))
  <2>1. Tally(Head(todo), Resolves(S)) = 0 /\ Count(more, Resolves(S)) = 0
    BY <1>3 DEF Quiet
  <2> QED
    BY <1>1, <2>1
<1>7. ASSUME NEW e, NEW l, l \notin Users
      PROVE  Count(todo', CallsTo(e, l)) = Count(todo, CallsTo(e, l))
  <2>1. Tally(Head(todo), CallsTo(e, l)) = 0 /\ Count(more, CallsTo(e, l)) = 0
    BY <1>3, <1>7 DEF Quiet
  <2> QED
    BY <1>1, <2>1
<1>8. ASSUME NEW s \in Streams
      PROVE  Args(todo', CallsTo("update", s)) = Args(todo, CallsTo("update", s))
  <2>1. Head(todo) \notin CallsTo("update", s)
    BY ObserversAssumption DEF CallsTo
  <2>2. Count(more, CallsTo("update", s)) = 0
    BY DEF Quiet
  <2>3. Args(more, CallsTo("update", s)) = {}
    BY <2>2, Absent
  <2>4. /\ Args(todo', CallsTo("update", s)) \subseteq Args(todo, CallsTo("update", s))
        /\ Args(todo, CallsTo("update", s)) \subseteq Args(todo', CallsTo("update", s))
    BY <1>2, <2>1, <2>3
  <2> QED
    BY <2>4
<1>9. \A x : x \in Args(todo', Updates) => x \in Args(todo, Updates)
  <2>1. Count(more, Updates) = 0
    BY DEF Quiet
  <2>2. Args(more, Updates) = {}
    BY <2>1, Absent
  <2> QED
    BY <1>2, <2>2
<1>10. Head(todo).of # "update" => Count(todo', UpdateCalls) = Count(todo, UpdateCalls)
  <2>1. Count(more, UpdateCalls) = 0
    BY DEF Quiet
  <2> QED
    BY <1>1, <1>3, <2>1
<1> QED
  BY <1>1, <1>4, <1>5, <1>6, <1>7, <1>8, <1>9, <1>10, JobFields

(* What a listener that does not call back leaves as it is.                *)
LEMMA Heard ==
  ASSUME IInv, Called(Users), Then(<<>>), UNCHANGED <<ticket, stream, client>>,
         hist'.dones = hist.dones, hist'.ends = hist.ends, hist'.reentered = hist.reentered
  PROVE  /\ todo' \in Seq(Jobs) /\ Head(todo).of \in Events /\ Head(todo).to \in Callees
         /\ \A W : Count(todo, W) \in Nat /\ Count(todo', W) \in Nat
         /\ \A e : Count(todo', Emits(e)) = Count(todo, Emits(e))
         /\ \A e, l : l \notin Users => Count(todo', CallsTo(e, l)) = Count(todo, CallsTo(e, l))
         /\ \A s \in Streams : Args(todo', CallsTo("update", s)) = Args(todo, CallsTo("update", s))
         /\ Settling' /\ Reporting' /\ Truthful' /\ Orderly'
<1>1. /\ Settling /\ Reporting /\ Truthful /\ Orderly
      /\ todo \in Seq(Jobs) /\ todo # <<>> /\ Head(todo).what = "call" /\ Head(todo).to \in Users
  BY DEF IInv, Typed, Called, AtHand, Idle
<1> DEFINE none == <<>>
<1>2. none \in Seq(Jobs) /\ Quiet(none) /\ Count(none, Cleanups) = 0 /\ Then(none)
  BY QuietWork
<1> HIDE DEF none
<1>3. /\ todo' \in Seq(Jobs) /\ Head(todo).of \in Events /\ Head(todo).to \in Callees
      /\ \A W : Count(todo, W) \in Nat /\ Count(todo', W) \in Nat
      /\ \A e : /\ Count(todo', Emits(e)) = Count(todo, Emits(e))
                /\ Count(todo', Measures(e)) = Count(todo, Measures(e))
      /\ Count(todo', Cleanups) = Count(none, Cleanups) + Count(todo, Cleanups)
      /\ \A S : Count(todo', Resolves(S)) = Count(todo, Resolves(S))
      /\ \A e, l : l \notin Users => Count(todo', CallsTo(e, l)) = Count(todo, CallsTo(e, l))
      /\ \A s \in Streams : Args(todo', CallsTo("update", s)) = Args(todo, CallsTo("update", s))
      /\ \A x : x \in Args(todo', Updates) => x \in Args(todo, Updates)
  BY <1>1, <1>2, Answered
<1>4. Count(todo', Cleanups) = Count(todo, Cleanups)
  <2>1. Count(todo, Cleanups) \in Nat
    BY <1>3
  <2> QED
    BY <1>2, <1>3, <2>1
<1>5. Settling' /\ Reporting' /\ Truthful'
  BY <1>1, <1>3, <1>4, SettlingKept, ReportingKept, TruthfulKept
<1>6. Orderly'
  BY <1>1, OrderlyTail
<1> QED
  BY <1>3, <1>5, <1>6

(* Who takes itself off is not registered for that event any more.         *)
LEMMA LeaveFacts ==
  ASSUME Typed, NEW e \in Events, NEW l \in Callees, listeners' = Without(e, l)
  PROVE  /\ listeners' \in [Events -> Seq(Callees)]
         /\ \A f \in Events :
              /\ listeners'[f] \in Seq(Listening(f))
              /\ \A m \in Callees : Count(listeners'[f], {m}) <= 1
         /\ Count(listeners'[e], {l}) = 0
         /\ \A f \in Events : \A m :
              f # e \/ m # l => Count(listeners'[f], {m}) = Count(listeners[f], {m})
<1>1. /\ listeners \in [Events -> Seq(Callees)]
      /\ \A f \in Events : /\ listeners[f] \in Seq(Listening(f))
                           /\ \A m \in Callees : Count(listeners[f], {m}) <= 1
  BY DEF Typed
<1>2. /\ Without(e, l) \in [Events -> Seq(Callees)]
      /\ Without(e, l)[e] \in Seq(Listening(e))
      /\ \A f \in Events : f # e => Without(e, l)[f] = listeners[f]
      /\ \A m : Count(Without(e, l)[e], {m}) = IF m = l THEN 0 ELSE Count(listeners[e], {m})
  BY <1>1, WithoutCounts
<1>3. ASSUME NEW f \in Events
      PROVE  /\ listeners'[f] \in Seq(Listening(f))
             /\ \A m \in Callees : Count(listeners'[f], {m}) <= 1
             /\ \A m : f # e \/ m # l => Count(listeners'[f], {m}) = Count(listeners[f], {m})
  <2>1. CASE f = e
    <3>1. /\ listeners'[f] \in Seq(Listening(f))
          /\ \A m : Count(listeners'[f], {m}) = IF m = l THEN 0 ELSE Count(listeners[f], {m})
          /\ \A m \in Callees : Count(listeners[f], {m}) <= 1
      BY <1>1, <1>2, <2>1
    <3>2. ASSUME NEW m \in Callees
          PROVE  Count(listeners'[f], {m}) <= 1
      <4>1. m = l => Count(listeners'[f], {m}) = 0
        BY <3>1
      <4>2. m # l => Count(listeners'[f], {m}) = Count(listeners[f], {m})
        BY <3>1
      <4> QED
        BY <3>1, <4>1, <4>2
    <3> QED
      BY <2>1, <3>1, <3>2
  <2>2. CASE f # e
    <3>1. listeners'[f] = listeners[f]
      BY <1>2, <2>2
    <3> QED
      BY <1>1, <2>2, <3>1
  <2> QED
    BY <2>1, <2>2
<1>4. listeners' \in [Events -> Seq(Callees)] /\ Count(listeners'[e], {l}) = 0
  BY <1>2
<1> QED
  BY <1>3, <1>4

(* instrumentTracing's stop: it listens no more, and its span has ended.   *)
LEMMA StopFacts ==
  ASSUME Typed, Tracing, StopTracing
  PROVE  /\ listeners' \in [Events -> Seq(Callees)]
         /\ \A f \in Events :
              /\ listeners'[f] \in Seq(Listening(f))
              /\ \A m \in Callees : Count(listeners'[f], {m}) <= 1
         /\ \A f \in ClientEvents : Count(listeners'[f], {Tracer}) = 0
         /\ listeners'["update"] = listeners["update"]
         /\ tracer' \in Tracers /\ tracer'.active = FALSE /\ tracer'.span = "none"
         /\ tracer'.started = tracer.started /\ tracer'.ended <= tracer'.started
<1>1. /\ listeners \in [Events -> Seq(Callees)]
      /\ \A f \in Events : /\ listeners[f] \in Seq(Listening(f))
                           /\ \A m \in Callees : Count(listeners[f], {m}) <= 1
      /\ tracer \in Tracers
  BY DEF Typed
<1>2. Tracer \in Callees /\ ClientEvents \subseteq Events
  BY DEF Callees, Events
<1>3. ASSUME NEW f \in ClientEvents
      PROVE  /\ Without(f, Tracer)[f] \in Seq(Listening(f)) /\ Without(f, Tracer)[f] \in Seq(Callees)
             /\ \A m : Count(Without(f, Tracer)[f], {m})
                         = IF m = Tracer THEN 0 ELSE Count(listeners[f], {m})
  BY <1>1, <1>2, WithoutCounts
<1>4. listeners' = [f \in Events |-> IF f \in ClientEvents THEN Without(f, Tracer)[f] ELSE listeners[f]]
  BY DEF StopTracing
<1>5. /\ \A f \in ClientEvents : listeners'[f] = Without(f, Tracer)[f]
      /\ \A f \in Events : f \notin ClientEvents => listeners'[f] = listeners[f]
  BY <1>2, <1>4
<1>6. \A f \in Events : listeners'[f] \in Seq(Callees)
  BY <1>1, <1>3, <1>5
<1>7. listeners' \in [Events -> Seq(Callees)]
  BY <1>4, <1>6
<1>8. ASSUME NEW f \in Events
      PROVE  /\ listeners'[f] \in Seq(Listening(f))
             /\ \A m \in Callees : Count(listeners'[f], {m}) <= 1
  <2>1. CASE f \in ClientEvents
    <3>1. /\ listeners'[f] = Without(f, Tracer)[f]
          /\ Without(f, Tracer)[f] \in Seq(Listening(f))
          /\ \A m : Count(Without(f, Tracer)[f], {m})
                      = IF m = Tracer THEN 0 ELSE Count(listeners[f], {m})
          /\ \A m \in Callees : Count(listeners[f], {m}) <= 1
      BY <1>1, <1>3, <1>5, <2>1
    <3>2. ASSUME NEW m \in Callees
          PROVE  Count(listeners'[f], {m}) <= 1
      <4>1. m = Tracer => Count(listeners'[f], {m}) = 0
        BY <3>1
      <4>2. m # Tracer => Count(listeners'[f], {m}) = Count(listeners[f], {m})
        BY <3>1
      <4> QED
        BY <3>1, <4>1, <4>2
    <3> QED
      BY <3>1, <3>2
  <2>2. CASE f \notin ClientEvents
    <3>1. listeners'[f] = listeners[f]
      BY <1>5, <2>2
    <3> QED
      BY <1>1, <3>1
  <2> QED
    BY <2>1, <2>2
<1>9. \A f \in ClientEvents : Count(listeners'[f], {Tracer}) = 0
  BY <1>3, <1>5
<1>10. listeners'["update"] = listeners["update"]
  BY <1>5 DEF Events, TicketEvents, ClientEvents
<1>11. /\ tracer' \in Tracers /\ tracer'.active = FALSE /\ tracer'.span = "none"
       /\ tracer'.started = tracer.started /\ tracer'.ended <= tracer'.started
  <2>1. /\ tracer.started \in Nat /\ tracer.ended \in Nat /\ tracer.span \in {"none", "open"}
        /\ tracer.ended + (IF tracer.span = "open" THEN 1 ELSE 0) <= tracer.started
    BY <1>1 DEF Tracers, Tracing
  <2>2. tracer' = [Ended(tracer) EXCEPT !.active = FALSE]
    BY DEF StopTracing
  <2>3. CASE tracer.span = "open"
    <3> DEFINE n == tracer.ended + 1
    <3>1. n \in Nat /\ n <= tracer.started /\ Ended(tracer) = [tracer EXCEPT !.span = "none", !.ended = n]
      BY <2>1, <2>3 DEF Ended
    <3> HIDE DEF n
    <3>2. tracer' = [tracer EXCEPT !.span = "none", !.ended = n, !.active = FALSE]
      BY <1>1, <2>2, <3>1 DEF Tracers
    <3> QED
      BY <1>1, <3>1, <3>2 DEF Tracers
  <2>4. CASE tracer.span # "open"
    <3>1. tracer.span = "none" /\ tracer' = [tracer EXCEPT !.active = FALSE]
      BY <2>1, <2>2, <2>4 DEF Ended
    <3>2. /\ tracer' \in Tracers /\ tracer'.active = FALSE /\ tracer'.span = "none"
          /\ tracer'.started = tracer.started /\ tracer'.ended = tracer.ended
      BY <1>1, <3>1 DEF Tracers
    <3>3. tracer.ended <= tracer.started
      BY <2>1
    <3> QED
      BY <3>2, <3>3
  <2> QED
    BY <2>3, <2>4
<1> QED
  BY <1>7, <1>8, <1>9, <1>10, <1>11

(* A listener that returns, throws or takes itself off.                    *)
LEMMA UserReturns ==
  ASSUME IInv, Called(Users), Then(<<>>), UNCHANGED <<ticket, stream, client, tracer, hist>>,
         UNCHANGED listeners \/ listeners' = Without(Head(todo).of, Head(todo).to)
  PROVE  IInv'
<1> DEFINE event == Head(todo).of
           user == Head(todo).to
<1>1. /\ Typed /\ Tracing /\ Watching /\ user \in Users /\ user \notin Streams /\ user # Tracer
  BY ObserversAssumption DEF IInv, Called
<1>2. /\ todo' \in Seq(Jobs) /\ event \in Events /\ user \in Callees
      /\ \A e : Count(todo', Emits(e)) = Count(todo, Emits(e))
      /\ \A e, l : l \notin Users => Count(todo', CallsTo(e, l)) = Count(todo, CallsTo(e, l))
      /\ \A s \in Streams : Args(todo', CallsTo("update", s)) = Args(todo, CallsTo("update", s))
      /\ Settling' /\ Reporting' /\ Truthful' /\ Orderly'
  BY Heard
<1>3. /\ listeners' \in [Events -> Seq(Callees)]
      /\ \A f \in Events :
           /\ listeners'[f] \in Seq(Listening(f))
           /\ \A m \in Callees : Count(listeners'[f], {m}) <= 1
      /\ \A f \in Events : \A m : m \notin Users => Count(listeners'[f], {m}) = Count(listeners[f], {m})
  <2>1. CASE UNCHANGED listeners
    BY <1>1, <2>1 DEF Typed
  <2>2. CASE listeners' = Without(event, user)
    <3>1. /\ listeners' \in [Events -> Seq(Callees)]
          /\ \A f \in Events :
               /\ listeners'[f] \in Seq(Listening(f))
               /\ \A m \in Callees : Count(listeners'[f], {m}) <= 1
          /\ \A f \in Events : \A m :
               f # event \/ m # user => Count(listeners'[f], {m}) = Count(listeners[f], {m})
      <4> HIDE DEF event, user
      <4> QED
        BY <1>1, <1>2, <2>2, LeaveFacts
    <3>2. \A m : m \notin Users => m # user
      BY <1>1
    <3> QED
      BY <3>1, <3>2
  <2> QED
    BY <2>1, <2>2
<1>4. Typed'
  BY <1>1, <1>2, <1>3 DEF Typed
<1>5. Tracing'
  <2>1. Tracer \notin Users /\ ClientEvents \subseteq Events
    BY ObserversAssumption DEF Events
  <2> QED
    BY <1>1, <1>2, <1>3, <2>1, TracingKept
<1>6. Watching'
  <2>1. \A s \in Streams : s \notin Users
    BY ObserversAssumption
  <2>2. "update" \in Events
    BY DEF Events, TicketEvents
  <2> QED
    BY <1>1, <1>2, <1>3, <2>1, <2>2, WatchingKept
<1> QED
  BY <1>2, <1>4, <1>5, <1>6 DEF IInv

(* A listener that stops the tracing.  What it is called for may be the    *)
(* request, with the tracer next: then a span will be opened for nobody.   *)
LEMMA UserStops ==
  ASSUME IInv, Called(Users), Then(<<>>), UNCHANGED <<ticket, stream, client>>,
         tracer.active, StopTracing, hist' = [hist EXCEPT !.stoppedAhead = TracerIsNext]
  PROVE  IInv'
<1>1. /\ Typed /\ Tracing /\ Watching /\ todo \in Seq(Jobs) /\ hist \in Histories
  BY DEF IInv, Typed
<1>2. /\ hist' \in Histories /\ hist'.emitted = hist.emitted
      /\ hist'.dones = hist.dones /\ hist'.ends = hist.ends /\ hist'.reentered = hist.reentered
      /\ hist'.stoppedAhead = TracerIsNext /\ hist'.orphaned = hist.orphaned
  <2>1. TracerIsNext \in BOOLEAN
    BY DEF TracerIsNext
  <2> QED
    BY <1>1, <2>1 DEF Histories
<1>3. /\ todo' \in Seq(Jobs)
      /\ \A W : Count(todo, W) \in Nat /\ Count(todo', W) \in Nat
      /\ \A e : Count(todo', Emits(e)) = Count(todo, Emits(e))
      /\ \A e, l : l \notin Users => Count(todo', CallsTo(e, l)) = Count(todo, CallsTo(e, l))
      /\ \A s \in Streams : Args(todo', CallsTo("update", s)) = Args(todo, CallsTo("update", s))
      /\ Settling' /\ Reporting' /\ Truthful' /\ Orderly'
  BY <1>2, Heard
<1>4. /\ listeners' \in [Events -> Seq(Callees)]
      /\ \A f \in Events :
           /\ listeners'[f] \in Seq(Listening(f))
           /\ \A m \in Callees : Count(listeners'[f], {m}) <= 1
      /\ \A f \in ClientEvents : Count(listeners'[f], {Tracer}) = 0
      /\ listeners'["update"] = listeners["update"]
      /\ tracer' \in Tracers /\ tracer'.active = FALSE /\ tracer'.span = "none"
      /\ tracer'.started = tracer.started /\ tracer'.ended <= tracer'.started
  BY <1>1, StopFacts
<1>5. Typed'
  BY <1>1, <1>2, <1>3, <1>4 DEF Typed
<1>6. Count(todo', CallsTo("request", Tracer)) > 0 => hist'.stoppedAhead
  <2>1. SUFFICES ASSUME Count(todo', CallsTo("request", Tracer)) > 0
                 PROVE  TracerIsNext
    BY <1>2
  <2>2. Count(todo, CallsTo("request", Tracer)) # 0
    BY <1>3, <2>1, ObserversAssumption
  <2>3. PICK i \in DOMAIN todo : todo[i] \in CallsTo("request", Tracer)
    BY <1>1, <2>2, CountType DEF At
  <2> QED
    BY <2>3 DEF TracerIsNext, CallsTo
<1>7. Tracing'
  <2>1. /\ tracer.started + Opening <= IF client.pc = "new" THEN 0 ELSE 1
        /\ Opening > 0 => client.pc = "first"
        /\ Closing > 0 => client.pc = "over"
        /\ client.attempt = "due" => client.pc \in {"first", "loop"}
        /\ ~hist.orphaned
    BY <1>1 DEF Tracing
  <2>2. Opening' = Opening /\ Closing' = Closing
    BY <1>3, ObserversAssumption DEF Opening, Closing
  <2>3. tracer'.ended + (IF tracer'.span = "open" THEN 1 ELSE 0) <= tracer'.started
    <3>1. tracer'.ended \in Nat /\ tracer'.started \in Nat /\ tracer'.span = "none"
      BY <1>4 DEF Tracers
    <3> QED
      BY <1>4, <3>1
  <2> QED
    BY <1>2, <1>4, <1>6, <2>1, <2>2, <2>3 DEF Tracing
<1>8. Watching'
  <2>1. \A s \in Streams : s \notin Users
    BY ObserversAssumption
  <2> QED
    BY <1>1, <1>2, <1>3, <1>4, <2>1, WatchingKept
<1> QED
  BY <1>3, <1>5, <1>7, <1>8 DEF IInv

(* A listener that cancels or closes: what is left to do comes after that. *)
LEMMA UserCancels ==
  ASSUME IInv, Called(Users), ticket.state \notin Terminal,
         UNCHANGED <<ticket, stream, client, listeners, tracer>>,
         NEW more \in {<<Cancelling>>, <<Cleanup, Cancelling>>}, Then(more),
         hist' = [hist EXCEPT !.reentered = @ \/ Head(todo).of = "update"]
  PROVE  IInv'
<1>1. /\ Typed /\ Settling /\ Reporting /\ Tracing /\ Watching /\ Truthful /\ Orderly
      /\ todo \in Seq(Jobs) /\ todo # <<>> /\ Head(todo).what = "call" /\ Head(todo).to \in Users
      /\ hist \in Histories
  BY DEF IInv, Typed, Called, AtHand, Idle
<1>2. more \in Seq(Jobs) /\ Quiet(more) /\ Count(more, Cleanups) \in Nat
  <2>1. CASE more = <<Cancelling>>
    BY <2>1, QuietWork, Zenon, CountType
  <2>2. CASE more = <<Cleanup, Cancelling>>
    BY <2>2, QuietWork, Zenon, CountType
  <2> QED
    BY <2>1, <2>2
<1>3. /\ todo' \in Seq(Jobs)
      /\ \A W : Count(todo, W) \in Nat /\ Count(todo', W) \in Nat
      /\ \A e : /\ Count(todo', Emits(e)) = Count(todo, Emits(e))
                /\ Count(todo', Measures(e)) = Count(todo, Measures(e))
      /\ Count(todo', Cleanups) = Count(more, Cleanups) + Count(todo, Cleanups)
      /\ \A S : Count(todo', Resolves(S)) = Count(todo, Resolves(S))
      /\ \A e, l : l \notin Users => Count(todo', CallsTo(e, l)) = Count(todo, CallsTo(e, l))
      /\ \A s \in Streams : Args(todo', CallsTo("update", s)) = Args(todo, CallsTo("update", s))
      /\ \A x : x \in Args(todo', Updates) => x \in Args(todo, Updates)
      /\ Head(todo).of # "update" => Count(todo', UpdateCalls) = Count(todo, UpdateCalls)
  BY <1>1, <1>2, Answered
<1>4. /\ hist' \in Histories /\ hist'.emitted = hist.emitted
      /\ hist'.dones = hist.dones /\ hist'.ends = hist.ends
      /\ hist.reentered => hist'.reentered
      /\ Head(todo).of = "update" => hist'.reentered
      /\ hist'.stoppedAhead = hist.stoppedAhead /\ hist'.orphaned = hist.orphaned
  <2> DEFINE r == hist.reentered \/ Head(todo).of = "update"
  <2>1. r \in BOOLEAN /\ hist' = [hist EXCEPT !.reentered = r]
    BY <1>1 DEF Histories
  <2>2. /\ hist' \in Histories /\ hist'.emitted = hist.emitted
        /\ hist'.dones = hist.dones /\ hist'.ends = hist.ends /\ hist'.reentered = r
        /\ hist'.stoppedAhead = hist.stoppedAhead /\ hist'.orphaned = hist.orphaned
    <3> HIDE DEF r
    <3> QED
      BY <1>1, <2>1 DEF Histories
  <2> QED
    BY <2>2
<1>5. Typed'
  BY <1>1, <1>3, <1>4 DEF Typed
<1>6. Settling' /\ Truthful'
  BY <1>1, <1>3, <1>4, SettlingKept, TruthfulKept
<1>7. Reporting'
  <2>1. /\ Count(todo, Cleanups) \in Nat /\ Count(todo, Emits("request")) \in Nat
        /\ Count(todo, Measures("request")) \in Nat
    BY <1>3
  <2>2. Count(todo', Cleanups) >= Count(todo, Cleanups) /\ Count(todo', Cleanups) \in Nat
    BY <1>2, <1>3, <2>1
  <2>3. /\ Count(todo', Emits("request")) = Count(todo, Emits("request"))
        /\ Count(todo', Measures("request")) = Count(todo, Measures("request"))
    BY <1>3
  <2>4. Count(todo, Cleanups) + Count(todo, Emits("request")) + Count(todo, Measures("request")) > 0 =>
          Count(todo', Cleanups) + Count(todo', Emits("request")) + Count(todo', Measures("request")) > 0
    BY <2>1, <2>2, <2>3
  <2> QED
    BY <1>1, <1>3, <1>4, <2>4 DEF Reporting
<1>8. Tracing'
  BY <1>1, <1>3, <1>4, ObserversAssumption, TracingKept
<1>9. Watching'
  <2>1. \A s \in Streams : s \notin Users
    BY ObserversAssumption
  <2> QED
    BY <1>1, <1>3, <1>4, <2>1, WatchingKept
<1>10. Orderly'
  <2>1. CASE Head(todo).of = "update"
    BY <1>3, <1>4, <2>1, OrderlyWithout
  <2>2. CASE Head(todo).of # "update"
    <3>1. ~hist.reentered => Count(todo, UpdateCalls) = 0
      BY <1>1, <2>2, NoneDelivered
    <3> QED
      BY <1>3, <1>4, <2>2, <3>1, OrderlyWithout
  <2> QED
    BY <2>1, <2>2
<1> QED
  BY <1>5, <1>6, <1>7, <1>8, <1>9, <1>10 DEF IInv

(* Whatever a listener of the caller's does, the promises stand.           *)
LEMMA CallUserKeeps ==
  ASSUME IInv, CallUser
  PROVE  IInv'
<1>1. Called(Users) /\ UNCHANGED <<ticket, stream, client>>
  BY DEF CallUser
<1>2. CASE Then(<<>>) /\ UNCHANGED <<listeners, tracer, hist>>
  BY <1>1, <1>2, UserReturns
<1>3. CASE Throw /\ UNCHANGED <<listeners, tracer, hist>>
  BY <1>1, <1>3, UserReturns DEF Throw
<1>4. CASE /\ ticket.state \notin Terminal
           /\ Then(<<Cancelling>>) \/ Then(<<Cleanup, Cancelling>>)
           /\ hist' = [hist EXCEPT !.reentered = @ \/ Head(todo).of = "update"]
           /\ UNCHANGED <<listeners, tracer>>
  <2>1. PICK more \in {<<Cancelling>>, <<Cleanup, Cancelling>>} : Then(more)
    BY <1>4
  <2> QED
    BY <1>1, <1>4, <2>1, UserCancels
<1>5. CASE /\ listeners' = Without(Head(todo).of, Head(todo).to)
           /\ Then(<<>>)
           /\ UNCHANGED <<tracer, hist>>
  BY <1>1, <1>5, UserReturns
<1>6. CASE /\ tracer.active /\ StopTracing
           /\ hist' = [hist EXCEPT !.stoppedAhead = TracerIsNext]
           /\ Then(<<>>)
  BY <1>1, <1>6, UserStops
<1> QED
  BY <1>2, <1>3, <1>4, <1>5, <1>6 DEF CallUser

-----------------------------------------------------------------------------
(* The request's own code and who cancels *)

\* Work of which no update, promise or listener hears yet.
Plain(work) ==
  /\ \A e \in TicketEvents : Count(work, Emits(e)) = 0
  /\ \A e : Count(work, Measures(e)) = 0
  /\ \A S : Count(work, Resolves(S)) = 0
  /\ \A e, l : Count(work, CallsTo(e, l)) = 0
  /\ Count(work, UpdateCalls) = 0 /\ Count(work, Updates) = 0

\* What the request's own code leaves to be done, by kind.
Brings(work, requests, retries, ends, cleanups) ==
  /\ work \in Seq(Jobs) /\ Plain(work)
  /\ Count(work, Emits("request")) = requests /\ Count(work, Emits("retry")) = retries
  /\ Count(work, Emits("end")) = ends /\ Count(work, Cleanups) = cleanups

(* Where nothing is under way there is nothing of any kind.                *)
LEMMA IdleFacts ==
  ASSUME Idle
  PROVE  \A W : Count(todo, W) = 0 /\ Args(todo, W) = {} /\ At(todo, W) = {}
BY CountNone DEF Idle, Args

(* A mark, a cleanup and an event of the request: each is plain.           *)
LEMMA PlainPiece ==
  ASSUME NEW w \in Jobs, w.what \in {"mark", "cleanup"} \/ (w.what = "emit" /\ w.of \in ClientEvents)
  PROVE  /\ \A e \in TicketEvents : Tally(w, Emits(e)) = 0
         /\ \A e : Tally(w, Measures(e)) = 0
         /\ \A S : Tally(w, Resolves(S)) = 0
         /\ \A e, l : Tally(w, CallsTo(e, l)) = 0
         /\ Tally(w, UpdateCalls) = 0 /\ Tally(w, Updates) = 0
         /\ \A e : Tally(w, Emits(e)) = IF w.what = "emit" /\ w.of = e THEN 1 ELSE 0
         /\ Tally(w, Cleanups) = IF w.what = "cleanup" THEN 1 ELSE 0
<1>1. w.what = "emit" => w.of # "update" /\ \A e \in TicketEvents : w.of # e
  BY DEF ClientEvents, TicketEvents
<1> QED
  BY <1>1, Sorts

(* The ends of a request: reported, marked and cleaned up after, in the    *)
(* order of the exit that is taken.                                        *)
LEMMA EndingWork ==
  ASSUME NEW a \in Terminal
  PROVE  /\ Brings(<<Emit("end", a), Mark(a), Cleanup>>, 0, 0, 1, 1)
         /\ Brings(<<Cleanup, Emit("end", a), Mark(a)>>, 0, 0, 1, 1)
         /\ Brings(<<Mark(a), Emit("end", a), Cleanup>>, 0, 0, 1, 1)
<1> DEFINE x == Emit("end", a)
           y == Mark(a)
           z == Cleanup
<1>1. /\ x \in Jobs /\ x.what = "emit" /\ x.of = "end"
      /\ y \in Jobs /\ y.what = "mark" /\ z \in Jobs /\ z.what = "cleanup"
  <2>1. a \in States /\ "end" \in Events
    BY StateFacts DEF Events, ClientEvents
  <2> QED
    BY <2>1, Constructors
<1> HIDE DEF x, y, z
<1>2. \A w \in {x, y, z} :
        /\ \A e \in TicketEvents : Tally(w, Emits(e)) = 0
        /\ \A e : Tally(w, Measures(e)) = 0
        /\ \A S : Tally(w, Resolves(S)) = 0
        /\ \A e, l : Tally(w, CallsTo(e, l)) = 0
        /\ Tally(w, UpdateCalls) = 0 /\ Tally(w, Updates) = 0
        /\ Tally(w, Emits("request")) = 0 /\ Tally(w, Emits("retry")) = 0
  BY <1>1, PlainPiece DEF ClientEvents
<1>3. /\ Tally(x, Emits("end")) = 1 /\ Tally(y, Emits("end")) = 0 /\ Tally(z, Emits("end")) = 0
      /\ Tally(x, Cleanups) = 0 /\ Tally(y, Cleanups) = 0 /\ Tally(z, Cleanups) = 1
  BY <1>1, PlainPiece DEF ClientEvents
<1>4. ASSUME NEW b \in {x, y, z}, NEW c \in {x, y, z}, NEW d \in {x, y, z},
             Tally(b, Emits("end")) + Tally(c, Emits("end")) + Tally(d, Emits("end")) = 1,
             Tally(b, Cleanups) + Tally(c, Cleanups) + Tally(d, Cleanups) = 1
      PROVE  Brings(<<b, c, d>>, 0, 0, 1, 1)
  <2> DEFINE work == <<b, c, d>>
  <2>1. b \in Jobs /\ c \in Jobs /\ d \in Jobs
    BY <1>1
  <2>2. work \in Seq(Jobs) /\ \A W : Count(work, W) = Tally(b, W) + Tally(c, W) + Tally(d, W)
    BY <2>1, CountTriple
  <2> HIDE DEF work
  <2>3. /\ \A e \in TicketEvents : Count(work, Emits(e)) = 0
        /\ \A e : Count(work, Measures(e)) = 0
        /\ \A S : Count(work, Resolves(S)) = 0
        /\ \A e, l : Count(work, CallsTo(e, l)) = 0
        /\ Count(work, UpdateCalls) = 0 /\ Count(work, Updates) = 0
        /\ Count(work, Emits("request")) = 0 /\ Count(work, Emits("retry")) = 0
    BY <1>2, <2>2
  <2>4. Count(work, Emits("end")) = 1 /\ Count(work, Cleanups) = 1
    BY <1>4, <2>2
  <2> QED
    BY <2>2, <2>3, <2>4 DEF Brings, Plain, work
<1>5. Brings(<<x, y, z>>, 0, 0, 1, 1) /\ Brings(<<z, x, y>>, 0, 0, 1, 1) /\ Brings(<<y, x, z>>, 0, 0, 1, 1)
  BY <1>3, <1>4
<1> QED
  BY <1>5 DEF x, y, z

(* The other turns of a request, and those of who cancels or closes.       *)
LEMMA TurnWork ==
  /\ Brings(<<Emit("request", Pending)>>, 1, 0, 0, 0)
  /\ Brings(<<Mark(Queued)>>, 0, 0, 0, 0)
  /\ Brings(<<Cleanup>>, 0, 0, 0, 1)
  /\ Brings(<<Cancelling>>, 0, 0, 0, 0)
  /\ Brings(<<Cleanup, Cancelling>>, 0, 0, 0, 1)
  /\ \A n \in 1..MaxRetries : Brings(<<Emit("retry", Retrying(n)), Mark(Retrying(n))>>, 0, 1, 0, 0)
<1>1. ASSUME NEW w \in Jobs,
             w.what \in {"mark", "cleanup"} \/ (w.what = "emit" /\ w.of \in ClientEvents)
      PROVE  Brings(<<w>>, IF w.what = "emit" /\ w.of = "request" THEN 1 ELSE 0,
                           IF w.what = "emit" /\ w.of = "retry" THEN 1 ELSE 0,
                           IF w.what = "emit" /\ w.of = "end" THEN 1 ELSE 0,
                           IF w.what = "cleanup" THEN 1 ELSE 0)
  <2> DEFINE work == <<w>>
  <2>1. work \in Seq(Jobs)
    OBVIOUS
  <2>2. \A W : Count(work, W) = Tally(w, W)
    BY CountOne DEF Tally
  <2> HIDE DEF work
  <2> QED
    BY <1>1, <2>1, <2>2, PlainPiece DEF Brings, Plain, work
<1>2. Brings(<<Emit("request", Pending)>>, 1, 0, 0, 0)
  <2> DEFINE w == Emit("request", Pending)
  <2>1. w \in Jobs /\ w.what = "emit" /\ w.of = "request" /\ w.of \in ClientEvents
    BY Constructors, StateFacts DEF Events, ClientEvents
  <2> HIDE DEF w
  <2>2. Brings(<<w>>, 1, 0, 0, 0)
    BY <1>1, <2>1
  <2> QED
    BY <2>2 DEF w
<1>3. ASSUME NEW a \in States
      PROVE  Brings(<<Mark(a)>>, 0, 0, 0, 0)
  <2> DEFINE w == Mark(a)
  <2>1. w \in Jobs /\ w.what = "mark"
    BY Constructors
  <2> HIDE DEF w
  <2>2. Brings(<<w>>, 0, 0, 0, 0)
    BY <1>1, <2>1
  <2> QED
    BY <2>2 DEF w
<1>4. Brings(<<Cleanup>>, 0, 0, 0, 1)
  <2> DEFINE w == Cleanup
  <2>1. w \in Jobs /\ w.what = "cleanup"
    BY Constructors
  <2> HIDE DEF w
  <2>2. Brings(<<w>>, 0, 0, 0, 1)
    BY <1>1, <2>1
  <2> QED
    BY <2>2 DEF w
<1>5. Brings(<<Cleanup, Cancelling>>, 0, 0, 0, 1)
  <2> DEFINE work == <<Cleanup, Cancelling>>
  <2>1. work \in Seq(Jobs) /\ Quiet(work) /\ Count(work, Cleanups) = 1
    BY QuietWork
  <2> HIDE DEF work
  <2>2. Brings(work, 0, 0, 0, 1)
    BY <2>1 DEF Quiet, Brings, Plain
  <2> QED
    BY <2>2 DEF work
<1>6. ASSUME NEW n \in 1..MaxRetries
      PROVE  Brings(<<Emit("retry", Retrying(n)), Mark(Retrying(n))>>, 0, 1, 0, 0)
  <2> DEFINE v == Emit("retry", Retrying(n))
             w == Mark(Retrying(n))
             work == <<v, w>>
  <2>1. /\ v \in Jobs /\ v.what = "emit" /\ v.of = "retry" /\ v.of \in ClientEvents
        /\ w \in Jobs /\ w.what = "mark"
    <3>1. Retrying(n) \in States /\ "retry" \in Events /\ "retry" \in ClientEvents
      BY StateFacts DEF Events, ClientEvents
    <3> QED
      BY <3>1, Constructors
  <2> HIDE DEF v, w
  <2>2. work \in Seq(Jobs) /\ \A W : Count(work, W) = Tally(v, W) + Tally(w, W)
    BY <2>1, CountPair
  <2> HIDE DEF work
  <2>3. \A u \in {v, w} :
          /\ \A e \in TicketEvents : Tally(u, Emits(e)) = 0
          /\ \A e : Tally(u, Measures(e)) = 0
          /\ \A S : Tally(u, Resolves(S)) = 0
          /\ \A e, l : Tally(u, CallsTo(e, l)) = 0
          /\ Tally(u, UpdateCalls) = 0 /\ Tally(u, Updates) = 0
          /\ Tally(u, Emits("request")) = 0 /\ Tally(u, Emits("end")) = 0 /\ Tally(u, Cleanups) = 0
    BY <2>1, PlainPiece
  <2>4. Tally(v, Emits("retry")) = 1 /\ Tally(w, Emits("retry")) = 0
    BY <2>1, PlainPiece
  <2>5. /\ \A e \in TicketEvents : Count(work, Emits(e)) = 0
        /\ \A e : Count(work, Measures(e)) = 0
        /\ \A S : Count(work, Resolves(S)) = 0
        /\ \A e, l : Count(work, CallsTo(e, l)) = 0
        /\ Count(work, UpdateCalls) = 0 /\ Count(work, Updates) = 0
        /\ Count(work, Emits("request")) = 0 /\ Count(work, Emits("end")) = 0
        /\ Count(work, Cleanups) = 0
    BY <2>2, <2>3
  <2>6. Count(work, Emits("retry")) = 1
    BY <2>2, <2>4
  <2>7. Brings(work, 0, 1, 0, 0)
    BY <2>2, <2>5, <2>6 DEF Brings, Plain
  <2> QED
    BY <2>7 DEF v, w, work
<1> QED
  BY <1>2, <1>3, <1>4, <1>5, <1>6, StateFacts DEF Cancelling

(* A turn of asynchronous code, which nothing else is in the middle of.    *)
LEMMA Onset ==
  ASSUME IInv, Idle, UNCHANGED <<ticket, listeners, stream, tracer, hist>>,
         todo' \in Seq(Jobs), NEW work, todo' = work, Plain(work), client' \in Clients
  PROVE  Typed' /\ Settling' /\ Watching' /\ Truthful' /\ Orderly'
<1>1. /\ Typed /\ Settling /\ Watching /\ Truthful
      /\ \A W : Count(todo, W) = 0 /\ Args(todo, W) = {}
  BY IdleFacts DEF IInv
<1>2. /\ \A e \in TicketEvents : Count(todo', Emits(e)) = 0
      /\ \A S : Count(todo', Resolves(S)) = 0
      /\ \A e, l : Count(todo', CallsTo(e, l)) = 0
      /\ Count(todo', UpdateCalls) = 0 /\ Count(todo', Updates) = 0
  BY DEF Plain
<1>3. Typed'
  BY <1>1 DEF Typed
<1>4. Settling'
  <2>1. "done" \in TicketEvents
    BY DEF TicketEvents
  <2>2. /\ Count(todo', Emits("done")) = Count(todo, Emits("done"))
        /\ \A S : Count(todo', Resolves(S)) = Count(todo, Resolves(S))
    BY <1>1, <1>2, <2>1
  <2> QED
    BY <1>1, <2>2, SettlingKept
<1>5. Watching'
  <2>1. "update" \in TicketEvents
    BY DEF TicketEvents
  <2>2. Count(todo', Emits("update")) = Count(todo, Emits("update"))
    BY <1>1, <1>2, <2>1
  <2>3. \A l : /\ Count(todo', CallsTo("update", l)) = Count(todo, CallsTo("update", l))
               /\ Args(todo', CallsTo("update", l)) = Args(todo, CallsTo("update", l))
    <3>1. \A l : Args(todo', CallsTo("update", l)) = {}
      BY <1>2, Absent
    <3> QED
      BY <1>1, <1>2, <3>1
  <2> QED
    BY <1>1, <2>2, <2>3, WatchingKept
<1>6. Truthful' /\ Orderly'
  <2>1. Args(todo', Updates) = {}
    BY <1>2, Absent
  <2> QED
    BY <1>1, <1>2, <2>1, TruthfulKept, OrderlyWithout
<1> QED
  BY <1>3, <1>4, <1>5, <1>6

(* What such a turn leaves to be measured is what it has counted.          *)
LEMMA OnsetReports ==
  ASSUME IInv, Idle, UNCHANGED hist, client' \in Clients, client'.measured = client.measured,
         NEW requests \in 0..1, NEW retries \in 0..1, NEW ends \in 0..1, NEW cleanups \in 0..1,
         NEW work, todo' = work, Brings(work, requests, retries, ends, cleanups),
         client'.retries = client.retries + retries,
         ends = 1 => client.pc # "over" /\ client'.pc = "over",
         client.pc = "over" => client'.pc = "over",
         client'.gauge = client'.inflight
           \/ (client'.inflight = 1 /\ (cleanups = 1 \/ requests = 1))
  PROVE  Reporting'
<1>1. /\ client \in Clients /\ hist.ends \in Nat
      /\ \A W : Count(todo, W) = 0
  BY IdleFacts DEF IInv, Typed, Histories
<1>2. /\ client.measured["retry"] = client.retries /\ client.measured["end"] = hist.ends
      /\ hist.ends <= (IF client.pc = "over" THEN 1 ELSE 0)
  <2>1. client.measured["retry"] \in Nat /\ client.measured["end"] \in Nat
    BY <1>1 DEF Clients, ClientEvents
  <2> QED
    BY <1>1, <2>1 DEF IInv, Reporting
<1>3. /\ client.measured["retry"] \in Nat /\ client.measured["end"] \in Nat /\ client.retries \in Nat
  BY <1>1 DEF Clients, ClientEvents
<1>4. /\ Count(todo', Emits("request")) = requests /\ Count(todo', Emits("retry")) = retries
      /\ Count(todo', Emits("end")) = ends /\ Count(todo', Cleanups) = cleanups
      /\ \A e : Count(todo', Measures(e)) = 0
  BY DEF Brings, Plain
<1>5. client'.measured["retry"] + Count(todo', Emits("retry")) + Count(todo', Measures("retry"))
        = client'.retries
  BY <1>2, <1>3, <1>4
<1>6. client'.measured["end"] + Count(todo', Measures("end")) = hist'.ends
  BY <1>2, <1>3, <1>4
<1>7. hist'.ends + Count(todo', Emits("end")) <= IF client'.pc = "over" THEN 1 ELSE 0
  <2>1. CASE ends = 1
    BY <1>1, <1>2, <1>4, <2>1
  <2>2. CASE ends = 0
    BY <1>1, <1>2, <1>4, <2>2
  <2> QED
    BY <2>1, <2>2
<1>8. client'.gauge # client'.inflight =>
        /\ client'.inflight = 1
        /\ Count(todo', Cleanups) + Count(todo', Emits("request")) + Count(todo', Measures("request")) > 0
  BY <1>4
<1> QED
  BY <1>5, <1>6, <1>7, <1>8 DEF Reporting

(* A turn of a request that has been announced opens and closes no span.   *)
LEMMA OnsetTraces ==
  ASSUME IInv, Idle, UNCHANGED <<listeners, tracer, hist>>,
         client.pc # "new", client' \in Clients, client'.pc # "new",
         client'.pc \in {"first", "loop"} => client.pc \in {"first", "loop"},
         client'.attempt = "due" => client'.pc \in {"first", "loop"},
         NEW work, todo' = work, Plain(work), Count(work, Emits("request")) = 0
  PROVE  Tracing'
<1>1. /\ Tracing /\ tracer \in Tracers /\ hist.ends \in Nat /\ \A W : Count(todo, W) = 0
  BY IdleFacts DEF IInv, Typed, Histories
<1>2. /\ Opening = 0 /\ Closing = 0 /\ Opening' = 0 /\ Closing' = 0
      /\ Count(todo', CallsTo("request", Tracer)) = 0
  BY <1>1 DEF Opening, Closing, Plain
<1>3. /\ \A e \in ClientEvents : Count(listeners[e], {Tracer}) = IF tracer.active THEN 1 ELSE 0
      /\ tracer.started <= 1
      /\ tracer.ended + (IF tracer.span = "open" THEN 1 ELSE 0) <= tracer.started
      /\ tracer.span = "open" /\ ~hist.stoppedAhead => tracer.active /\ hist.ends = 0
      /\ tracer.active /\ client.pc \in {"first", "loop"} => tracer.span = "open"
      /\ ~hist.orphaned
  <2>1. tracer.started \in Nat /\ client.pc # "new"
    BY <1>1 DEF Tracers
  <2>2. /\ tracer.started + Opening <= IF client.pc = "new" THEN 0 ELSE 1
        /\ tracer.span = "open" /\ ~hist.stoppedAhead => tracer.active /\ (hist.ends = 0 \/ Closing > 0)
        /\ tracer.active /\ client.pc \in {"first", "loop"} => tracer.span = "open" \/ Opening > 0
    BY <1>1 DEF Tracing
  <2>3. /\ tracer.started <= 1
        /\ tracer.span = "open" /\ ~hist.stoppedAhead => tracer.active /\ hist.ends = 0
        /\ tracer.active /\ client.pc \in {"first", "loop"} => tracer.span = "open"
    BY <1>2, <2>1, <2>2
  <2> QED
    BY <1>1, <2>3 DEF Tracing
<1>4. tracer'.started + Opening' <= IF client'.pc = "new" THEN 0 ELSE 1
  <2>1. tracer.started \in Nat
    BY <1>1 DEF Tracers
  <2> QED
    BY <1>2, <1>3, <2>1
<1> QED
  BY <1>2, <1>3, <1>4 DEF Tracing

(* The request is announced, or refused before that.                       *)
LEMMA RequestKeeps ==
  ASSUME IInv, Request
  PROVE  IInv'
<1> DEFINE refused == <<Cancelling, Emit("end", Gone), Cleanup>>
           failed == <<Emit("end", Failed), Mark(Failed), Cleanup>>
           begun == <<Emit("request", Pending)>>
<1>1. /\ Typed /\ Reporting /\ Tracing /\ Idle /\ client.pc = "new" /\ client \in Clients
      /\ UNCHANGED <<ticket, listeners, stream, tracer, hist>>
      /\ \A W : Count(todo, W) = 0
  BY IdleFacts DEF IInv, Request, Typed
<1>2. /\ Brings(refused, 0, 0, 1, 1) /\ Brings(failed, 0, 0, 1, 1) /\ Brings(begun, 1, 0, 0, 0)
  BY EndingWork, TurnWork, StateFacts DEF Cancelling
<1>3. \/ /\ todo' = refused \/ todo' = failed
         /\ client' = [client EXCEPT !.pc = "over", !.inflight = 1, !.attempt = "none"]
      \/ /\ todo' = begun
         /\ client' = [client EXCEPT !.pc = "first", !.inflight = 1, !.attempt = "due"]
  <2>1. PICK way \in {<<"over", refused>>, <<"over", failed>>, <<"first", begun>>} :
          /\ client' = [client EXCEPT !.pc = way[1], !.inflight = 1,
                                      !.attempt = IF way[1] = "first" THEN "due" ELSE "none"]
          /\ todo' = way[2]
    BY DEF Request
  <2> HIDE DEF refused, failed, begun
  <2>2. CASE way = <<"over", refused>>
    BY <2>1, <2>2
  <2>3. CASE way = <<"over", failed>>
    BY <2>1, <2>3
  <2>4. CASE way = <<"first", begun>>
    BY <2>1, <2>4
  <2> QED
    BY <2>1, <2>2, <2>3, <2>4
<1> HIDE DEF refused, failed, begun
<1>4. PICK requests, ends, work :
        /\ requests \in 0..1 /\ ends \in 0..1
        /\ todo' = work /\ Brings(work, requests, 0, ends, ends)
        /\ requests + ends = 1
        /\ client'.pc = IF ends = 1 THEN "over" ELSE "first"
        /\ client'.attempt = IF ends = 1 THEN "none" ELSE "due"
        /\ client' \in Clients /\ client'.measured = client.measured
        /\ client'.retries = client.retries + 0 /\ client'.inflight = 1
  <2>1. CASE /\ todo' = refused \/ todo' = failed
             /\ client' = [client EXCEPT !.pc = "over", !.inflight = 1, !.attempt = "none"]
    <3>1. Brings(todo', 0, 0, 1, 1)
      BY <1>2, <2>1
    <3>2. /\ client'.pc = "over" /\ client'.attempt = "none" /\ client' \in Clients
          /\ client'.measured = client.measured /\ client'.retries = client.retries
          /\ client'.inflight = 1
      BY <1>1, <2>1 DEF Clients
    <3>3. client'.retries = client.retries + 0
      <4>1. client.retries \in Nat
        BY <1>1, ObserversAssumption DEF Clients
      <4> QED
        BY <3>2, <4>1
    <3> QED
      BY <3>1, <3>2, <3>3
  <2>2. CASE /\ todo' = begun
             /\ client' = [client EXCEPT !.pc = "first", !.inflight = 1, !.attempt = "due"]
    <3>1. Brings(todo', 1, 0, 0, 0)
      BY <1>2, <2>2
    <3>2. /\ client'.pc = "first" /\ client'.attempt = "due" /\ client' \in Clients
          /\ client'.measured = client.measured /\ client'.retries = client.retries
          /\ client'.inflight = 1
      BY <1>1, <2>2 DEF Clients
    <3>3. client'.retries = client.retries + 0
      <4>1. client.retries \in Nat
        BY <1>1, ObserversAssumption DEF Clients
      <4> QED
        BY <3>2, <4>1
    <3> QED
      BY <3>1, <3>2, <3>3
  <2> QED
    BY <1>3, <2>1, <2>2
<1>5. /\ todo' \in Seq(Jobs) /\ Plain(work) /\ Count(work, Emits("request")) = requests
  BY <1>4 DEF Brings
<1>6. Typed' /\ Settling' /\ Watching' /\ Truthful' /\ Orderly'
  BY <1>1, <1>4, <1>5, Onset
<1>7. Reporting'
  <2>1. requests = 1 \/ ends = 1
    BY <1>4
  <2>2. /\ ends = 1 => client.pc # "over" /\ client'.pc = "over"
        /\ client.pc = "over" => client'.pc = "over"
        /\ client'.gauge = client'.inflight \/ (client'.inflight = 1 /\ (ends = 1 \/ requests = 1))
    BY <1>1, <1>4, <2>1
  <2>3. 0 \in 0..1 /\ UNCHANGED hist
    BY <1>1
  <2> QED
    BY <1>1, <1>4, <2>2, <2>3, OnsetReports
<1>8. Tracing'
  <2>1. /\ tracer \in Tracers /\ tracer.started \in Nat /\ tracer.ended \in Nat
        /\ hist.ends \in Nat
    BY <1>1 DEF Typed, Tracers, Histories
  <2>2. /\ Opening = 0 /\ Closing' = 0 /\ Opening' = requests
        /\ Count(todo', CallsTo("request", Tracer)) = 0
    BY <1>1, <1>4, <1>5 DEF Opening, Closing, Plain
  <2>3. /\ \A e \in ClientEvents : Count(listeners[e], {Tracer}) = IF tracer.active THEN 1 ELSE 0
        /\ tracer.started = 0 /\ tracer.ended = 0 /\ tracer.span # "open" /\ ~hist.orphaned
    BY <1>1, <2>1, <2>2 DEF Tracing
  <2>4. /\ tracer'.started + Opening' <= IF client'.pc = "new" THEN 0 ELSE 1
        /\ tracer'.ended + (IF tracer'.span = "open" THEN 1 ELSE 0) <= tracer'.started
        /\ Opening' > 0 => client'.pc = "first"
        /\ client'.pc \in {"first", "loop"} => Opening' > 0
        /\ client'.attempt = "due" => client'.pc \in {"first", "loop"}
    BY <1>1, <1>4, <2>2, <2>3
  <2> QED
    BY <1>1, <2>2, <2>3, <2>4 DEF Tracing
<1> QED
  BY <1>6, <1>7, <1>8 DEF IInv

(* Whoever's turn it is once the request has been made.                    *)
LEMMA TurnKeeps ==
  ASSUME IInv, NEW pc \in {"first", "loop", "over"}, NEW ends \in 0..1, NEW cleanups \in 0..1,
         NEW work, Brings(work, 0, 0, ends, cleanups), Turn(pc, work),
         client.pc # "new", ends = 1 => client.pc # "over" /\ pc = "over",
         client.pc = "over" => pc = "over"
  PROVE  IInv'
<1>1. /\ Typed /\ Reporting /\ Tracing /\ Idle /\ client \in Clients
      /\ UNCHANGED <<ticket, listeners, stream, tracer, hist>>
      /\ todo' = work /\ \A W : Count(todo, W) = 0
  BY IdleFacts DEF IInv, Turn, Typed
<1>2. /\ todo' \in Seq(Jobs) /\ Plain(work) /\ Count(work, Emits("request")) = 0
  BY <1>1 DEF Brings
<1>3. /\ client' \in Clients /\ client'.pc = pc
      /\ client'.attempt = IF pc = client.pc THEN client.attempt ELSE "none"
      /\ client'.measured = client.measured /\ client'.retries = client.retries
      /\ client'.inflight = client.inflight /\ client'.gauge = client.gauge
  <2> DEFINE attempt == IF pc = client.pc THEN client.attempt ELSE "none"
  <2>1. /\ attempt \in {"none", "due", "begun"}
        /\ client' = [client EXCEPT !.pc = pc, !.attempt = attempt]
    BY <1>1 DEF Turn, Clients
  <2>2. /\ client' \in Clients /\ client'.pc = pc /\ client'.attempt = attempt
        /\ client'.measured = client.measured /\ client'.retries = client.retries
        /\ client'.inflight = client.inflight /\ client'.gauge = client.gauge
    <3> HIDE DEF attempt
    <3> QED
      BY <1>1, <2>1 DEF Clients
  <2> QED
    BY <2>2
<1>4. Typed' /\ Settling' /\ Watching' /\ Truthful' /\ Orderly'
  BY <1>1, <1>2, <1>3, Onset
<1>5. Reporting'
  <2>1. client.gauge = client.inflight
    BY <1>1 DEF Reporting
  <2>2. client'.retries = client.retries + 0 /\ 0 \in 0..1
    <3>1. client.retries \in Nat
      BY <1>1 DEF Clients
    <3> QED
      BY <1>3, <3>1
  <2>3. /\ ends = 1 => client.pc # "over" /\ client'.pc = "over"
        /\ client.pc = "over" => client'.pc = "over"
        /\ client'.gauge = client'.inflight
    BY <1>3, <2>1
  <2> QED
    BY <1>1, <1>3, <2>2, <2>3, OnsetReports
<1>6. Tracing'
  <2>1. client.attempt = "due" => client.pc \in {"first", "loop"}
    BY <1>1 DEF Tracing
  <2>2. client.pc \in {"first", "loop", "over"}
    BY <1>1 DEF Clients
  <2> QED
    BY <1>1, <1>2, <1>3, <2>1, <2>2, OnsetTraces
<1> QED
  BY <1>4, <1>5, <1>6 DEF IInv

(* The first attempt.                                                      *)
LEMMA FirstAttemptKeeps ==
  ASSUME IInv, FirstAttempt
  PROVE  IInv'
<1>1. client.pc = "first"
  BY DEF FirstAttempt
<1>2. ASSUME NEW ending \in Endings, Turn("over", <<Emit("end", ending), Mark(ending), Cleanup>>)
      PROVE  IInv'
  <2> DEFINE work == <<Emit("end", ending), Mark(ending), Cleanup>>
  <2>1. ending \in Terminal
    BY StateFacts DEF Endings
  <2>2. Brings(work, 0, 0, 1, 1) /\ Turn("over", work)
    BY <1>2, <2>1, EndingWork
  <2> HIDE DEF work
  <2> QED
    BY <1>1, <2>2, TurnKeeps
<1>3. ASSUME Turn("over", <<Cleanup>>)
      PROVE  IInv'
  <2> DEFINE work == <<Cleanup>>
  <2>1. Brings(work, 0, 0, 0, 1) /\ Turn("over", work)
    BY <1>3, TurnWork
  <2> HIDE DEF work
  <2> QED
    BY <1>1, <2>1, TurnKeeps
<1>4. ASSUME Turn("loop", <<Mark(Queued)>>)
      PROVE  IInv'
  <2> DEFINE work == <<Mark(Queued)>>
  <2>1. Brings(work, 0, 0, 0, 0) /\ Turn("loop", work)
    BY <1>4, TurnWork
  <2> HIDE DEF work
  <2> QED
    BY <1>1, <2>1, TurnKeeps
<1> QED
  BY <1>2, <1>3, <1>4 DEF FirstAttempt

(* A retry, or the end of the loop.                                        *)
LEMMA RetryLoopKeeps ==
  ASSUME IInv, RetryLoop
  PROVE  IInv'
<1>1. client.pc = "loop"
  BY DEF RetryLoop
<1>2. CASE /\ Idle /\ client.retries < MaxRetries /\ ticket.state # Gone
           /\ client.attempt # "due"
           /\ client' = [client EXCEPT !.retries = @ + 1, !.attempt = "due"]
           /\ LET retrying == Retrying(client.retries + 1)
              IN todo' = <<Emit("retry", retrying), Mark(retrying)>>
           /\ UNCHANGED <<ticket, listeners, stream, tracer, hist>>
  <2> DEFINE n == client.retries + 1
             work == <<Emit("retry", Retrying(n)), Mark(Retrying(n))>>
  <2>1. /\ client \in Clients /\ client.retries \in Nat /\ n \in 1..MaxRetries /\ n \in 0..MaxRetries
    <3>1. client \in Clients
      BY DEF IInv, Typed
    <3>2. client.retries \in Nat
      BY <3>1, ObserversAssumption DEF Clients
    <3> QED
      BY <1>2, <3>1, <3>2, ObserversAssumption
  <2>2. client' = [client EXCEPT !.retries = n, !.attempt = "due"] /\ todo' = work
    BY <1>2
  <2>3. Brings(work, 0, 1, 0, 0)
    BY <2>1, TurnWork
  <2> HIDE DEF work, n
  <2>4. /\ client' \in Clients /\ client'.pc = "loop" /\ client'.attempt = "due"
        /\ client'.retries = n
        /\ client'.measured = client.measured
        /\ client'.inflight = client.inflight /\ client'.gauge = client.gauge
    BY <1>1, <2>1, <2>2 DEF Clients
  <2>5. /\ todo' \in Seq(Jobs) /\ Plain(work) /\ Count(work, Emits("request")) = 0
    BY <2>2, <2>3 DEF Brings
  <2>6. Typed' /\ Settling' /\ Watching' /\ Truthful' /\ Orderly'
    BY <1>2, <2>2, <2>4, <2>5, Onset
  <2>7. client'.retries = client.retries + 1
    BY <2>4 DEF n
  <2>8. client.gauge = client.inflight
    BY <1>2, IdleFacts DEF IInv, Reporting
  <2>9. Reporting'
    <3>1. 0 \in 0..1 /\ 1 \in 0..1 /\ client'.gauge = client'.inflight
      BY <2>4, <2>8
    <3> QED
      BY <1>1, <1>2, <2>2, <2>3, <2>4, <2>7, <3>1, OnsetReports
  <2>10. Tracing'
    BY <1>1, <1>2, <2>2, <2>4, <2>5, OnsetTraces
  <2> QED
    BY <2>6, <2>9, <2>10 DEF IInv
<1>3. ASSUME NEW ending \in Endings, Turn("over", <<Cleanup, Emit("end", ending), Mark(ending)>>)
      PROVE  IInv'
  <2> DEFINE work == <<Cleanup, Emit("end", ending), Mark(ending)>>
  <2>1. ending \in Terminal
    BY StateFacts DEF Endings
  <2>2. Brings(work, 0, 0, 1, 1) /\ Turn("over", work)
    BY <1>3, <2>1, EndingWork
  <2> HIDE DEF work
  <2> QED
    BY <1>1, <2>2, TurnKeeps
<1> QED
  BY <1>2, <1>3 DEF RetryLoop

(* Who cancels or closes from outside.                                     *)
LEMMA CancelKeeps ==
  ASSUME IInv, Cancel
  PROVE  IInv'
<1>1. client.pc \in {"first", "loop", "over"} /\ client.pc # "new"
  BY DEF Cancel, IInv, Typed, Clients
<1>2. ASSUME Turn(client.pc, <<Cancelling>>)
      PROVE  IInv'
  <2> DEFINE work == <<Cancelling>>
  <2>1. Brings(work, 0, 0, 0, 0) /\ Turn(client.pc, work)
    BY <1>2, TurnWork
  <2> HIDE DEF work
  <2> QED
    BY <1>1, <2>1, TurnKeeps
<1>3. ASSUME Turn(client.pc, <<Cleanup, Cancelling>>)
      PROVE  IInv'
  <2> DEFINE work == <<Cleanup, Cancelling>>
  <2>1. Brings(work, 0, 0, 0, 1) /\ Turn(client.pc, work)
    BY <1>3, TurnWork
  <2> HIDE DEF work
  <2> QED
    BY <1>1, <2>1, TurnKeeps
<1> QED
  BY <1>2, <1>3 DEF Cancel

(* The attempt's span has its parent: the request's is open.               *)
LEMMA AttemptBeginsKeeps ==
  ASSUME IInv, AttemptBegins
  PROVE  IInv'
<1>1. /\ Idle /\ client.attempt = "due" /\ client \in Clients /\ hist \in Histories
      /\ client' = [client EXCEPT !.attempt = "begun"]
      /\ hist' = [hist EXCEPT !.orphaned = @ \/ (tracer.active /\ tracer.span = "none")]
      /\ UNCHANGED <<ticket, todo, listeners, stream, tracer>>
      /\ Tracing
  BY DEF AttemptBegins, IInv, Typed
<1>2. \A W : Count(todo, W) = 0
  BY <1>1, IdleFacts
<1>3. client.pc \in {"first", "loop"} /\ ~hist.orphaned /\ ~(tracer.active /\ tracer.span = "none")
  <2>1. Opening = 0
    BY <1>2 DEF Opening
  <2> QED
    BY <1>1, <2>1 DEF Tracing
<1>4. UNCHANGED hist
  <2> DEFINE o == hist.orphaned \/ (tracer.active /\ tracer.span = "none")
  <2>1. o = FALSE /\ hist.orphaned = FALSE
    BY <1>1, <1>3 DEF Histories
  <2>2. hist' = [hist EXCEPT !.orphaned = o]
    BY <1>1
  <2> HIDE DEF o
  <2>3. hist' = [hist EXCEPT !.orphaned = hist.orphaned]
    BY <2>1, <2>2
  <2> QED
    BY <1>1, <2>3, Zenon DEF Histories
<1>5. /\ client' \in Clients /\ client'.pc = client.pc /\ client'.attempt = "begun"
      /\ client'.measured = client.measured /\ client'.retries = client.retries
      /\ client'.inflight = client.inflight /\ client'.gauge = client.gauge
  BY <1>1 DEF Clients
<1> DEFINE work == <<>>
<1>6. Brings(work, 0, 0, 0, 0) /\ todo' = work
  BY <1>1, QuietWork DEF Brings, Plain, Quiet, Idle
<1> HIDE DEF work
<1>7. /\ todo' \in Seq(Jobs) /\ Plain(work) /\ Count(work, Emits("request")) = 0
  BY <1>6 DEF Brings
<1>8. Typed' /\ Settling' /\ Watching' /\ Truthful' /\ Orderly'
  BY <1>1, <1>4, <1>5, <1>6, <1>7, Onset
<1>9. Reporting'
  <2>1. client.gauge = client.inflight
    BY <1>2 DEF IInv, Reporting
  <2>2. 0 \in 0..1 /\ client'.gauge = client'.inflight
    BY <1>5, <2>1
  <2>3. client'.retries = client.retries + 0
    <3>1. client.retries \in Nat
      BY <1>1, ObserversAssumption DEF Clients
    <3> QED
      BY <1>5, <3>1
  <2> QED
    BY <1>1, <1>4, <1>5, <1>6, <2>2, <2>3, OnsetReports
<1>10. Tracing'
  BY <1>1, <1>3, <1>4, <1>5, <1>6, <1>7, OnsetTraces
<1> QED
  BY <1>8, <1>9, <1>10 DEF IInv

-----------------------------------------------------------------------------
(* Who comes and goes *)

(* What a change of listeners alone leaves as it is.                       *)
LEMMA Unmoved ==
  ASSUME IInv, UNCHANGED <<ticket, todo, client, hist>>
  PROVE  Settling' /\ Reporting' /\ Truthful' /\ Orderly'
<1>1. Settling /\ Reporting /\ Truthful /\ Orderly
  BY DEF IInv
<1>2. Settling' /\ Reporting'
  BY <1>1, SettlingKept, ReportingKept
<1>3. Truthful' /\ Orderly'
  BY <1>1 DEF Truthful, Orderly
<1> QED
  BY <1>2, <1>3

(* instrumentTracing's stop, from outside.                                 *)
LEMMA StopKeeps ==
  ASSUME IInv, Stop
  PROVE  IInv'
<1>1. /\ Typed /\ Tracing /\ Watching /\ Idle /\ StopTracing
      /\ UNCHANGED <<ticket, todo, stream, client, hist>>
  BY DEF Stop, IInv
<1>2. \A W : Count(todo, W) = 0
  BY <1>1, IdleFacts
<1>3. /\ listeners' \in [Events -> Seq(Callees)]
      /\ \A f \in Events :
           /\ listeners'[f] \in Seq(Listening(f))
           /\ \A m \in Callees : Count(listeners'[f], {m}) <= 1
      /\ \A f \in ClientEvents : Count(listeners'[f], {Tracer}) = 0
      /\ listeners'["update"] = listeners["update"]
      /\ tracer' \in Tracers /\ tracer'.active = FALSE /\ tracer'.span = "none"
      /\ tracer'.started = tracer.started /\ tracer'.ended <= tracer'.started
  BY <1>1, StopFacts
<1>4. Typed'
  BY <1>1, <1>3 DEF Typed
<1>5. Tracing'
  <2>1. /\ tracer.started + Opening <= IF client.pc = "new" THEN 0 ELSE 1
        /\ Opening > 0 => client.pc = "first"
        /\ Closing > 0 => client.pc = "over"
        /\ client.attempt = "due" => client.pc \in {"first", "loop"}
        /\ ~hist.orphaned
    BY <1>1 DEF Tracing
  <2>2. Opening' = Opening /\ Closing' = Closing
    BY <1>1 DEF Opening, Closing
  <2>3. tracer'.ended + (IF tracer'.span = "open" THEN 1 ELSE 0) <= tracer'.started
    <3>1. tracer'.ended \in Nat /\ tracer'.started \in Nat /\ tracer'.span = "none"
      BY <1>3 DEF Tracers
    <3> QED
      BY <1>3, <3>1
  <2>4. ~(Count(todo', CallsTo("request", Tracer)) > 0)
    BY <1>1, <1>2
  <2> QED
    BY <1>1, <1>3, <2>1, <2>2, <2>3, <2>4 DEF Tracing
<1>6. Watching'
  BY <1>1, <1>3, WatchingKept
<1> QED
  BY <1>1, <1>4, <1>5, <1>6, Unmoved DEF IInv

\* Emitter.on, for an event and who listens for it.
Joined(e, l) == [listeners EXCEPT ![e] = Append(@, l)]

(* Emitter.on: who was not registered is, once.                            *)
LEMMA JoinFacts ==
  ASSUME Typed, NEW e \in Events, NEW l \in Callees, l \in Listening(e),
         Count(listeners[e], {l}) = 0, listeners' = Joined(e, l)
  PROVE  /\ listeners' \in [Events -> Seq(Callees)]
         /\ \A f \in Events :
              /\ listeners'[f] \in Seq(Listening(f))
              /\ \A m \in Callees : Count(listeners'[f], {m}) <= 1
         /\ Count(listeners'[e], {l}) = 1
         /\ \A f \in Events : \A m :
              f # e \/ m # l => Count(listeners'[f], {m}) = Count(listeners[f], {m})
<1>1. /\ listeners \in [Events -> Seq(Callees)]
      /\ \A f \in Events : /\ listeners[f] \in Seq(Listening(f))
                           /\ \A m \in Callees : Count(listeners[f], {m}) <= 1
  BY DEF Typed
<1> DEFINE t == listeners[e]
<1>2. /\ listeners'[e] = Append(t, l)
      /\ \A f \in Events : f # e => listeners'[f] = listeners[f]
      /\ t \in Seq(Callees) /\ t \in Seq(Listening(e))
  BY <1>1 DEF Joined
<1>3. \A m \in Callees : Count(t, {m}) <= 1
  BY <1>1
<1>4. Count(t, {l}) = 0
  OBVIOUS
<1> HIDE DEF t
<1>5. Append(t, l) \in Seq(Callees) /\ Append(t, l) \in Seq(Listening(e))
  BY <1>2, AppendProperties
<1>6. ASSUME NEW m
      PROVE  /\ m = l => Count(Append(t, l), {m}) = 1
             /\ m # l => Count(Append(t, l), {m}) = Count(t, {m})
  <2>1. Count(Append(t, l), {m}) = Count(t, {m}) + Tally(l, {m})
    BY <1>2, CountAppend
  <2>2. Count(t, {m}) \in Nat
    BY <1>2, CountType
  <2>3. (m = l => Tally(l, {m}) = 1) /\ (m # l => Tally(l, {m}) = 0)
    BY DEF Tally
  <2>4. m = l => Count(t, {m}) = 0
    BY <1>4
  <2> HIDE DEF Tally
  <2> QED
    BY <2>1, <2>2, <2>3, <2>4
<1>7. listeners' \in [Events -> Seq(Callees)]
  <2>1. \A f \in Events : listeners'[f] \in Seq(Callees)
    BY <1>1, <1>2, <1>5
  <2> QED
    BY <1>1, <2>1 DEF Joined
<1>8. ASSUME NEW f \in Events
      PROVE  /\ listeners'[f] \in Seq(Listening(f))
             /\ \A m \in Callees : Count(listeners'[f], {m}) <= 1
             /\ \A m : f # e \/ m # l => Count(listeners'[f], {m}) = Count(listeners[f], {m})
  <2>1. CASE f = e
    <3>1. listeners'[f] = Append(t, l) /\ listeners[f] = t
      BY <1>2, <2>1 DEF t
    <3>2. ASSUME NEW m \in Callees
          PROVE  Count(Append(t, l), {m}) <= 1
      <4>1. CASE m = l
        BY <1>6, <4>1
      <4>2. CASE m # l
        BY <1>3, <1>6, <4>2
      <4> QED
        BY <4>1, <4>2
    <3> QED
      BY <1>5, <1>6, <2>1, <3>1, <3>2
  <2>2. CASE f # e
    <3>1. listeners'[f] = listeners[f]
      BY <1>2, <2>2
    <3> QED
      BY <1>1, <3>1
  <2> QED
    BY <2>1, <2>2
<1> QED
  BY <1>2, <1>6, <1>7, <1>8

(* A listener that comes hears of what is emitted from then on.            *)
LEMMA OnKeeps ==
  ASSUME IInv, NEW u \in Users, NEW event \in Events, On(u, event)
  PROVE  IInv'
<1>1. /\ Typed /\ Tracing /\ Watching
      /\ <<u, event>> \notin Registered
      /\ listeners' = Joined(event, u)
      /\ UNCHANGED <<ticket, todo, stream, client, tracer, hist>>
  BY DEF On, IInv, Joined
<1>2. u \in Callees /\ u \in Listening(event) /\ u # Tracer /\ u \notin Streams
  BY ObserversAssumption DEF Callees, Listening
<1>3. Count(listeners[event], {u}) = 0
  <2>1. listeners[event] \in Seq(Callees)
    BY <1>1 DEF Typed
  <2>2. ~Contains(listeners[event], u)
    BY <1>1, Zenon DEF Registered
  <2>3. At(listeners[event], {u}) = {}
    BY <2>1, <2>2 DEF At, Contains
  <2> QED
    BY <2>1, <2>3, CountType
<1>4. /\ listeners' \in [Events -> Seq(Callees)]
      /\ \A f \in Events :
           /\ listeners'[f] \in Seq(Listening(f))
           /\ \A m \in Callees : Count(listeners'[f], {m}) <= 1
      /\ \A f \in Events : \A m :
           f # event \/ m # u => Count(listeners'[f], {m}) = Count(listeners[f], {m})
  BY <1>1, <1>2, <1>3, JoinFacts
<1>5. Typed'
  BY <1>1, <1>4 DEF Typed
<1>6. Tracing'
  <2>1. ClientEvents \subseteq Events
    BY DEF Events
  <2> QED
    BY <1>1, <1>2, <1>4, <2>1, TracingKept
<1>7. Watching'
  <2>1. "update" \in Events /\ \A s \in Streams : s # u
    BY <1>2 DEF Events, TicketEvents
  <2> QED
    BY <1>1, <1>4, <2>1, WatchingKept
<1> QED
  BY <1>1, <1>5, <1>6, <1>7, Unmoved DEF IInv

-----------------------------------------------------------------------------
(* subscribe() *)

(* One update taken from those that wait: the same were seen.              *)
LEMMA TakeOne ==
  ASSUME NEW S, NEW g \in Seq(S), NEW q \in Seq(S), q # <<>>
  PROVE  /\ Append(g, Head(q)) \in Seq(S) /\ Tail(q) \in Seq(S)
         /\ Append(g, Head(q)) \o Tail(q) = g \o q
<1> DEFINE one == <<Head(q)>>
           rest == Tail(q)
<1>1. /\ one \in Seq(S) /\ rest \in Seq(S) /\ Head(q) \in S /\ q = one \o rest
      /\ Append(g, Head(q)) = g \o one /\ Append(g, Head(q)) \in Seq(S)
  BY HeadAndTail, AppendIsConcat, AppendProperties
<1> HIDE DEF one, rest
<1>2. one \in Seq(S) /\ rest \in Seq(S)
  BY <1>1
<1>3. (g \o one) \o rest = g \o (one \o rest)
  BY <1>2, ConcatAssociative
<1> QED
  BY <1>1, <1>3 DEF rest

(* The generator's loop loses no update, and ends with nothing left.       *)
LEMMA ContinueIs ==
  ASSUME NEW g \in Generators
  PROVE  LET next == Continue(g)
         IN /\ next \in Generators
            /\ next.got \o next.updates = g.got \o g.updates
            /\ next.isDone = g.isDone /\ next.from = g.from /\ next.left = g.left
            /\ next.pc \in {"waiting", "yielded", "finished"}
            /\ next.pc = "finished" => g.isDone /\ next.updates = <<>>
<1>1. g.got \in Seq(States) /\ g.updates \in Seq(States)
  BY DEF Generators
<1>2. CASE g.isDone /\ g.updates = <<>>
  BY <1>2 DEF Generators, Continue
<1>3. CASE g.updates # <<>>
  <2> DEFINE got == Append(g.got, Head(g.updates))
             rest == Tail(g.updates)
  <2>1. got \in Seq(States) /\ rest \in Seq(States) /\ got \o rest = g.got \o g.updates
    BY <1>1, <1>3, TakeOne
  <2>2. Continue(g) = [g EXCEPT !.pc = "yielded", !.got = got, !.updates = rest]
    BY <1>3 DEF Continue, Generators
  <2> HIDE DEF got, rest
  <2> QED
    BY <2>1, <2>2 DEF Generators
<1>4. CASE ~g.isDone /\ g.updates = <<>>
  BY <1>4 DEF Generators, Continue
<1> QED
  BY <1>2, <1>3, <1>4 DEF Generators

(* The other streams do not notice.                                        *)
LEMMA OthersWatched ==
  ASSUME Watching, UNCHANGED <<ticket, todo, hist>>, NEW s \in Streams,
         stream \in [Streams -> Generators], NEW next, stream' = [stream EXCEPT ![s] = next],
         \A r \in Streams : r # s => Count(listeners'["update"], {r}) = Count(listeners["update"], {r}),
         Watched(s)'
  PROVE  Watching'
<1> SUFFICES ASSUME NEW r \in Streams, r # s
             PROVE  Watched(r)'
  BY DEF Watching
<1>1. /\ stream'[r] = stream[r] /\ Due(r)' = Due(r) /\ Seen(r)' = Seen(r)
      /\ Coming(r)' = Coming(r) /\ Follows(r)' = Follows(r)
  BY DEF Due, Seen, Coming, Follows
<1>2. Watched(r)
  BY DEF Watching
<1> QED
  BY <1>1, <1>2 DEF Watched

(* One who subscribes is owed what is emitted from then on; one who comes  *)
(* late has the ending.                                                    *)
LEMMA SubscribeKeeps ==
  ASSUME IInv, NEW s \in Streams, Subscribe(s)
  PROVE  IInv'
<1>1. /\ Typed /\ Tracing /\ Watching /\ Watched(s) /\ Idle /\ stream[s].pc = "new"
      /\ stream \in [Streams -> Generators] /\ stream[s] \in Generators
      /\ UNCHANGED <<ticket, todo, client, tracer, hist>>
      /\ ticket.state \in States /\ hist.emitted \in Seq(States)
  BY DEF Subscribe, IInv, Typed, Watching, Histories
<1>2. \A W : Count(todo, W) = 0 /\ Args(todo, W) = {}
  BY <1>1, IdleFacts
<1>3. /\ Seen(s) = <<>> /\ Count(listeners["update"], {s}) = 0 /\ stream[s].isDone = FALSE
      /\ stream[s].from <= Len(hist.emitted)
      /\ stream[s].got = <<>> /\ stream[s].updates = <<>>
  <2>1. /\ Seen(s) = <<>> /\ Count(listeners["update"], {s}) = 0
        /\ stream[s].from <= Len(hist.emitted)
        /\ stream[s].isDone <=> stream[s].pc # "late" /\ ToSet(Seen(s)) \cap Terminal # {}
    BY <1>1 DEF Watched
  <2>2. ToSet(Seen(s)) = {}
    BY <2>1 DEF ToSet
  <2>3. stream[s].isDone = FALSE
    BY <1>1, <2>1, <2>2 DEF Generators
  <2>4. stream[s].got \in Seq(States) /\ stream[s].updates \in Seq(States)
    BY <1>1 DEF Generators
  <2>5. stream[s].got = <<>> /\ stream[s].updates = <<>>
    BY <2>1, <2>4, ConcatEmptySeq, ConcatProperties DEF Seen
  <2> QED
    BY <2>1, <2>3, <2>5
<1>4. s \in Callees /\ s \in Listening("update") /\ s # Tracer /\ "update" \in Events
  BY ObserversAssumption DEF Callees, Listening, Events, TicketEvents
<1>5. CASE ticket.state \in Terminal
  <2> DEFINE next == [stream[s] EXCEPT !.pc = "late", !.got = <<ticket.state>>]
  <2>1. stream' = [stream EXCEPT ![s] = next] /\ UNCHANGED listeners
    <3>1. stream' = [stream EXCEPT ![s].pc = "late", ![s].got = <<ticket.state>>] /\ UNCHANGED listeners
      BY <1>5 DEF Subscribe
    <3> QED
      BY <1>1, <3>1
  <2>2. next \in Generators /\ next.pc = "late" /\ next.isDone = FALSE /\ next.from = stream[s].from
    <3> DEFINE got == <<ticket.state>>
    <3>1. got \in Seq(States) /\ next = [stream[s] EXCEPT !.pc = "late", !.got = got]
      BY <1>1
    <3> HIDE DEF got, next
    <3> QED
      BY <1>1, <1>3, <3>1 DEF Generators
  <2> HIDE DEF next
  <2>3. stream' \in [Streams -> Generators] /\ stream'[s] = next
    BY <1>1, <2>1, <2>2
  <2>4. Watched(s)'
    <3>1. Coming(s)' = {} /\ Count(listeners'["update"], {s}) = 0 /\ ~Follows(s)'
      BY <1>1, <1>2, <1>3, <2>1, <2>2, <2>3 DEF Coming, Follows
    <3> QED
      BY <1>1, <1>3, <2>2, <2>3, <3>1 DEF Watched
  <2>5. Watching'
    BY <1>1, <2>1, <2>4, OthersWatched
  <2>6. Typed'
    BY <1>1, <2>1, <2>3 DEF Typed
  <2>7. Tracing'
    BY <1>1, <2>1, TracingKept
  <2> QED
    BY <1>1, <2>5, <2>6, <2>7, Unmoved DEF IInv
<1>6. CASE ticket.state \notin Terminal
  <2> DEFINE g == [stream[s] EXCEPT !.from = Len(hist.emitted)]
             next == Continue(g)
  <2>1. stream' = [stream EXCEPT ![s] = next] /\ listeners' = Joined("update", s)
    BY <1>6 DEF Subscribe, Joined
  <2>2. /\ g \in Generators /\ g.isDone = FALSE /\ g.from = Len(hist.emitted)
        /\ g.got = <<>> /\ g.updates = <<>> /\ Len(hist.emitted) \in Nat
    <3>1. Len(hist.emitted) \in Nat
      BY <1>1, LenProperties
    <3> QED
      BY <1>1, <1>3, <3>1 DEF Generators
  <2> HIDE DEF g
  <2>3. /\ next \in Generators /\ next.got \o next.updates = g.got \o g.updates
        /\ next.isDone = g.isDone /\ next.from = g.from
        /\ next.pc \in {"waiting", "yielded", "finished"}
        /\ next.pc = "finished" => g.isDone
    BY <2>2, ContinueIs
  <2> HIDE DEF next
  <2>4. next.pc \in {"waiting", "yielded"} /\ next.isDone = FALSE /\ next.got \o next.updates = <<>>
    <3>1. <<>> \o <<>> = <<>>
      OBVIOUS
    <3> QED
      BY <2>2, <2>3, <3>1
  <2>5. stream' \in [Streams -> Generators] /\ stream'[s] = next
    BY <1>1, <2>1, <2>3
  <2>6. /\ listeners' \in [Events -> Seq(Callees)]
        /\ \A f \in Events :
             /\ listeners'[f] \in Seq(Listening(f))
             /\ \A m \in Callees : Count(listeners'[f], {m}) <= 1
        /\ Count(listeners'["update"], {s}) = 1
        /\ \A f \in Events : \A m :
             f # "update" \/ m # s => Count(listeners'[f], {m}) = Count(listeners[f], {m})
    BY <1>1, <1>3, <1>4, <2>1, JoinFacts
  <2>7. Watched(s)'
    <3>1. Coming(s)' = {} /\ Seen(s)' = <<>> /\ stream'[s].from = Len(hist'.emitted)
      BY <1>1, <1>2, <2>2, <2>3, <2>4, <2>5 DEF Coming, Seen
    <3>2. Due(s)' = <<>>
      <4> DEFINE k == Len(hist.emitted)
      <4>1. /\ SubSeq(hist.emitted, k + 1, k) = <<>>
        BY <1>1, <2>2, SubSeqProperties
      <4> QED
        BY <1>1, <3>1, <4>1 DEF Due, Since
    <3>3. ToSet(<<>>) = {} /\ Len(<<>>) = 0
      BY DEF ToSet
    <3>4. Count(todo', CallsTo("update", s)) = 0
      BY <1>1, <1>2
    <3>5. Len(hist'.emitted) \in Nat /\ Len(Seen(s)') + Count(todo', CallsTo("update", s)) = Len(Due(s)')
      BY <1>1, <2>2, <3>1, <3>2, <3>3, <3>4
    <3>6. stream'[s].from <= Len(hist'.emitted)
      BY <3>1, <3>5
    <3>7. ToSet(Seen(s)') \cup Coming(s)' = ToSet(Due(s)') /\ Seen(s)' = Due(s)'
      BY <3>1, <3>2, <3>3
    <3>8. ToSet(Seen(s)') \cap Terminal = {}
      BY <3>1, <3>3
    <3> QED
      BY <2>4, <2>5, <2>6, <3>1, <3>5, <3>6, <3>7, <3>8 DEF Watched
  <2>8. Watching'
    BY <1>1, <1>4, <2>1, <2>6, <2>7, OthersWatched
  <2>9. Typed'
    BY <1>1, <2>5, <2>6 DEF Typed
  <2>10. Tracing'
    <3>1. ClientEvents \subseteq Events
      BY DEF Events
    <3> QED
      BY <1>1, <1>4, <2>6, <3>1, TracingKept
  <2> QED
    BY <1>1, <2>8, <2>9, <2>10, Unmoved DEF IInv
<1> QED
  BY <1>5, <1>6

(* A generator that goes on, returns or is left has seen what it had.      *)
LEMMA OnwardKeeps ==
  ASSUME IInv, Idle, NEW s \in Streams, stream[s].pc \in {"waiting", "yielded"},
         NEW next \in Generators, Onward(s, next),
         next.got \o next.updates = Seen(s), next.isDone = stream[s].isDone,
         next.from = stream[s].from, next.pc \in {"waiting", "yielded", "finished"},
         next.pc = "finished" /\ ~next.left => next.isDone /\ next.updates = <<>>
  PROVE  IInv'
<1>1. /\ Typed /\ Tracing /\ Watching /\ Watched(s)
      /\ stream \in [Streams -> Generators]
      /\ stream' = [stream EXCEPT ![s] = next]
      /\ listeners' = IF next.pc = "finished" THEN Without("update", s) ELSE listeners
      /\ UNCHANGED <<ticket, todo, client, tracer, hist>>
  BY DEF Onward, IInv, Typed, Watching
<1>2. \A W : Count(todo, W) = 0 /\ Args(todo, W) = {}
  BY IdleFacts
<1>3. stream' \in [Streams -> Generators] /\ stream'[s] = next
  BY <1>1
<1>4. s \in Callees /\ s # Tracer /\ "update" \in Events
  BY ObserversAssumption DEF Callees, Events, TicketEvents
<1>5. /\ listeners' \in [Events -> Seq(Callees)]
      /\ \A f \in Events :
           /\ listeners'[f] \in Seq(Listening(f))
           /\ \A m \in Callees : Count(listeners'[f], {m}) <= 1
      /\ \A f \in Events : \A m :
           f # "update" \/ m # s => Count(listeners'[f], {m}) = Count(listeners[f], {m})
      /\ Count(listeners'["update"], {s}) = IF next.pc \in {"waiting", "yielded"} THEN 1 ELSE 0
  <2>1. CASE next.pc = "finished"
    <3>1. listeners' = Without("update", s)
      BY <1>1, <2>1
    <3>2. /\ listeners' \in [Events -> Seq(Callees)]
          /\ \A f \in Events :
               /\ listeners'[f] \in Seq(Listening(f))
               /\ \A m \in Callees : Count(listeners'[f], {m}) <= 1
          /\ Count(listeners'["update"], {s}) = 0
          /\ \A f \in Events : \A m :
               f # "update" \/ m # s => Count(listeners'[f], {m}) = Count(listeners[f], {m})
      BY <1>1, <1>4, <3>1, LeaveFacts
    <3> QED
      BY <2>1, <3>2
  <2>2. CASE next.pc # "finished"
    <3>1. listeners' = listeners /\ Count(listeners["update"], {s}) = 1
      BY <1>1, <2>2 DEF Watched
    <3> QED
      BY <1>1, <2>2, <3>1 DEF Typed
  <2> QED
    BY <2>1, <2>2
<1>6. Watched(s)'
  <2>1. /\ Coming(s) = {} /\ Coming(s)' = {} /\ Seen(s)' = Seen(s) /\ Due(s)' = Due(s)
        /\ Count(todo', CallsTo("update", s)) = Count(todo, CallsTo("update", s))
        /\ Count(todo', Emits("update")) = 0
    BY <1>1, <1>2, <1>3 DEF Coming, Seen, Due
  <2>2. /\ stream[s].isDone <=> ToSet(Seen(s)) \cap Terminal # {}
        /\ stream[s].isDone => ticket.state \in Terminal
        /\ stream[s].from <= Len(hist.emitted)
        /\ Len(Seen(s)) + Count(todo, CallsTo("update", s)) = Len(Due(s))
        /\ ToSet(Seen(s)) \cup Coming(s) = ToSet(Due(s))
        /\ ~hist.reentered => Seen(s) = Due(s)
    BY <1>1, <2>1 DEF Watched, Follows
  <2>3. Follows(s)' => ~(next.pc = "finished") \/ ~next.left
    BY <1>3 DEF Follows
  <2> QED
    BY <1>1, <1>3, <1>5, <2>1, <2>2, <2>3 DEF Watched
<1>7. Watching'
  BY <1>1, <1>4, <1>5, <1>6, OthersWatched
<1>8. Typed'
  BY <1>1, <1>3, <1>5 DEF Typed
<1>9. Tracing'
  <2>1. ClientEvents \subseteq Events
    BY DEF Events
  <2> QED
    BY <1>1, <1>4, <1>5, <2>1, TracingKept
<1> QED
  BY <1>1, <1>7, <1>8, <1>9, Unmoved DEF IInv

(* The consumer asks, is woken, or breaks out of its loop.                 *)
LEMMA ConsumerKeeps ==
  ASSUME IInv, NEW s \in Streams, Ask(s) \/ Wake(s) \/ Leave(s)
  PROVE  IInv'
<1>1. /\ Idle /\ stream[s].pc \in {"waiting", "yielded"} /\ stream[s] \in Generators
  BY DEF Ask, Wake, Leave, IInv, Typed
<1>2. CASE Onward(s, Continue(stream[s]))
  <2> DEFINE next == Continue(stream[s])
  <2>1. /\ next \in Generators /\ next.got \o next.updates = Seen(s)
        /\ next.isDone = stream[s].isDone /\ next.from = stream[s].from
        /\ next.pc \in {"waiting", "yielded", "finished"}
        /\ next.pc = "finished" => next.isDone /\ next.updates = <<>>
        /\ Onward(s, next)
    BY <1>1, <1>2, ContinueIs DEF Seen
  <2> HIDE DEF next
  <2> QED
    BY <1>1, <2>1, OnwardKeeps
<1>3. CASE Onward(s, [stream[s] EXCEPT !.pc = "finished", !.left = TRUE])
  <2> DEFINE next == [stream[s] EXCEPT !.pc = "finished", !.left = TRUE]
  <2>1. /\ next \in Generators /\ next.got \o next.updates = Seen(s)
        /\ next.isDone = stream[s].isDone /\ next.from = stream[s].from
        /\ next.pc = "finished" /\ next.left = TRUE /\ Onward(s, next)
    BY <1>1, <1>3 DEF Seen, Generators
  <2> HIDE DEF next
  <2> QED
    BY <1>1, <2>1, OnwardKeeps
<1> QED
  BY <1>2, <1>3 DEF Ask, Wake, Leave

-----------------------------------------------------------------------------
(* The invariant *)

(* Before anything happened, nothing is owed to anyone.                    *)
LEMMA InitIInv == Init => IInv
<1> SUFFICES ASSUME Init
             PROVE  IInv
  OBVIOUS
<1>1. Idle /\ todo = <<>> /\ \A W : Count(todo, W) = 0 /\ Args(todo, W) = {} /\ At(todo, W) = {}
  BY IdleFacts DEF Init, Idle
<1>2. PICK before \in [ClientEvents -> {<<>>} \cup {<<u>> : u \in Users}] :
        listeners = [e \in Events |-> IF e \in ClientEvents THEN Append(before[e], Tracer) ELSE <<>>]
  BY DEF Init
<1>3. ASSUME NEW e \in Events
      PROVE  /\ listeners[e] \in Seq(Listening(e)) /\ listeners[e] \in Seq(Callees)
             /\ \A l \in Callees : Count(listeners[e], {l}) <= 1
             /\ e \in ClientEvents => Count(listeners[e], {Tracer}) = 1
             /\ e \notin ClientEvents => \A l : Count(listeners[e], {l}) = 0
  <2>1. CASE e \notin ClientEvents
    <3>1. listeners[e] = <<>>
      BY <1>2, <2>1
    <3> QED
      BY <2>1, <3>1, CountNone
  <2>2. CASE e \in ClientEvents
    <3> DEFINE b == before[e]
    <3>1. listeners[e] = Append(b, Tracer) /\ b \in {<<>>} \cup {<<u>> : u \in Users}
      BY <1>2, <2>2
    <3>2. Users \subseteq Listening(e) /\ Tracer \in Listening(e) /\ Tracer \notin Users
          /\ Users \subseteq Callees /\ Tracer \in Callees
      BY <2>2, ObserversAssumption DEF Listening, Callees
    <3>3. b \in Seq(Users) /\ \A l : Count(b, {l}) \in {0, 1} /\ (l \notin Users => Count(b, {l}) = 0)
      <4>1. CASE b = <<>>
        BY <4>1, CountNone
      <4>2. CASE b \in {<<u>> : u \in Users}
        <5>1. PICK u \in Users : b = <<u>>
          BY <4>2
        <5>2. b \in Seq(Users)
          BY <5>1
        <5>3. \A l : (u = l => Count(b, {l}) = 1) /\ (u # l => Count(b, {l}) = 0)
          BY <5>1, CountOne
        <5> QED
          BY <5>2, <5>3
      <4> QED
        BY <3>1, <4>1, <4>2
    <3> HIDE DEF b
    <3>4. /\ b \in Seq(Listening(e)) /\ b \in Seq(Callees)
      BY <3>2, <3>3
    <3>5. ASSUME NEW l
          PROVE  /\ l = Tracer => Count(Append(b, Tracer), {l}) = 1
                 /\ l # Tracer => Count(Append(b, Tracer), {l}) = Count(b, {l})
      <4>1. Count(Append(b, Tracer), {l}) = Count(b, {l}) + Tally(Tracer, {l})
        BY <3>2, <3>4, CountAppend
      <4>2. (l = Tracer => Tally(Tracer, {l}) = 1) /\ (l # Tracer => Tally(Tracer, {l}) = 0)
        BY DEF Tally
      <4>3. Count(b, {l}) \in Nat /\ (l = Tracer => Count(b, {l}) = 0)
        BY <3>2, <3>3
      <4> QED
        BY <4>1, <4>2, <4>3
    <3>6. Append(b, Tracer) \in Seq(Listening(e)) /\ Append(b, Tracer) \in Seq(Callees)
      BY <3>2, <3>4, AppendProperties
    <3>7. ASSUME NEW l \in Callees
          PROVE  Count(Append(b, Tracer), {l}) <= 1
      <4>1. CASE l = Tracer
        BY <3>5, <4>1
      <4>2. CASE l # Tracer
        <5>1. Count(b, {l}) \in {0, 1} /\ Count(Append(b, Tracer), {l}) = Count(b, {l})
          BY <3>3, <3>5, <4>2
        <5> QED
          BY <5>1
      <4> QED
        BY <4>1, <4>2
    <3> QED
      BY <2>2, <3>1, <3>5, <3>6, <3>7
  <2> QED
    BY <2>1, <2>2
<1>4. /\ ticket.state = Pending /\ ticket.promise = Pending /\ Pending \notin Terminal
      /\ Pending \in States
      /\ ticket \in [state : States, promise : Terminal \cup {Pending}]
  BY StateFacts DEF Init
<1>5. /\ client \in Clients /\ client.pc = "new" /\ client.retries = 0 /\ client.attempt = "none"
      /\ client.inflight = 0 /\ client.gauge = 0
      /\ client.measured["retry"] = 0 /\ client.measured["end"] = 0
  BY ObserversAssumption DEF Init, Clients, ClientEvents
<1>6. tracer \in Tracers /\ tracer.active = TRUE /\ tracer.span = "none"
      /\ tracer.started = 0 /\ tracer.ended = 0
  BY DEF Init, Tracers
<1>7. /\ hist \in Histories /\ hist.emitted = <<>> /\ hist.dones = 0 /\ hist.ends = 0
      /\ hist.orphaned = FALSE
  BY DEF Init, Histories
<1>8. /\ stream \in [Streams -> Generators]
      /\ \A s \in Streams : /\ stream[s].pc = "new" /\ stream[s].isDone = FALSE /\ stream[s].from = 0
                            /\ stream[s].got = <<>> /\ stream[s].updates = <<>>
  BY DEF Init, Generators
<1>9. Typed
  <2>1. todo \in Seq(Jobs)
    BY <1>1
  <2>2. listeners \in [Events -> Seq(Callees)]
    <3>1. \A e \in Events : listeners[e] \in Seq(Callees)
      BY <1>3
    <3> QED
      BY <1>2, <3>1
  <2> QED
    BY <1>3, <1>4, <1>5, <1>6, <1>7, <1>8, <2>1, <2>2 DEF Typed
<1>10. Settling
  BY <1>1, <1>4, <1>7 DEF Settling
<1>11. Reporting
  BY <1>1, <1>5, <1>7 DEF Reporting
<1>12. Tracing
  <2>1. Opening = 0 /\ Closing = 0
    BY <1>1 DEF Opening, Closing
  <2>2. ClientEvents \subseteq Events
    BY DEF Events
  <2>3. \A e \in ClientEvents : Count(listeners[e], {Tracer}) = IF tracer.active THEN 1 ELSE 0
    BY <1>3, <1>6, <2>2
  <2>4. /\ tracer.started + Opening <= IF client.pc = "new" THEN 0 ELSE 1
        /\ tracer.ended + (IF tracer.span = "open" THEN 1 ELSE 0) <= tracer.started
    BY <1>5, <1>6, <2>1
  <2>5. ~(Opening > 0) /\ ~(Closing > 0) /\ ~(Count(todo, CallsTo("request", Tracer)) > 0)
    BY <1>1, <2>1
  <2>6. /\ tracer.span # "open" /\ client.pc \notin {"first", "loop"}
        /\ client.attempt # "due" /\ ~hist.orphaned
    BY <1>5, <1>6, <1>7
  <2> QED
    BY <2>3, <2>4, <2>5, <2>6 DEF Tracing
<1>13. Watching
  <2> SUFFICES ASSUME NEW s \in Streams
               PROVE  Watched(s)
    BY DEF Watching
  <2>1. Coming(s) = {} /\ Seen(s) = <<>> /\ ~Follows(s)
    <3>1. <<>> \o <<>> = <<>>
      OBVIOUS
    <3> QED
      BY <1>1, <1>8, <3>1 DEF Coming, Seen, Follows
  <2>2. ToSet(<<>>) = {} /\ Len(<<>>) = 0
    BY DEF ToSet
  <2>3. Count(listeners["update"], {s}) = 0
    <3>1. "update" \in Events /\ "update" \notin ClientEvents
      BY DEF Events, TicketEvents, ClientEvents
    <3> QED
      BY <1>3, <3>1
  <2> QED
    BY <1>7, <1>8, <2>1, <2>2, <2>3 DEF Watched
<1>14. Truthful /\ Orderly
  BY <1>1 DEF Truthful, Orderly
<1> QED
  BY <1>9, <1>10, <1>11, <1>12, <1>13, <1>14 DEF IInv

(* No step breaks any of the promises.                                     *)
LEMMA NextIInv == IInv /\ [Next]_vars => IInv'
<1> SUFFICES ASSUME IInv, [Next]_vars
             PROVE  IInv'
  OBVIOUS
<1>1. CASE Run
  <2>1. ASSUME RunEmit
        PROVE  IInv'
    BY <2>1, RunEmitKeeps
  <2> QED
    BY <1>1, <2>1, RunMarkKeeps, RunResolveKeeps, RunMeasureKeeps, RunCleanupKeeps,
       CallStreamKeeps, CallTracerKeeps, CallUserKeeps DEF Run
<1>2. CASE Request \/ FirstAttempt \/ RetryLoop \/ AttemptBegins \/ Cancel \/ Stop
  BY <1>2, RequestKeeps, FirstAttemptKeeps, RetryLoopKeeps, AttemptBeginsKeeps, CancelKeeps, StopKeeps
<1>3. ASSUME NEW u \in Users, ListenToTicket(u) \/ ListenToClient(u)
      PROVE  IInv'
  BY <1>3, OnKeeps DEF ListenToTicket, ListenToClient, Events
<1>4. ASSUME NEW s \in Streams, Subscribe(s) \/ Ask(s) \/ Wake(s) \/ Leave(s)
      PROVE  IInv'
  BY <1>4, SubscribeKeeps, ConsumerKeeps
<1>5. CASE UNCHANGED vars
  <2>1. UNCHANGED <<ticket, todo, listeners, stream, client, tracer, hist>>
    BY <1>5 DEF vars
  <2>2. Settling' /\ Reporting' /\ Truthful' /\ Orderly'
    BY <2>1, Unmoved
  <2>3. Typed' /\ Tracing' /\ Watching'
    BY <2>1, TracingKept, WatchingKept DEF IInv, Typed
  <2> QED
    BY <2>2, <2>3 DEF IInv
<1> QED
  BY <1>1, <1>2, <1>3, <1>4, <1>5 DEF Next

(* The invariant holds of every run.                                       *)
LEMMA Invariance == Spec => []IInv
<1>1. Init => IInv
  BY InitIInv
<1>2. IInv /\ [Next]_vars => IInv'
  BY NextIInv
<1> QED
  BY <1>1, <1>2, PTL DEF Spec

-----------------------------------------------------------------------------
(* What follows from it *)

(* TypeOK: a stream is registered exactly while its generator is in its    *)
(* loop (subscribe's finally), and is done exactly when it was told so.    *)
THEOREM TypeCorrect == Spec => []TypeOK
<1>1. IInv => TypeOK
  <2> SUFFICES ASSUME IInv
               PROVE  TypeOK
    OBVIOUS
  <2>1. /\ ticket \in [state : States, promise : Terminal \cup {Pending}] /\ client \in Clients
        /\ stream \in [Streams -> Generators] /\ listeners \in [Events -> Seq(Callees)]
        /\ Tracing /\ Watching
    BY DEF IInv, Typed
  <2>2. ASSUME NEW s \in Streams
        PROVE  /\ stream[s].pc \in {"new", "late", "waiting", "yielded", "finished"}
               /\ stream[s].pc \in {"waiting", "yielded"} <=> Contains(listeners["update"], s)
               /\ stream[s].isDone <=> \E u \in ToSet(stream[s].got \o stream[s].updates) :
                                          u \in Terminal /\ stream[s].pc # "late"
    <3>1. Watched(s) /\ stream[s] \in Generators
      BY <2>1 DEF Watching
    <3>2. "update" \in Events
      BY DEF Events, TicketEvents
    <3>3. Count(listeners["update"], {s}) # 0 <=> Contains(listeners["update"], s)
      <4> DEFINE t == listeners["update"]
      <4>1. t \in Seq(Callees)
        BY <2>1, <3>2
      <4> HIDE DEF t
      <4>2. Contains(t, s) <=> At(t, {s}) # {}
        BY <4>1 DEF At, Contains
      <4>3. Count(t, {s}) = 0 <=> At(t, {s}) = {}
        BY <4>1, CountType
      <4> QED
        BY <4>2, <4>3 DEF t
    <3>4. stream[s].isDone <=>
            stream[s].pc # "late" /\ ToSet(stream[s].got \o stream[s].updates) \cap Terminal # {}
      BY <3>1 DEF Watched, Seen
    <3>5. stream[s].pc \in {"new", "late", "waiting", "yielded", "finished"}
      BY <3>1 DEF Generators
    <3>6. stream[s].pc \in {"waiting", "yielded"} <=> Count(listeners["update"], {s}) # 0
      BY <3>1 DEF Watched
    <3> QED
      BY <3>3, <3>4, <3>5, <3>6
  <2>3. /\ client.pc \in {"new", "first", "loop", "over"} /\ client.inflight \in {0, 1}
        /\ client.attempt = "due" => client.pc \in {"first", "loop"}
    BY <2>1 DEF Clients, Tracing
  <2> QED
    BY <2>1, <2>2, <2>3 DEF TypeOK
<1> QED
  BY <1>1, Invariance, PTL

(* SettledOnce: whatever its listeners do, a ticket that has ended has     *)
(* resolved with its own ending and said so once (ticket.ts, B2).          *)
THEOREM EndsSettled == Spec => []SettledOnce
<1>1. IInv => SettledOnce
  <2> SUFFICES ASSUME IInv, Idle
               PROVE  SettledOnce
    BY DEF SettledOnce
  <2>1. Settling /\ hist.dones \in Nat /\ ticket.promise \in Terminal \cup {Pending}
    BY DEF IInv, Typed, Histories
  <2>2. \A W : Count(todo, W) = 0
    BY IdleFacts
  <2>3. hist.dones = IF ticket.state \in Terminal THEN 1 ELSE 0
    BY <2>1, <2>2 DEF Settling
  <2>4. ticket.promise = IF ticket.state \in Terminal THEN ticket.state ELSE Pending
    BY <2>1, <2>2, StateFacts DEF Settling
  <2> QED
    BY <2>3, <2>4 DEF SettledOnce
<1> QED
  BY <1>1, Invariance, PTL

(* StreamsComplete: what subscribe() yields is what was emitted, once and  *)
(* in order, however slow its consumer is.                                 *)
THEOREM StreamsDeliver == Spec => []StreamsComplete
<1>1. IInv => StreamsComplete
  <2> SUFFICES ASSUME IInv, Idle, NEW s \in Streams,
                      stream[s].pc \in {"waiting", "yielded", "finished"} /\ ~stream[s].left
               PROVE  /\ Len(Seen(s)) = Len(Due(s)) /\ ToSet(Seen(s)) = ToSet(Due(s))
                      /\ ~hist.reentered => Seen(s) = Due(s)
                      /\ stream[s].pc = "finished" =>
                           stream[s].updates = <<>> /\ ToSet(Seen(s)) \cap Terminal # {}
    BY DEF StreamsComplete, Seen, Due, Since
  <2>1. Watched(s) /\ stream[s] \in Generators
    BY DEF IInv, Watching, Typed
  <2>2. Count(todo, CallsTo("update", s)) = 0 /\ Coming(s) = {}
    BY IdleFacts DEF Coming
  <2>3. Len(Seen(s)) \in Nat
    <3>1. Seen(s) \in Seq(States)
      BY <2>1, ConcatProperties DEF Generators, Seen
    <3> QED
      BY <3>1, LenProperties
  <2>4. Follows(s)
    BY DEF Follows
  <2> QED
    BY <2>1, <2>2, <2>3, <2>4 DEF Watched
<1> QED
  BY <1>1, Invariance, PTL

(* TelemetryAgrees: the spans, counters and the gauge agree with the       *)
(* request, in whichever order an exit cleans up and emits (B15).          *)
THEOREM TelemetryTrue == Spec => []TelemetryAgrees
<1>1. IInv => TelemetryAgrees
  <2> SUFFICES ASSUME IInv, Idle
               PROVE  TelemetryAgrees
    BY DEF TelemetryAgrees
  <2>1. /\ Reporting /\ Tracing /\ client \in Clients /\ hist.ends \in Nat
        /\ tracer.started \in Nat /\ tracer.ended \in Nat
    BY DEF IInv, Typed, Histories, Tracers
  <2>2. (\A W : Count(todo, W) = 0) /\ Opening = 0 /\ Closing = 0
    BY IdleFacts DEF Opening, Closing
  <2>3. client.measured["retry"] \in Nat /\ client.measured["end"] \in Nat
    BY <2>1 DEF Clients, ClientEvents
  <2>4. /\ client.measured["retry"] = client.retries /\ client.measured["end"] = hist.ends
        /\ client.gauge = client.inflight
    BY <2>1, <2>2, <2>3 DEF Reporting
  <2>5. /\ tracer.started <= 1 /\ tracer.ended <= tracer.started
        /\ tracer.span = "open" => tracer.ended = 0
    BY <2>1, <2>2 DEF Tracing
  <2>6. /\ tracer.span = "open" => hist.stoppedAhead \/ (tracer.active /\ hist.ends = 0)
        /\ ~hist.orphaned
    BY <2>1, <2>2 DEF Tracing
  <2> QED
    BY <2>4, <2>5, <2>6 DEF TelemetryAgrees
<1> QED
  BY <1>1, Invariance, PTL
=============================================================================
