--------------------------- MODULE PartitionsProofs ---------------------------
(***************************************************************************)
(* Proofs about Partitions, for any tickets, partitions, intervals and     *)
(* limits.  Whatever is said of a registry has to survive a sweep, which   *)
(* may drop any entry that nobody holds and that is idle.  So the          *)
(* invariant IInv is about what is remembered of a partition (Mem), by its *)
(* entry or by the new one that would be made: who holds it, and that it   *)
(* agrees with the truth (Remembers).  An idle entry is as good as a new   *)
(* one (IdleIsForgettable); this is what a sweep needs.                    *)
(*                                                                         *)
(* The budget's part is about sums.  The lemmas on them are proved from    *)
(* the definition of the fold, by looking at a minimal set for which they  *)
(* would fail.                                                             *)
(***************************************************************************)
EXTENDS Partitions, FiniteSetTheorems, WellFoundedInduction, TLAPS

-----------------------------------------------------------------------------
(* Sums over sets *)

Pick(s) == CHOOSE x \in s : TRUE

\* h is the sum of g over each of the subsets of S.
SumsUp(h, g, S) ==
  h = [s \in SUBSET S |-> IF s = {} THEN 0 ELSE g[Pick(s)] + h[s \ {Pick(s)}]]

(* Pick(s) is in s, and what is left is less.                              *)
LEMMA PickProperties ==
  ASSUME NEW s, s # {}
  PROVE  Pick(s) \in s /\ s \ {Pick(s)} \subseteq s /\ s \ {Pick(s)} # s
BY DEF Pick

(* A set of subsets of a finite set has a minimal member.                  *)
LEMMA MinimalSubset ==
  ASSUME NEW S, IsFiniteSet(S), NEW B, B \subseteq SUBSET S, B # {}
  PROVE  \E s \in B : \A u \in SUBSET s : u # s => u \notin B
<1>1. IsWellFoundedOn(StrictSubsetOrdering(S), SUBSET S)
  BY FS_StrictSubsetOrderingWellFounded, FS_FiniteSubsetsOfFinite
<1>2. PICK s \in B : \A u \in B : ~(<<u, s>> \in StrictSubsetOrdering(S))
  BY <1>1, WFMin
<1>3. ASSUME NEW u \in SUBSET s, u # s, u \in B
      PROVE  FALSE
  <2>1. <<u, s>> \in (SUBSET S) \X (SUBSET S)
    BY <1>3
  <2> QED
    BY <1>2, <1>3, <2>1 DEF StrictSubsetOrdering
<1> QED
  BY <1>2, <1>3

(* There is only one such h.                                               *)
LEMMA SumsAgree ==
  ASSUME NEW S, IsFiniteSet(S), NEW T, T \subseteq S, NEW g, NEW h, NEW k,
         SumsUp(h, g, S), SumsUp(k, g, T)
  PROVE  \A s \in SUBSET T : h[s] = k[s]
<1> DEFINE bad == {s \in SUBSET T : h[s] # k[s]}
<1>1. IsFiniteSet(T)
  BY FS_Subset
<1>2. SUFFICES ASSUME bad # {} PROVE FALSE
  OBVIOUS
<1>3. PICK s \in bad : \A u \in SUBSET s : u # s => u \notin bad
  <2>1. bad \subseteq SUBSET T
    OBVIOUS
  <2> HIDE DEF bad
  <2> QED
    BY <1>1, <1>2, <2>1, MinimalSubset
<1> DEFINE r == s \ {Pick(s)}
<1>4. s \in SUBSET T /\ s \in SUBSET S /\ h[s] # k[s]
  BY <1>3
<1>5. /\ h[s] = IF s = {} THEN 0 ELSE g[Pick(s)] + h[r]
      /\ k[s] = IF s = {} THEN 0 ELSE g[Pick(s)] + k[r]
  BY <1>4 DEF SumsUp
<1>6. CASE s # {}
  <2>1. r \in SUBSET s /\ r # s /\ r \in SUBSET T
    BY <1>4, <1>6, PickProperties
  <2>2. h[r] = k[r]
    BY <1>3, <2>1
  <2> QED
    BY <1>4, <1>5, <1>6, <2>2
<1> QED
  BY <1>4, <1>5, <1>6

(* And there is one.                                                       *)
LEMMA SumsExist ==
  ASSUME NEW S, IsFiniteSet(S), NEW g, \A x \in S : g[x] \in Nat
  PROVE  \E h \in [SUBSET S -> Nat] : SumsUp(h, g, S)
<1> DEFINE Has(s) == \E h \in [SUBSET s -> Nat] : SumsUp(h, g, s)
           bad == {s \in SUBSET S : ~Has(s)}
<1>1. SUFFICES ASSUME bad # {} PROVE FALSE
  OBVIOUS
<1>2. PICK s \in bad : \A u \in SUBSET s : u # s => u \notin bad
  <2>1. bad \subseteq SUBSET S
    OBVIOUS
  <2> HIDE DEF bad
  <2> QED
    BY <1>1, <2>1, MinimalSubset
<1> DEFINE of(u) == CHOOSE h : h \in [SUBSET u -> Nat] /\ SumsUp(h, g, u)
           rest(u) == u \ {Pick(u)}
<1>3. \A u \in SUBSET s : u # s => of(u) \in [SUBSET u -> Nat] /\ SumsUp(of(u), g, u)
  <2> SUFFICES ASSUME NEW u \in SUBSET s, u # s
               PROVE  of(u) \in [SUBSET u -> Nat] /\ SumsUp(of(u), g, u)
    OBVIOUS
  <2>1. \E h : h \in [SUBSET u -> Nat] /\ SumsUp(h, g, u)
    BY <1>2
  <2> QED
    BY <2>1
<1>4. s \in SUBSET S /\ ~Has(s)
  BY <1>2
<1>5. \A u \in SUBSET s : IsFiniteSet(u)
  BY <1>4, FS_Subset
<1>6. \A u \in SUBSET s : u # {} =>
        /\ Pick(u) \in u /\ g[Pick(u)] \in Nat
        /\ rest(u) \in SUBSET u /\ rest(u) \in SUBSET s /\ rest(u) # u /\ rest(u) # s
  BY <1>4, PickProperties
<1> HIDE DEF of, rest
<1> DEFINE all == [u \in SUBSET s |-> IF u = {} THEN 0 ELSE g[Pick(u)] + of(rest(u))[rest(u)]]
<1>7. \A u \in SUBSET s : u # s => u \in SUBSET u
  OBVIOUS
<1>8. all \in [SUBSET s -> Nat]
  <2>1. ASSUME NEW u \in SUBSET s, u # {}
        PROVE  g[Pick(u)] + of(rest(u))[rest(u)] \in Nat
    <3>1. of(rest(u)) \in [SUBSET rest(u) -> Nat] /\ rest(u) \in SUBSET rest(u)
      BY <1>3, <1>6, <2>1
    <3>2. of(rest(u))[rest(u)] \in Nat /\ g[Pick(u)] \in Nat
      BY <1>6, <2>1, <3>1
    <3> QED
      BY <3>2
  <2> QED
    BY <2>1
<1>9. \A u \in SUBSET s : u # s => of(u)[u] = all[u]
  <2> SUFFICES ASSUME NEW u \in SUBSET s, u # s PROVE of(u)[u] = all[u]
    OBVIOUS
  <2>1. SumsUp(of(u), g, u) /\ of(u)[u] = IF u = {} THEN 0 ELSE g[Pick(u)] + of(u)[rest(u)]
    BY <1>3 DEF SumsUp, rest
  <2>2. CASE u # {}
    <3>1. SumsUp(of(rest(u)), g, rest(u)) /\ rest(u) \subseteq u /\ rest(u) \in SUBSET rest(u)
      BY <1>3, <1>6, <2>2
    <3>2. \A v \in SUBSET rest(u) : of(u)[v] = of(rest(u))[v]
      <4>1. IsFiniteSet(u) /\ SumsUp(of(u), g, u)
        BY <1>5, <2>1
      <4> QED
        BY <3>1, <4>1, SumsAgree
    <3> QED
      BY <2>1, <2>2, <3>1, <3>2
  <2> QED
    BY <2>1, <2>2
<1>10. \A u \in SUBSET s : all[u] = IF u = {} THEN 0 ELSE g[Pick(u)] + all[rest(u)]
  BY <1>6, <1>9
<1>11. SumsUp(all, g, s)
  <2> HIDE DEF all
  <2>1. all = [u \in SUBSET s |-> all[u]]
    BY <1>8
  <2> QED
    BY <1>10, <2>1 DEF SumsUp, rest
<1> QED
  BY <1>4, <1>8, <1>11

-----------------------------------------------------------------------------
SumOf(g, S) == (CHOOSE h : h \in [SUBSET S -> Nat] /\ SumsUp(h, g, S))[S]

(* Any function that sums up gives the sum.                                *)
LEMMA SumIs ==
  ASSUME NEW S, IsFiniteSet(S), NEW g, \A x \in S : g[x] \in Nat,
         NEW h, SumsUp(h, g, S)
  PROVE  \A s \in SUBSET S : h[s] = SumOf(g, s)
<1> SUFFICES ASSUME NEW s \in SUBSET S PROVE h[s] = SumOf(g, s)
  OBVIOUS
<1> DEFINE own == CHOOSE k : k \in [SUBSET s -> Nat] /\ SumsUp(k, g, s)
<1>1. IsFiniteSet(s) /\ \A x \in s : g[x] \in Nat
  BY FS_Subset
<1>2. own \in [SUBSET s -> Nat] /\ SumsUp(own, g, s)
  <2>1. \E j : j \in [SUBSET s -> Nat] /\ SumsUp(j, g, s)
    BY <1>1, SumsExist
  <2> QED
    BY <2>1
<1>3. SumOf(g, s) = own[s]
  BY DEF SumOf
<1> HIDE DEF own
<1>4. s \in SUBSET s /\ s \subseteq S
  OBVIOUS
<1>5. \A v \in SUBSET s : h[v] = own[v]
  <2>1. SumsUp(h, g, S) /\ SumsUp(own, g, s)
    BY <1>2
  <2> QED
    BY <1>4, <2>1, SumsAgree
<1> QED
  BY <1>3, <1>4, <1>5

LEMMA SumIsTotal ==
  ASSUME NEW f, NEW what, NEW S, IsFiniteSet(S), \A x \in S : f[x][what] \in Nat
  PROVE  Total(f, what, S) = SumOf([x \in S |-> f[x][what]], S)
<1> DEFINE g == [x \in S |-> f[x][what]]
           Steps(h) == h = [s \in SUBSET S |->
                             IF s = {} THEN 0
                             ELSE LET x == CHOOSE x \in s : TRUE IN f[x][what] + h[s \ {x}]]
           iter == CHOOSE h : Steps(h)
<1>1. Total(f, what, S) = iter[S]
  BY DEF Total, MapThenSumSet, MapThenFoldSet
<1>2. \A s \in SUBSET S : s # {} => g[Pick(s)] = f[CHOOSE x \in s : TRUE][what]
  BY PickProperties DEF Pick
<1>3. \A h : SumsUp(h, g, S) <=> Steps(h)
  <2> SUFFICES ASSUME NEW h PROVE SumsUp(h, g, S) <=> Steps(h)
    OBVIOUS
  <2> HIDE DEF g
  <2> QED
    BY <1>2 DEF SumsUp, Pick
<1>4. \A x \in S : g[x] \in Nat
  OBVIOUS
<1> HIDE DEF g
<1> HIDE DEF Steps
<1>5. \E h : Steps(h)
  <2>1. \E h \in [SUBSET S -> Nat] : SumsUp(h, g, S)
    BY <1>4, SumsExist
  <2> QED
    BY <1>3, <2>1
<1>6. Steps(iter)
  BY <1>5
<1> HIDE DEF iter
<1>7. SumsUp(iter, g, S)
  BY <1>3, <1>6
<1>8. S \in SUBSET S
  OBVIOUS
<1> QED
  BY <1>1, <1>4, <1>7, <1>8, SumIs DEF g

-----------------------------------------------------------------------------
\* The numbers g has on S can be summed.
Summable(g, S) == IsFiniteSet(S) /\ \A x \in S : g[x] \in Nat

(* A sum is a number.                                                      *)
LEMMA SumType ==
  ASSUME NEW g, NEW S, Summable(g, S)
  PROVE  SumOf(g, S) \in Nat
<1>1. PICK h \in [SUBSET S -> Nat] : SumsUp(h, g, S)
  BY SumsExist DEF Summable
<1>2. S \in SUBSET S
  OBVIOUS
<1>3. h[S] = SumOf(g, S)
  BY <1>1, <1>2, SumIs DEF Summable
<1> QED
  BY <1>1, <1>2, <1>3

(* Nothing sums up to 0, and what is picked comes on top of the rest.      *)
LEMMA SumByPick ==
  ASSUME NEW g, NEW S, Summable(g, S)
  PROVE  SumOf(g, S) = IF S = {} THEN 0 ELSE g[Pick(S)] + SumOf(g, S \ {Pick(S)})
<1>1. PICK h \in [SUBSET S -> Nat] : SumsUp(h, g, S)
  BY SumsExist DEF Summable
<1>2. \A s \in SUBSET S : h[s] = SumOf(g, s)
  BY <1>1, SumIs DEF Summable
<1>3. S \in SUBSET S /\ S \ {Pick(S)} \in SUBSET S
  OBVIOUS
<1>4. h[S] = IF S = {} THEN 0 ELSE g[Pick(S)] + h[S \ {Pick(S)}]
  BY <1>1, <1>3 DEF SumsUp
<1> QED
  BY <1>2, <1>3, <1>4

(* What can be summed can be summed in part.                               *)
LEMMA SummableParts ==
  ASSUME NEW g, NEW S, Summable(g, S), NEW T, T \subseteq S
  PROVE  Summable(g, T)
BY FS_Subset DEF Summable

(* One more member of the set comes on top.                                *)
LEMMA SumAdd ==
  ASSUME NEW g, NEW S, NEW x \in S, Summable(g, S)
  PROVE  SumOf(g, S) = SumOf(g, S \ {x}) + g[x]
<1> DEFINE Adds(s) == \A y \in s : SumOf(g, s) = SumOf(g, s \ {y}) + g[y]
           bad == {s \in SUBSET S : ~Adds(s)}
<1>1. ASSUME bad # {} PROVE FALSE
  <2>1. bad \subseteq SUBSET S /\ IsFiniteSet(S)
    BY DEF Summable
  <2>2. PICK s \in bad : \A u \in SUBSET s : u # s => u \notin bad
    <3> HIDE DEF bad
    <3> QED
      BY <1>1, <2>1, MinimalSubset
  <2>3. s \in SUBSET S /\ \A u \in SUBSET s : u # s => Adds(u)
    BY <2>2
  <2>4. PICK y \in s : SumOf(g, s) # SumOf(g, s \ {y}) + g[y]
    BY <2>2
  <2> HIDE DEF bad
  <2> DEFINE z == Pick(s)
             rest == s \ {y, z}
  <2>5. z \in s
    BY <2>4, PickProperties
  <2> HIDE DEF z
  <2>6. SumOf(g, s) = g[z] + SumOf(g, s \ {z})
    <3>1. Summable(g, s)
      BY <2>3, SummableParts
    <3> QED
      BY <2>4, <3>1, SumByPick DEF z
  <2>7. y # z
    <3>1. Summable(g, s \ {z}) /\ g[z] \in Nat
      BY <2>3, <2>5, SummableParts DEF Summable
    <3>2. SumOf(g, s \ {z}) \in Nat
      BY <3>1, SumType
    <3>3. SumOf(g, s) = SumOf(g, s \ {z}) + g[z]
      BY <2>6, <3>1, <3>2
    <3> QED
      BY <2>4, <3>3
  <2>8. SumOf(g, s \ {z}) = SumOf(g, rest) + g[y]
    <3>1. s \ {z} \in SUBSET s /\ s \ {z} # s /\ y \in s \ {z} /\ (s \ {z}) \ {y} = rest
      BY <2>4, <2>5, <2>7
    <3> HIDE DEF Adds, rest
    <3>2. Adds(s \ {z})
      BY <2>3, <3>1
    <3> QED
      BY <3>1, <3>2 DEF Adds
  <2>9. SumOf(g, s \ {y}) = SumOf(g, rest) + g[z]
    <3>1. s \ {y} \in SUBSET s /\ s \ {y} # s /\ z \in s \ {y} /\ (s \ {y}) \ {z} = rest
      BY <2>4, <2>5, <2>7
    <3> HIDE DEF Adds, rest
    <3>2. Adds(s \ {y})
      BY <2>3, <3>1
    <3> QED
      BY <3>1, <3>2 DEF Adds
  <2>10. g[y] \in Nat /\ g[z] \in Nat /\ SumOf(g, rest) \in Nat
    <3>1. Summable(g, rest)
      BY <2>3, SummableParts
    <3> QED
      BY <2>3, <2>4, <2>5, <3>1, SumType DEF Summable
  <2> HIDE DEF rest
  <2> QED
    BY <2>4, <2>6, <2>8, <2>9, <2>10
<1>2. S \notin bad
  BY <1>1
<1> QED
  BY <1>2

(* The sum depends on no more than the values on the set.                  *)
LEMMA SumSame ==
  ASSUME NEW g, NEW k, NEW S, Summable(g, S), \A x \in S : g[x] = k[x]
  PROVE  SumOf(g, S) = SumOf(k, S)
<1>1. PICK h \in [SUBSET S -> Nat] : SumsUp(h, g, S)
  BY SumsExist DEF Summable
<1>2. \A s \in SUBSET S : s # {} => g[Pick(s)] = k[Pick(s)]
  BY PickProperties
<1>3. SumsUp(h, k, S)
  BY <1>1, <1>2 DEF SumsUp
<1>4. S \in SUBSET S /\ IsFiniteSet(S) /\ (\A x \in S : g[x] \in Nat) /\ (\A x \in S : k[x] \in Nat)
  BY DEF Summable
<1>5. h[S] = SumOf(g, S)
  BY <1>1, <1>4, SumIs
<1>6. h[S] = SumOf(k, S)
  BY <1>3, <1>4, SumIs
<1> QED
  BY <1>5, <1>6

(* The sum over nothing.                                                   *)
LEMMA SumNone ==
  ASSUME NEW g
  PROVE  SumOf(g, {}) = 0
<1>1. Summable(g, {})
  BY FS_EmptySet DEF Summable
<1> QED
  BY <1>1, SumByPick

(* Sums over two sets that share nothing add up.                           *)
LEMMA SumUnion ==
  ASSUME NEW g, NEW S, NEW T, Summable(g, S \cup T), S \cap T = {}
  PROVE  SumOf(g, S \cup T) = SumOf(g, S) + SumOf(g, T)
<1> DEFINE Adds(t) == SumOf(g, S \cup t) = SumOf(g, S) + SumOf(g, t)
           bad == {t \in SUBSET T : ~Adds(t)}
<1>1. /\ IsFiniteSet(T) /\ Summable(g, S) /\ SumOf(g, S) \in Nat
      /\ \A t \in SUBSET T : /\ Summable(g, t) /\ Summable(g, S \cup t)
                             /\ SumOf(g, t) \in Nat
  <2>1. Summable(g, T) /\ Summable(g, S)
    BY SummableParts
  <2>2. ASSUME NEW t \in SUBSET T PROVE Summable(g, t) /\ Summable(g, S \cup t)
    <3>1. t \subseteq S \cup T /\ S \cup t \subseteq S \cup T
      OBVIOUS
    <3> QED
      BY <3>1, SummableParts
  <2> QED
    BY <2>1, <2>2, SumType DEF Summable
<1>2. ASSUME bad # {} PROVE FALSE
  <2>1. PICK t \in bad : \A u \in SUBSET t : u # t => u \notin bad
    <3>1. bad \subseteq SUBSET T
      OBVIOUS
    <3> HIDE DEF bad
    <3> QED
      BY <1>1, <1>2, <3>1, MinimalSubset
  <2>2. t \in SUBSET T /\ ~Adds(t) /\ \A u \in SUBSET t : u # t => Adds(u)
    BY <2>1
  <2> HIDE DEF bad
  <2>3. t # {}
    <3>1. ASSUME t = {} PROVE Adds(t)
      <4>1. SumOf(g, t) = 0 /\ S \cup t = S
        BY <3>1, SumNone
      <4>2. SumOf(g, S) = SumOf(g, S) + 0
        BY <1>1
      <4> QED
        BY <4>1, <4>2
    <3> QED
      BY <2>2, <3>1
  <2>4. PICK y \in t : TRUE
    BY <2>3
  <2> DEFINE rest == t \ {y}
  <2>5. /\ rest \in SUBSET t /\ rest # t /\ rest \in SUBSET T
        /\ y \in S \cup t /\ (S \cup t) \ {y} = S \cup rest
    BY <2>2, <2>4
  <2>6. SumOf(g, S \cup rest) = SumOf(g, S) + SumOf(g, rest)
    <3> HIDE DEF rest
    <3> QED
      BY <2>2, <2>5
  <2>7. SumOf(g, t) = SumOf(g, rest) + g[y]
    BY <1>1, <2>2, <2>4, SumAdd
  <2>8. SumOf(g, S \cup t) = SumOf(g, S \cup rest) + g[y]
    <3> DEFINE both == S \cup t
    <3>1. Summable(g, both) /\ y \in both
      BY <1>1, <2>2, <2>5
    <3>2. both \ {y} = S \cup rest
      BY <2>5
    <3> HIDE DEF both, rest
    <3>3. SumOf(g, both) = SumOf(g, both \ {y}) + g[y]
      BY <3>1, SumAdd
    <3> QED
      BY <3>2, <3>3 DEF both
  <2>9. g[y] \in Nat /\ SumOf(g, rest) \in Nat
    BY <1>1, <2>2, <2>4, <2>5 DEF Summable
  <2> HIDE DEF rest
  <2> QED
    BY <1>1, <2>2, <2>6, <2>7, <2>8, <2>9
<1>3. T \notin bad
  BY <1>2
<1> QED
  BY <1>3

(* A larger set has no smaller sum.                                        *)
LEMMA SumMonotone ==
  ASSUME NEW g, NEW S, NEW T, Summable(g, T), S \subseteq T
  PROVE  SumOf(g, S) <= SumOf(g, T)
<1>1. T = S \cup (T \ S) /\ S \cap (T \ S) = {}
  OBVIOUS
<1>2. Summable(g, S) /\ Summable(g, T \ S) /\ Summable(g, S \cup (T \ S))
  BY <1>1, SummableParts
<1>3. SumOf(g, S) \in Nat /\ SumOf(g, T \ S) \in Nat
  BY <1>2, SumType
<1>4. SumOf(g, T) = SumOf(g, S) + SumOf(g, T \ S)
  BY <1>1, <1>2, SumUnion
<1> QED
  BY <1>3, <1>4

(* One value is larger by one: so is the sum.                              *)
LEMMA SumOneMore ==
  ASSUME NEW g, NEW k, NEW S, Summable(g, S), NEW y \in S,
         k[y] = g[y] + 1, \A x \in S \ {y} : k[x] = g[x]
  PROVE  SumOf(k, S) = SumOf(g, S) + 1
<1>1. Summable(k, S)
  BY DEF Summable
<1>2. SumOf(k, S \ {y}) = SumOf(g, S \ {y}) /\ SumOf(g, S \ {y}) \in Nat
  <2>1. Summable(g, S \ {y})
    BY SummableParts
  <2> QED
    BY <2>1, SumSame, SumType
<1>3. SumOf(k, S) = SumOf(k, S \ {y}) + k[y] /\ SumOf(g, S) = SumOf(g, S \ {y}) + g[y]
  BY <1>1, SumAdd
<1>4. g[y] \in Nat
  BY DEF Summable
<1> QED
  BY <1>2, <1>3, <1>4

-----------------------------------------------------------------------------
(* The invariant *)

Whats == {"requests", "retries"}

\* The times that fall into the budget's bucket s.
Bucket(s) == {i \in 0..MaxNow : BucketStart(i) = s}

IsBuckets(b, time) ==
  /\ b = [s \in DOMAIN b |-> b[s]]
  /\ \A s \in DOMAIN b :
       /\ s \in 0..time /\ s = BucketStart(s)
       /\ b[s] \in [requests : Nat, retries : Nat]

IsValue(k, v, time) ==
  IF k = "budget"
  THEN /\ v = [holders |-> v.holders, buckets |-> v.buckets]
       /\ v.holders \in SUBSET Tickets
       /\ IsBuckets(v.buckets, time)
  ELSE v \in Values[k]

IsEntry(k, e, time) ==
  /\ e = [value |-> e.value, at |-> e.at]
  /\ e.at \in 0..time
  /\ IsValue(k, e.value, time)

IsRegistry(k, r, time) ==
  /\ r = [entries |-> r.entries, calls |-> r.calls, trigger |-> r.trigger]
  /\ r.entries = [p \in DOMAIN r.entries |-> r.entries[p]]
  /\ DOMAIN r.entries \subseteq Partitions
  /\ IsFiniteSet(DOMAIN r.entries)
  /\ r.calls \in 0..(SweepInterval - 1)
  /\ r.trigger \in Nat /\ r.trigger >= SizeThreshold
  /\ \A p \in DOMAIN r.entries : IsEntry(k, r.entries[p], time)

\* What registry r remembers of p: its entry, or the new one it would make.
Mem(k, r, p) == IF p \in DOMAIN r.entries THEN r.entries[p].value ELSE NewEntry(k)

(* The pause and the bucket end when they should, if not yet.              *)
RemembersPause(v, u, time) ==
  /\ Larger(v.pausedUntil, time) = Larger(u.pausedUntil, time)
  /\ Larger(v.fullAt, time) = Larger(u.fullAt, time)

(* A circuit that has to be open is.                                       *)
RemembersOpen(v, u, time) ==
  u.openUntil > time => v.state = "open" /\ v.openedAt + Reset = u.openUntil

(* Each bucket of the window has counted what happened in its time, and    *)
(* nothing happened where there is no bucket.                              *)
Tallies(b, what, f, time) ==
  /\ \A s \in DOMAIN b : s + Window >= time => b[s][what] = SumOf(f, Bucket(s))
  /\ \A i \in 0..MaxNow :
       BucketStart(i) + Window >= time /\ f[i] # 0 => BucketStart(i) \in DOMAIN b

RemembersCounts(v, u, time) ==
  /\ Tallies(v.buckets, "requests", u.requests, time)
  /\ Tallies(v.buckets, "retries", u.retries, time)

Remembers(k, v, u, time) ==
  /\ k = "bulkhead" => RemembersPause(v, u, time)
  /\ k = "breaker" => RemembersOpen(v, u, time)
  /\ k = "budget" => RemembersCounts(v, u, time)

Truths == [
  pausedUntil : Nat, fullAt : Nat, openUntil : Nat,
  requests : [0..MaxNow -> Nat], retries : [0..MaxNow -> Nat]]

Stages == {"unsent", "waiting", "running", "failed", "refused", "done"}

Going == {"waiting", "running", "failed"}

TicketRecords == [
  stage : Stages, partition : Partitions \cup {"none"},
  retries : 0..MaxRetries, trial : BOOLEAN]

\* The live tickets of p.
LiveAt(p) == {t \in Tickets : tk[t].stage \in Going /\ tk[t].partition = p}

IInv ==
  /\ now \in 0..MaxNow
  /\ reg = [k \in Kinds |-> reg[k]]
  /\ \A k \in Kinds : IsRegistry(k, reg[k], now)
  /\ tk \in [Tickets -> TicketRecords]
  /\ \A t \in Tickets :
       /\ tk[t].stage \in Going => tk[t].partition \in Partitions
       /\ tk[t].stage = "failed" => tk[t].retries < MaxRetries
  /\ truth \in [Partitions -> Truths]
  /\ \A k \in Kinds, p \in Partitions :
       /\ Mem(k, reg[k], p).holders = LiveAt(p)
       /\ Remembers(k, Mem(k, reg[k], p), truth[p], now)

-----------------------------------------------------------------------------
(* The window's arithmetic *)

(* A bucket is no wider than the window.                                   *)
LEMMA BucketWidth == BucketMs \in Nat \ {0} /\ BucketMs <= Window
<1>1. Window \in Nat \ {0} /\ BucketCount \in Nat \ {0}
  BY BudgetAssumption
<1>2. Window \div BucketCount \in Nat /\ Window \div BucketCount <= Window
  BY <1>1
<1> QED
  BY <1>1, <1>2 DEF BucketMs, Larger

(* A bucket starts no later than the times that fall into it, and ends     *)
(* after them.                                                             *)
LEMMA BucketStartProperties ==
  ASSUME NEW i \in Nat
  PROVE  /\ BucketStart(i) \in 0..i
         /\ i < BucketStart(i) + BucketMs
         /\ BucketStart(BucketStart(i)) = BucketStart(i)
<1> DEFINE q == i \div BucketMs
<1>1. BucketMs \in Nat \ {0}
  BY BucketWidth
<1>2. q \in Nat /\ q * BucketMs <= i /\ i < q * BucketMs + BucketMs /\ q * BucketMs \in Nat
  <2> DEFINE b == BucketMs
  <2>1. b \in Nat \ {0}
    BY <1>1
  <2> HIDE DEF b
  <2>2. (i \div b) \in Nat /\ (i \div b) * b <= i /\ i < (i \div b) * b + b /\ (i \div b) * b \in Nat
    BY <2>1
  <2> QED
    BY <2>2 DEF b
<1>3. (q * BucketMs) \div BucketMs = q
  <2> HIDE DEF q
  <2> QED
    BY <1>1, <1>2
<1> QED
  BY <1>2, <1>3 DEF BucketStart

-----------------------------------------------------------------------------
(* Registries *)

With(r, p, v) == [r EXCEPT !.entries[p].value = v]

(* A new entry is one of its kind, and nobody holds it.                    *)
LEMMA NewEntryProperties ==
  ASSUME NEW k \in Kinds, NEW time \in 0..MaxNow
  PROVE  IsValue(k, NewEntry(k), time) /\ NewEntry(k).holders = {}
<1>1. k \in {"bulkhead", "breaker", "budget"} /\ 0 \in 0..MaxNow /\ MaxNow \in Nat
  BY ClockAssumption DEF Kinds
<1>2. CASE k = "bulkhead"
  BY <1>1, <1>2 DEF IsValue, NewEntry, NewBulkhead, Values
<1>3. CASE k = "breaker"
  BY <1>1, <1>3 DEF IsValue, NewEntry, NewBreaker, Values
<1>4. CASE k = "budget"
  <2>1. NewEntry(k) = [holders |-> {}, buckets |-> <<>>]
    BY <1>4 DEF NewEntry, NewBudget
  <2>2. IsBuckets(<<>>, time)
    BY DEF IsBuckets
  <2> QED
    BY <1>4, <2>1, <2>2 DEF IsValue
<1> QED
  BY <1>1, <1>2, <1>3, <1>4

(* What a registry remembers is a value of its kind.                       *)
LEMMA MemIsValue ==
  ASSUME NEW k \in Kinds, NEW time \in 0..MaxNow, NEW r, IsRegistry(k, r, time), NEW p
  PROVE  IsValue(k, Mem(k, r, p), time)
BY NewEntryProperties DEF Mem, IsRegistry, IsEntry

(* Another value for the entry of p.                                       *)
LEMMA WithKeeps ==
  ASSUME NEW k \in Kinds, NEW time, NEW r, IsRegistry(k, r, time),
         NEW p \in DOMAIN r.entries, NEW v, IsValue(k, v, time)
  PROVE  /\ IsRegistry(k, With(r, p, v), time)
         /\ DOMAIN With(r, p, v).entries = DOMAIN r.entries
         /\ Mem(k, With(r, p, v), p) = v
         /\ \A q : q # p => Mem(k, With(r, p, v), q) = Mem(k, r, q)
<1> DEFINE e == [value |-> v, at |-> r.entries[p].at]
           s == With(r, p, v)
<1>1. r = [entries |-> r.entries, calls |-> r.calls, trigger |-> r.trigger]
  BY DEF IsRegistry
<1>2. IsEntry(k, r.entries[p], time)
  BY DEF IsRegistry
<1>3. IsEntry(k, e, time)
  BY <1>2 DEF IsEntry
<1>4. s = [entries |-> [r.entries EXCEPT ![p] = e], calls |-> r.calls, trigger |-> r.trigger]
  <2>1. [r.entries[p] EXCEPT !.value = v] = e
    BY <1>2 DEF IsEntry
  <2>2. s = [r EXCEPT !.entries = [r.entries EXCEPT ![p] = [r.entries[p] EXCEPT !.value = v]]]
    BY DEF With
  <2> HIDE DEF e, s
  <2> QED
    BY <1>1, <2>1, <2>2
<1> HIDE DEF e
<1>5. r.entries = [q \in DOMAIN r.entries |-> r.entries[q]]
  BY DEF IsRegistry
<1> DEFINE m == [r.entries EXCEPT ![p] = e]
<1>6. /\ m = [q \in DOMAIN r.entries |-> m[q]]
      /\ DOMAIN m = DOMAIN r.entries
      /\ m[p] = e
      /\ \A q \in DOMAIN r.entries : q # p => m[q] = r.entries[q]
  BY <1>5
<1> HIDE DEF m
<1>7. /\ s = [entries |-> s.entries, calls |-> s.calls, trigger |-> s.trigger]
      /\ s.entries = m /\ s.calls = r.calls /\ s.trigger = r.trigger
  BY <1>4 DEF m
<1> HIDE DEF s
<1>8. IsRegistry(k, s, time)
  BY <1>3, <1>6, <1>7 DEF IsRegistry
<1>9. Mem(k, s, p) = v
  BY <1>6, <1>7 DEF Mem, e
<1>10. \A q : q # p => Mem(k, s, q) = Mem(k, r, q)
  BY <1>6, <1>7 DEF Mem
<1> QED
  BY <1>6, <1>7, <1>8, <1>9, <1>10 DEF s

(* What an idle entry remembers, a new one does.                           *)
LEMMA IdleIsForgettable ==
  ASSUME NEW k \in Kinds, now \in 0..MaxNow, NEW v, IsValue(k, v, now), NEW u \in Truths,
         Remembers(k, v, u, now), Idle(k, v)
  PROVE  Remembers(k, NewEntry(k), u, now)
<1>1. k \in {"bulkhead", "breaker", "budget"} /\ now \in Nat /\ Reset \in Nat
  BY ClockAssumption, HostAssumption DEF Kinds
<1>2. CASE k = "bulkhead"
  <2>1. v.pausedUntil \in Nat /\ v.fullAt \in Nat /\ u.pausedUntil \in Nat /\ u.fullAt \in Nat
    BY <1>2 DEF IsValue, Values, Truths
  <2>2. v.pausedUntil <= now /\ v.fullAt <= now
    BY <1>2 DEF Idle, IdleBulkhead, PauseOver, BucketFull
  <2>3. /\ Larger(v.pausedUntil, now) = Larger(u.pausedUntil, now)
        /\ Larger(v.fullAt, now) = Larger(u.fullAt, now)
    BY <1>2 DEF Remembers, RemembersPause
  <2>4. NewEntry(k).pausedUntil = 0 /\ NewEntry(k).fullAt = 0
    BY <1>2 DEF NewEntry, NewBulkhead
  <2>5. RemembersPause(NewEntry(k), u, now)
    BY <1>1, <2>1, <2>2, <2>3, <2>4 DEF RemembersPause, Larger
  <2> QED
    BY <1>2, <2>5 DEF Remembers
<1>3. CASE k = "breaker"
  <2>1. v.openedAt \in 0..MaxNow /\ u.openUntil \in Nat
    BY <1>3 DEF IsValue, Values, Truths
  <2>2. v.state = "closed" \/ now >= v.openedAt + Reset
    BY <1>3 DEF Idle, IdleBreaker
  <2>3. u.openUntil > now => v.state = "open" /\ v.openedAt + Reset = u.openUntil
    BY <1>3 DEF Remembers, RemembersOpen
  <2>4. ~(u.openUntil > now)
    BY <1>1, <2>1, <2>2, <2>3, ClockAssumption
  <2> QED
    BY <1>3, <2>4 DEF Remembers, RemembersOpen
<1>4. CASE k = "budget"
  <2>1. \A s \in DOMAIN v.buckets : ~(s + Window >= now)
    BY <1>4 DEF Idle, IdleBudget, InWindow
  <2>2. /\ Tallies(v.buckets, "requests", u.requests, now)
        /\ Tallies(v.buckets, "retries", u.retries, now)
    BY <1>4 DEF Remembers, RemembersCounts
  <2>3. NewEntry(k).buckets = <<>>
    BY <1>4 DEF NewEntry, NewBudget
  <2>4. /\ Tallies(<<>>, "requests", u.requests, now)
        /\ Tallies(<<>>, "retries", u.retries, now)
    BY <2>1, <2>2 DEF Tallies
  <2> QED
    BY <1>4, <2>3, <2>4 DEF Remembers, RemembersCounts
<1> QED
  BY <1>1, <1>2, <1>3, <1>4

(* get() finds the entry of p, or makes it.                                *)
LEMMA TouchedKeeps ==
  ASSUME NEW k \in Kinds, now \in 0..MaxNow, NEW r, IsRegistry(k, r, now), NEW p \in Partitions
  PROVE  LET s == Touched(k, r, p)
         IN /\ IsRegistry(k, s, now)
            /\ p \in DOMAIN s.entries /\ s.entries[p].at = now
            /\ \A q : Mem(k, s, q) = Mem(k, r, q)
            /\ \A q : q # p => (q \in DOMAIN s.entries <=> q \in DOMAIN r.entries)
<1> DEFINE s == Touched(k, r, p)
           e == [value |-> Mem(k, r, p), at |-> now]
           m == [q \in DOMAIN r.entries \cup {p} |-> IF q = p THEN e ELSE r.entries[q]]
           c == (r.calls + 1) % SweepInterval
<1>1. r = [entries |-> r.entries, calls |-> r.calls, trigger |-> r.trigger]
  BY DEF IsRegistry
<1>2. s = [entries |-> m, calls |-> c, trigger |-> r.trigger]
  <2>1. s = [r EXCEPT !.entries = m, !.calls = c]
    BY DEF Touched, Mem
  <2> HIDE DEF s, m, c
  <2> QED
    BY <1>1, <2>1
<1>3. IsEntry(k, e, now)
  <2>1. IsValue(k, Mem(k, r, p), now)
    BY MemIsValue
  <2> QED
    BY <2>1 DEF IsEntry
<1>4. c \in 0..(SweepInterval - 1)
  <2>1. r.calls \in Nat /\ SweepInterval \in Nat \ {0}
    BY SweepAssumption DEF IsRegistry
  <2> QED
    BY <2>1
<1> HIDE DEF c
<1>5. /\ DOMAIN m = DOMAIN r.entries \cup {p}
      /\ m = [q \in DOMAIN m |-> m[q]]
      /\ m[p] = e
      /\ \A q \in DOMAIN r.entries : q # p => m[q] = r.entries[q]
  <2> HIDE DEF e
  <2> QED
    OBVIOUS
<1>6. IsFiniteSet(DOMAIN m)
  BY <1>5, FS_AddElement DEF IsRegistry
<1> HIDE DEF m, e
<1>7. /\ s = [entries |-> s.entries, calls |-> s.calls, trigger |-> s.trigger]
      /\ s.entries = m /\ s.calls = c /\ s.trigger = r.trigger
  BY <1>2
<1> HIDE DEF s
<1>8. IsRegistry(k, s, now)
  BY <1>3, <1>4, <1>5, <1>6, <1>7 DEF IsRegistry
<1>9. Mem(k, s, p) = Mem(k, r, p) /\ s.entries[p].at = now
  BY <1>5, <1>7 DEF Mem, e
<1>10. \A q : q # p => Mem(k, s, q) = Mem(k, r, q) /\ (q \in DOMAIN m <=> q \in DOMAIN r.entries)
  BY <1>5, <1>7 DEF Mem
<1> QED
  BY <1>5, <1>7, <1>8, <1>9, <1>10 DEF s

(* A sweep drops no entry but those that are stale.                        *)
LEMMA SweptKeeps ==
  ASSUME NEW k \in Kinds, now \in 0..MaxNow, NEW r, IsRegistry(k, r, now)
  PROVE  LET s == Swept(k, r)
         IN /\ IsRegistry(k, s, now)
            /\ \A q : \/ Mem(k, s, q) = Mem(k, r, q)
                      \/ /\ q \in DOMAIN r.entries /\ Stale(k, r.entries[q])
                         /\ Mem(k, s, q) = NewEntry(k)
            /\ \A q \in DOMAIN r.entries : ~Stale(k, r.entries[q]) => q \in DOMAIN s.entries
<1> DEFINE kept == {p \in DOMAIN r.entries : ~Stale(k, r.entries[p])}
           removed == Cardinality(DOMAIN r.entries) - Cardinality(kept)
           m == [p \in kept |-> r.entries[p]]
           trigger == NextTrigger(r.trigger, removed, Cardinality(kept))
           s == Swept(k, r)
<1>1. r = [entries |-> r.entries, calls |-> r.calls, trigger |-> r.trigger]
  BY DEF IsRegistry
<1>2. s = [entries |-> m, calls |-> r.calls, trigger |-> trigger]
  <2>1. s = [r EXCEPT !.entries = m, !.trigger = trigger]
    BY DEF Swept
  <2> HIDE DEF s, m, trigger
  <2> QED
    BY <1>1, <2>1
<1>3. IsFiniteSet(kept) /\ kept \subseteq DOMAIN r.entries
  <2>1. IsFiniteSet(DOMAIN r.entries) /\ kept \subseteq DOMAIN r.entries
    BY DEF IsRegistry
  <2> HIDE DEF kept
  <2> QED
    BY <2>1, FS_Subset
<1>4. trigger \in Nat /\ trigger >= SizeThreshold
  <2>1. Cardinality(kept) \in Nat /\ SizeThreshold \in Nat
    BY <1>3, FS_CardinalityType, SweepAssumption
  <2>2. r.trigger \in Nat /\ r.trigger >= SizeThreshold
    BY DEF IsRegistry
  <2> HIDE DEF kept, removed
  <2> QED
    BY <2>1, <2>2 DEF NextTrigger
<1> HIDE DEF trigger
<1>5. /\ DOMAIN m = kept /\ m = [q \in DOMAIN m |-> m[q]]
      /\ \A q \in kept : m[q] = r.entries[q]
  OBVIOUS
<1> HIDE DEF m
<1>6. /\ s = [entries |-> s.entries, calls |-> s.calls, trigger |-> s.trigger]
      /\ s.entries = m /\ s.calls = r.calls /\ s.trigger = trigger
  BY <1>2
<1> HIDE DEF s
<1>7. IsRegistry(k, s, now)
  <2> HIDE DEF kept
  <2> QED
    BY <1>3, <1>4, <1>5, <1>6 DEF IsRegistry
<1>8. ASSUME NEW q
      PROVE  \/ Mem(k, s, q) = Mem(k, r, q)
             \/ /\ q \in DOMAIN r.entries /\ Stale(k, r.entries[q])
                /\ Mem(k, s, q) = NewEntry(k)
  BY <1>5, <1>6 DEF Mem
<1>9. \A q \in DOMAIN r.entries : ~Stale(k, r.entries[q]) => q \in DOMAIN s.entries
  BY <1>5, <1>6
<1> QED
  BY <1>7, <1>8, <1>9 DEF s

\* What a turn about p does to what is remembered of the other partitions.
Elsewhere(k, r, s, p) ==
  \A q \in Partitions \ {p} :
    \/ Mem(k, s, q) = Mem(k, r, q)
    \/ Mem(k, s, q) = NewEntry(k) /\ Evictable(k, Mem(k, r, q))

(* get() and its sweep: p has an entry, and nobody's entry is dropped      *)
(* while it is held or not idle.                                           *)
LEMMA GotKeeps ==
  ASSUME NEW k \in Kinds, now \in 0..MaxNow, NEW r, IsRegistry(k, r, now), NEW p \in Partitions
  PROVE  LET s == Got(k, r, p)
         IN /\ IsRegistry(k, s, now)
            /\ p \in DOMAIN s.entries
            /\ Mem(k, s, p) = Mem(k, r, p)
            /\ Elsewhere(k, r, s, p)
<1> DEFINE touched == Touched(k, r, p)
           swept == Swept(k, touched)
<1>1. /\ IsRegistry(k, touched, now)
      /\ p \in DOMAIN touched.entries /\ touched.entries[p].at = now
      /\ \A q : Mem(k, touched, q) = Mem(k, r, q)
      /\ \A q : q # p => (q \in DOMAIN touched.entries <=> q \in DOMAIN r.entries)
  BY TouchedKeeps
<1>2. Got(k, r, p) = IF SweepIsDue(touched) THEN swept ELSE touched
  BY DEF Got
<1> HIDE DEF touched
<1>3. /\ IsRegistry(k, swept, now)
      /\ \A q : \/ Mem(k, swept, q) = Mem(k, touched, q)
                \/ /\ q \in DOMAIN touched.entries /\ Stale(k, touched.entries[q])
                   /\ Mem(k, swept, q) = NewEntry(k)
      /\ \A q \in DOMAIN touched.entries : ~Stale(k, touched.entries[q]) => q \in DOMAIN swept.entries
  BY <1>1, SweptKeeps
<1> HIDE DEF swept
<1>4. ~Stale(k, touched.entries[p])
  <2>1. ~(now > now + Ttl)
    BY ClockAssumption
  <2> QED
    BY <1>1, <2>1 DEF Stale
<1>5. \A q \in DOMAIN touched.entries :
        Stale(k, touched.entries[q]) => Evictable(k, Mem(k, touched, q))
  BY DEF Stale, Mem
<1>6. /\ p \in DOMAIN swept.entries /\ Mem(k, swept, p) = Mem(k, r, p)
      /\ Elsewhere(k, r, swept, p)
  <2>1. p \in DOMAIN swept.entries /\ Mem(k, swept, p) = Mem(k, r, p)
    BY <1>1, <1>3, <1>4
  <2>2. ASSUME NEW q \in Partitions \ {p}
        PROVE  \/ Mem(k, swept, q) = Mem(k, r, q)
               \/ Mem(k, swept, q) = NewEntry(k) /\ Evictable(k, Mem(k, r, q))
    BY <1>1, <1>3, <1>5
  <2> QED
    BY <2>1, <2>2 DEF Elsewhere
<1>7. Elsewhere(k, r, touched, p)
  BY <1>1 DEF Elsewhere
<1>8. CASE SweepIsDue(touched)
  BY <1>2, <1>3, <1>6, <1>8
<1>9. CASE ~SweepIsDue(touched)
  BY <1>1, <1>2, <1>7, <1>9
<1> QED
  BY <1>8, <1>9

-----------------------------------------------------------------------------
(* In the middle of a turn *)

\* Registry r remembers u of p, which H hold, and forgot nothing of the others.
Good(k, r, p, H, u) ==
  /\ IsRegistry(k, r, now)
  /\ p \in DOMAIN r.entries
  /\ Elsewhere(k, reg[k], r, p)
  /\ r.entries[p].value.holders = H
  /\ Remembers(k, r.entries[p].value, u, now)

\* So does each registry of g.
Turn(g, p, H, u) ==
  /\ g = [k \in Kinds |-> g[k]]
  /\ \A k \in Kinds : Good(k, g[k], p, H, u)

(* Another value for the entry of p, and another truth.                    *)
LEMMA WithGood ==
  ASSUME NEW k \in Kinds, NEW r, NEW p, NEW H, NEW u, Good(k, r, p, H, u),
         NEW v, IsValue(k, v, now), NEW w, Remembers(k, v, w, now)
  PROVE  Good(k, With(r, p, v), p, v.holders, w)
<1> DEFINE s == With(r, p, v)
<1>1. /\ IsRegistry(k, s, now) /\ DOMAIN s.entries = DOMAIN r.entries
      /\ Mem(k, s, p) = v /\ \A q : q # p => Mem(k, s, q) = Mem(k, r, q)
  BY WithKeeps DEF Good
<1> HIDE DEF s
<1>2. p \in DOMAIN s.entries /\ s.entries[p].value = v
  BY <1>1 DEF Good, Mem
<1>3. Elsewhere(k, reg[k], s, p)
  BY <1>1 DEF Good, Elsewhere
<1> QED
  BY <1>1, <1>2, <1>3 DEF Good, s

(* The entry of p is a value of its kind.                                  *)
LEMMA GoodValue ==
  ASSUME NEW k \in Kinds, NEW r, NEW p, NEW H, NEW u, Good(k, r, p, H, u)
  PROVE  IsValue(k, r.entries[p].value, now) /\ r.entries[p].value.holders = H
BY DEF Good, IsRegistry, IsEntry

(* Tickets hold it.                                                        *)
LEMMA GoodHolders ==
  ASSUME NEW k \in Kinds, NEW r, NEW p, NEW H, NEW u, Good(k, r, p, H, u)
  PROVE  H \in SUBSET Tickets
<1> DEFINE v == r.entries[p].value
<1>1. IsValue(k, v, now) /\ v.holders = H
  BY GoodValue
<1> HIDE DEF v
<1>2. CASE k = "budget"
  BY <1>1, <1>2 DEF IsValue
<1>3. CASE k = "bulkhead"
  <2>1. v \in [holders : SUBSET Tickets, running : SUBSET Tickets,
               pausedUntil : Nat, fullAt : Nat]
    BY <1>1, <1>3 DEF IsValue, Values
  <2> QED
    BY <1>1, <2>1
<1>4. CASE k = "breaker"
  <2>1. v \in [holders : SUBSET Tickets, state : {"closed", "open", "half-open"},
               openedAt : 0..MaxNow]
    BY <1>1, <1>4 DEF IsValue, Values
  <2> QED
    BY <1>1, <2>1
<1> QED
  BY <1>2, <1>3, <1>4 DEF Kinds

(* Who holds an entry does not matter to what it remembers.                *)
LEMMA HoldersGood ==
  ASSUME NEW k \in Kinds, NEW r, NEW p, NEW H, NEW u, Good(k, r, p, H, u),
         NEW G \in SUBSET Tickets
  PROVE  Good(k, With(r, p, [r.entries[p].value EXCEPT !.holders = G]), p, G, u)
<1> DEFINE v == r.entries[p].value
           w == [v EXCEPT !.holders = G]
<1>1. IsValue(k, v, now) /\ Remembers(k, v, u, now)
  BY GoodValue DEF Good
<1> HIDE DEF v
<1>2. k \in {"bulkhead", "breaker", "budget"}
  BY DEF Kinds
<1>3. IsValue(k, w, now) /\ w.holders = G /\ Remembers(k, w, u, now)
  <2>1. CASE k = "bulkhead"
    <3>1. v \in Values[k]
      BY <1>1, <2>1 DEF IsValue
    <3>2. w \in Values[k] /\ w.holders = G /\ w.pausedUntil = v.pausedUntil /\ w.fullAt = v.fullAt
      BY <2>1, <3>1 DEF Values
    <3> QED
      BY <1>1, <2>1, <3>2 DEF IsValue, Remembers, RemembersPause
  <2>2. CASE k = "breaker"
    <3>1. v \in Values[k]
      BY <1>1, <2>2 DEF IsValue
    <3>2. w \in Values[k] /\ w.holders = G /\ w.state = v.state /\ w.openedAt = v.openedAt
      BY <2>2, <3>1 DEF Values
    <3> QED
      BY <1>1, <2>2, <3>2 DEF IsValue, Remembers, RemembersOpen
  <2>3. CASE k = "budget"
    <3>1. v = [holders |-> v.holders, buckets |-> v.buckets] /\ IsBuckets(v.buckets, now)
      BY <1>1, <2>3 DEF IsValue
    <3>2. w = [holders |-> G, buckets |-> v.buckets]
      BY <3>1
    <3> HIDE DEF w
    <3>3. w = [holders |-> w.holders, buckets |-> w.buckets] /\ w.holders = G /\ w.buckets = v.buckets
      BY <3>2
    <3> QED
      BY <1>1, <2>3, <3>1, <3>3 DEF IsValue, Remembers, RemembersCounts
  <2> QED
    BY <1>2, <2>1, <2>2, <2>3
<1> HIDE DEF w
<1>4. Good(k, With(r, p, w), p, w.holders, u)
  BY <1>3, WithGood
<1> QED
  BY <1>3, <1>4 DEF v, w

(* retain() and release().                                                 *)
LEMMA RetainedGood ==
  ASSUME NEW k \in Kinds, NEW r, NEW p, NEW H, NEW u, Good(k, r, p, H, u), NEW t \in Tickets
  PROVE  Good(k, Retained(r, p, t), p, H \cup {t}, u)
<1>1. H \in SUBSET Tickets
  BY GoodHolders
<1>2. Retained(r, p, t) = With(r, p, [r.entries[p].value EXCEPT !.holders = H \cup {t}])
  BY DEF Retained, With, Good
<1> QED
  BY <1>1, <1>2, HoldersGood

LEMMA ReleasedGood ==
  ASSUME NEW k \in Kinds, NEW r, NEW p, NEW H, NEW u, Good(k, r, p, H, u), NEW t \in Tickets
  PROVE  Good(k, Released(r, p, t), p, H \ {t}, u)
<1>1. H \in SUBSET Tickets
  BY GoodHolders
<1>2. Released(r, p, t) = With(r, p, [r.entries[p].value EXCEPT !.holders = H \ {t}])
  BY DEF Released, With, Good
<1> QED
  BY <1>1, <1>2, HoldersGood

(* A turn about p begins: it is held by its live tickets.                  *)
LEMMA TurnBegins ==
  ASSUME IInv, NEW t \in Tickets, tk[t].stage \in Going
  PROVE  Turn(reg, tk[t].partition, LiveAt(tk[t].partition), truth[tk[t].partition])
<1> DEFINE p == tk[t].partition
<1>1. p \in Partitions /\ t \in LiveAt(p)
  BY DEF IInv, LiveAt
<1>2. ASSUME NEW k \in Kinds PROVE Good(k, reg[k], p, LiveAt(p), truth[p])
  <2>1. /\ IsRegistry(k, reg[k], now) /\ now \in 0..MaxNow
        /\ Mem(k, reg[k], p).holders = LiveAt(p)
        /\ Remembers(k, Mem(k, reg[k], p), truth[p], now)
    BY <1>1 DEF IInv
  <2>2. p \in DOMAIN reg[k].entries
    BY <1>1, <2>1, NewEntryProperties DEF Mem
  <2>3. Elsewhere(k, reg[k], reg[k], p)
    BY DEF Elsewhere
  <2> QED
    BY <2>1, <2>2, <2>3 DEF Good, Mem
<1> QED
  BY <1>2 DEF Turn, IInv

(* Or it begins with a request that gets the entries and retains them.     *)
LEMMA HeldGood ==
  ASSUME IInv, NEW t \in Tickets, NEW p \in Partitions
  PROVE  Turn(Held(p, t), p, LiveAt(p) \cup {t}, truth[p])
<1>1. ASSUME NEW k \in Kinds
      PROVE  Good(k, Retained(Got(k, reg[k], p), p, t), p, LiveAt(p) \cup {t}, truth[p])
  <2> DEFINE r == Got(k, reg[k], p)
  <2>1. /\ IsRegistry(k, reg[k], now) /\ now \in 0..MaxNow
        /\ Mem(k, reg[k], p).holders = LiveAt(p)
        /\ Remembers(k, Mem(k, reg[k], p), truth[p], now)
    BY DEF IInv
  <2>2. /\ IsRegistry(k, r, now) /\ p \in DOMAIN r.entries
        /\ Mem(k, r, p) = Mem(k, reg[k], p) /\ Elsewhere(k, reg[k], r, p)
    BY <2>1, GotKeeps
  <2> HIDE DEF r
  <2>3. Good(k, r, p, LiveAt(p), truth[p])
    BY <2>1, <2>2 DEF Good, Mem
  <2>4. Good(k, Retained(r, p, t), p, LiveAt(p) \cup {t}, truth[p])
    BY <2>3, RetainedGood
  <2> QED
    BY <2>4 DEF r
<1> QED
  BY <1>1 DEF Turn, Held

(* It ends with a ticket that lets go.                                     *)
LEMMA LetGoGood ==
  ASSUME NEW g, NEW p, NEW H, NEW u, Turn(g, p, H, u), NEW t \in Tickets
  PROVE  Turn(LetGo(g, p, t), p, H \ {t}, u)
<1>1. ASSUME NEW k \in Kinds PROVE Good(k, Released(g[k], p, t), p, H \ {t}, u)
  BY ReleasedGood DEF Turn
<1> QED
  BY <1>1 DEF Turn, LetGo

-----------------------------------------------------------------------------
(* What a turn does to an entry *)

\* u and w agree on what a registry of kind k remembers.
Agree(k, u, w) ==
  /\ k = "bulkhead" => u.pausedUntil = w.pausedUntil /\ u.fullAt = w.fullAt
  /\ k = "breaker" => u.openUntil = w.openUntil
  /\ k = "budget" => u.requests = w.requests /\ u.retries = w.retries

(* One registry's entry changes, and with it what there is to remember.    *)
LEMMA TurnWith ==
  ASSUME NEW g, NEW p, NEW H, NEW u, Turn(g, p, H, u), NEW k \in Kinds,
         NEW v, IsValue(k, v, now), v.holders = H,
         NEW w, Remembers(k, v, w, now), \A j \in Kinds \ {k} : Agree(j, u, w),
         NEW h, h = [j \in Kinds |-> h[j]],
         h[k] = With(g[k], p, v), \A j \in Kinds \ {k} : h[j] = g[j]
  PROVE  Turn(h, p, H, w)
<1>1. Good(k, h[k], p, H, w)
  BY WithGood DEF Turn
<1>2. ASSUME NEW j \in Kinds \ {k} PROVE Good(j, h[j], p, H, w)
  <2>1. Good(j, h[j], p, H, u) /\ Agree(j, u, w)
    BY DEF Turn
  <2>2. ASSUME NEW x, Remembers(j, x, u, now) PROVE Remembers(j, x, w, now)
    BY <2>1, <2>2 DEF Agree, Remembers, RemembersPause, RemembersOpen, RemembersCounts
  <2> QED
    BY <2>1, <2>2 DEF Good
<1> QED
  BY <1>1, <1>2 DEF Turn

(* The bulkhead's slots, pause and tokens change, and the truth with them. *)
LEMMA BulkheadTurn ==
  ASSUME NEW g, NEW p, NEW H, NEW u \in Truths, Turn(g, p, H, u),
         NEW running \in SUBSET Tickets, NEW paused \in Nat, NEW full \in Nat,
         NEW paused2 \in Nat, NEW full2 \in Nat,
         Larger(paused, now) = Larger(paused2, now), Larger(full, now) = Larger(full2, now)
  PROVE  LET v == [g["bulkhead"].entries[p].value EXCEPT
                     !.running = running, !.pausedUntil = paused, !.fullAt = full]
             w == [u EXCEPT !.pausedUntil = paused2, !.fullAt = full2]
         IN Turn([g EXCEPT !["bulkhead"] = With(@, p, v)], p, H, w) /\ w \in Truths
<1> DEFINE k == "bulkhead"
           old == g[k].entries[p].value
           v == [old EXCEPT !.running = running, !.pausedUntil = paused, !.fullAt = full]
           w == [u EXCEPT !.pausedUntil = paused2, !.fullAt = full2]
           h == [g EXCEPT ![k] = With(@, p, v)]
<1>1. k \in Kinds /\ Good(k, g[k], p, H, u) /\ g = [j \in Kinds |-> g[j]]
  BY DEF Kinds, Turn
<1>2. IsValue(k, old, now) /\ old.holders = H
  BY <1>1, GoodValue
<1>3. /\ v = [old EXCEPT !.running = running, !.pausedUntil = paused, !.fullAt = full]
      /\ h = [g EXCEPT ![k] = With(g[k], p, v)]
  OBVIOUS
<1> HIDE DEF old
<1>4. IsValue(k, v, now) /\ v.holders = H /\ v.pausedUntil = paused /\ v.fullAt = full
  <2>1. old \in [holders : SUBSET Tickets, running : SUBSET Tickets,
                 pausedUntil : Nat, fullAt : Nat]
    BY <1>2 DEF IsValue, Values
  <2>2. /\ v \in [holders : SUBSET Tickets, running : SUBSET Tickets,
                  pausedUntil : Nat, fullAt : Nat]
        /\ v.holders = H /\ v.pausedUntil = paused /\ v.fullAt = full
    BY <1>2, <1>3, <2>1
  <2> QED
    BY <2>2 DEF IsValue, Values
<1>5. /\ w \in Truths /\ w.pausedUntil = paused2 /\ w.fullAt = full2
      /\ w.openUntil = u.openUntil /\ w.requests = u.requests /\ w.retries = u.retries
  BY DEF Truths
<1>6. Remembers(k, v, w, now)
  BY <1>4, <1>5 DEF Remembers, RemembersPause
<1>7. \A j \in Kinds \ {k} : Agree(j, u, w)
  BY <1>5 DEF Agree
<1> HIDE DEF v
<1>8. h = [j \in Kinds |-> h[j]] /\ h[k] = With(g[k], p, v) /\ \A j \in Kinds \ {k} : h[j] = g[j]
  <2> DEFINE x == With(g[k], p, v)
  <2>1. h = [g EXCEPT ![k] = x]
    BY <1>3
  <2> HIDE DEF x
  <2>2. h = [j \in Kinds |-> h[j]] /\ h[k] = x /\ \A j \in Kinds \ {k} : h[j] = g[j]
    BY <1>1, <2>1
  <2> QED
    BY <2>2 DEF x
<1> HIDE DEF k, w, h
<1>9. Turn(h, p, H, w)
  BY <1>1, <1>4, <1>6, <1>7, <1>8, TurnWith
<1> QED
  BY <1>5, <1>9 DEF h, w, v, old, k

(* The breaker's state changes, and when it has to be open until.          *)
LEMMA BreakerTurn ==
  ASSUME NEW g, NEW p, NEW H, NEW u \in Truths, Turn(g, p, H, u),
         NEW state \in {"closed", "open", "half-open"}, NEW openedAt \in 0..MaxNow,
         NEW openUntil \in Nat,
         openUntil > now => state = "open" /\ openedAt + Reset = openUntil
  PROVE  LET v == [g["breaker"].entries[p].value EXCEPT !.state = state, !.openedAt = openedAt]
             w == [u EXCEPT !.openUntil = openUntil]
         IN Turn([g EXCEPT !["breaker"] = With(@, p, v)], p, H, w) /\ w \in Truths
<1> DEFINE k == "breaker"
           old == g[k].entries[p].value
           v == [old EXCEPT !.state = state, !.openedAt = openedAt]
           w == [u EXCEPT !.openUntil = openUntil]
           h == [g EXCEPT ![k] = With(@, p, v)]
<1>1. k \in Kinds /\ Good(k, g[k], p, H, u) /\ g = [j \in Kinds |-> g[j]]
  BY DEF Kinds, Turn
<1>2. IsValue(k, old, now) /\ old.holders = H
  BY <1>1, GoodValue
<1>3. /\ v = [old EXCEPT !.state = state, !.openedAt = openedAt]
      /\ h = [g EXCEPT ![k] = With(g[k], p, v)]
  OBVIOUS
<1> HIDE DEF old
<1>4. IsValue(k, v, now) /\ v.holders = H /\ v.state = state /\ v.openedAt = openedAt
  <2>1. old \in [holders : SUBSET Tickets, state : {"closed", "open", "half-open"},
                 openedAt : 0..MaxNow]
    BY <1>2 DEF IsValue, Values
  <2>2. /\ v \in [holders : SUBSET Tickets, state : {"closed", "open", "half-open"},
                  openedAt : 0..MaxNow]
        /\ v.holders = H /\ v.state = state /\ v.openedAt = openedAt
    BY <1>2, <1>3, <2>1
  <2> QED
    BY <2>2 DEF IsValue, Values
<1>5. /\ w \in Truths /\ w.openUntil = openUntil
      /\ w.pausedUntil = u.pausedUntil /\ w.fullAt = u.fullAt
      /\ w.requests = u.requests /\ w.retries = u.retries
  BY DEF Truths
<1>6. Remembers(k, v, w, now)
  BY <1>4, <1>5 DEF Remembers, RemembersOpen
<1>7. \A j \in Kinds \ {k} : Agree(j, u, w)
  BY <1>5 DEF Agree
<1> HIDE DEF v
<1>8. h = [j \in Kinds |-> h[j]] /\ h[k] = With(g[k], p, v) /\ \A j \in Kinds \ {k} : h[j] = g[j]
  <2> DEFINE x == With(g[k], p, v)
  <2>1. h = [g EXCEPT ![k] = x]
    BY <1>3
  <2> HIDE DEF x
  <2>2. h = [j \in Kinds |-> h[j]] /\ h[k] = x /\ \A j \in Kinds \ {k} : h[j] = g[j]
    BY <1>1, <2>1
  <2> QED
    BY <2>2 DEF x
<1> HIDE DEF k, w, h
<1>9. Turn(h, p, H, w)
  BY <1>1, <1>4, <1>6, <1>7, <1>8, TurnWith
<1> QED
  BY <1>5, <1>9 DEF h, w, v, old, k

(* The budget's window changes, and what it has to count.                  *)
LEMMA BudgetTurn ==
  ASSUME NEW g, NEW p, NEW H, NEW u, Turn(g, p, H, u),
         NEW b, IsBuckets(b, now),
         NEW w \in Truths, Tallies(b, "requests", w.requests, now),
         Tallies(b, "retries", w.retries, now),
         Agree("bulkhead", u, w), Agree("breaker", u, w)
  PROVE  LET v == [g["budget"].entries[p].value EXCEPT !.buckets = b]
         IN Turn([g EXCEPT !["budget"] = With(@, p, v)], p, H, w)
<1> DEFINE k == "budget"
           old == g[k].entries[p].value
           v == [old EXCEPT !.buckets = b]
           h == [g EXCEPT ![k] = With(@, p, v)]
<1>1. k \in Kinds /\ Good(k, g[k], p, H, u) /\ g = [j \in Kinds |-> g[j]]
  BY DEF Kinds, Turn
<1>2. IsValue(k, old, now) /\ old.holders = H
  BY <1>1, GoodValue
<1>3. /\ v = [old EXCEPT !.buckets = b]
      /\ h = [g EXCEPT ![k] = With(g[k], p, v)]
  OBVIOUS
<1> HIDE DEF old
<1>4. IsValue(k, v, now) /\ v.holders = H /\ v.buckets = b
  <2>1. old = [holders |-> old.holders, buckets |-> old.buckets] /\ H \in SUBSET Tickets
    BY <1>2 DEF IsValue
  <2>2. v = [holders |-> H, buckets |-> b]
    BY <1>2, <1>3, <2>1
  <2> QED
    BY <2>1, <2>2 DEF IsValue
<1>5. Remembers(k, v, w, now)
  BY <1>4 DEF Remembers, RemembersCounts
<1>6. \A j \in Kinds \ {k} : Agree(j, u, w)
  BY DEF Kinds
<1> HIDE DEF v
<1>7. h = [j \in Kinds |-> h[j]] /\ h[k] = With(g[k], p, v) /\ \A j \in Kinds \ {k} : h[j] = g[j]
  <2> DEFINE x == With(g[k], p, v)
  <2>1. h = [g EXCEPT ![k] = x]
    BY <1>3
  <2> HIDE DEF x
  <2>2. h = [j \in Kinds |-> h[j]] /\ h[k] = x /\ \A j \in Kinds \ {k} : h[j] = g[j]
    BY <1>1, <2>1
  <2> QED
    BY <2>2 DEF x
<1> HIDE DEF k, h
<1>8. Turn(h, p, H, w)
  BY <1>1, <1>4, <1>5, <1>6, <1>7, TurnWith
<1> QED
  BY <1>8 DEF h, v, old, k

-----------------------------------------------------------------------------
(* Sums over the times of a budget's window *)

(* Zeros sum up to zero.                                                   *)
LEMMA SumZero ==
  ASSUME NEW g, NEW S, IsFiniteSet(S), \A x \in S : g[x] = 0
  PROVE  SumOf(g, S) = 0
<1> DEFINE bad == {s \in SUBSET S : SumOf(g, s) # 0}
<1>1. ASSUME bad # {} PROVE FALSE
  <2>1. PICK s \in bad : \A u \in SUBSET s : u # s => u \notin bad
    <3>1. bad \subseteq SUBSET S
      OBVIOUS
    <3> HIDE DEF bad
    <3> QED
      BY <1>1, <3>1, MinimalSubset
  <2>2. s \in SUBSET S /\ SumOf(g, s) # 0 /\ \A u \in SUBSET s : u # s => SumOf(g, u) = 0
    BY <2>1
  <2>3. PICK y \in s : TRUE
    BY <2>2, SumNone
  <2>4. s \ {y} \in SUBSET s /\ s \ {y} # s /\ g[y] = 0
    BY <2>2, <2>3
  <2>5. Summable(g, s)
    BY <2>2, FS_Subset DEF Summable
  <2>6. SumOf(g, s) = SumOf(g, s \ {y}) + g[y]
    BY <2>3, <2>5, SumAdd
  <2> QED
    BY <2>2, <2>4, <2>6
<1>2. S \notin bad
  BY <1>1
<1> QED
  BY <1>2

(* Zeros may be left out.                                                  *)
LEMMA SumWithoutZeros ==
  ASSUME NEW g, NEW S, NEW T, Summable(g, T), S \subseteq T, \A x \in T \ S : g[x] = 0
  PROVE  SumOf(g, S) = SumOf(g, T)
<1>1. T = S \cup (T \ S) /\ S \cap (T \ S) = {}
  OBVIOUS
<1>2. Summable(g, S) /\ Summable(g, T \ S) /\ Summable(g, S \cup (T \ S))
  BY <1>1, SummableParts
<1>3. SumOf(g, S) \in Nat /\ SumOf(g, T \ S) = 0
  BY <1>2, SumType, SumZero DEF Summable
<1>4. SumOf(g, T) = SumOf(g, S) + SumOf(g, T \ S)
  BY <1>1, <1>2, SumUnion
<1> QED
  BY <1>3, <1>4

(* The fold sums up a function of the times too.                           *)
LEMMA SumIsOverTimes ==
  ASSUME NEW f, NEW S, Summable(f, S)
  PROVE  MapThenSumSet(LAMBDA s : f[s], S) = SumOf(f, S)
<1> DEFINE Steps(h) == h = [s \in SUBSET S |->
                             IF s = {} THEN 0
                             ELSE LET x == CHOOSE x \in s : TRUE IN f[x] + h[s \ {x}]]
           iter == CHOOSE h : Steps(h)
<1>1. MapThenSumSet(LAMBDA s : f[s], S) = iter[S]
  BY DEF MapThenSumSet, MapThenFoldSet
<1>2. \A h : SumsUp(h, f, S) <=> Steps(h)
  <2>1. \A s \in SUBSET S : s # {} => Pick(s) = CHOOSE x \in s : TRUE
    BY DEF Pick
  <2> QED
    BY <2>1 DEF SumsUp, Pick
<1> HIDE DEF Steps
<1>3. \E h : Steps(h)
  <2>1. \E h \in [SUBSET S -> Nat] : SumsUp(h, f, S)
    BY SumsExist DEF Summable
  <2> QED
    BY <1>2, <2>1
<1>4. Steps(iter)
  BY <1>3
<1> HIDE DEF iter
<1>5. SumsUp(iter, f, S) /\ S \in SUBSET S /\ IsFiniteSet(S) /\ \A x \in S : f[x] \in Nat
  BY <1>2, <1>4 DEF Summable
<1> QED
  BY <1>1, <1>5, SumIs

\* The times that fall into the buckets D.
Within(D) == {i \in 0..MaxNow : BucketStart(i) \in D}

(* The times can be summed up.                                             *)
LEMMA TimesSummable ==
  ASSUME NEW f \in [0..MaxNow -> Nat], NEW S, S \subseteq 0..MaxNow
  PROVE  Summable(f, S)
<1>1. IsFiniteSet(0..MaxNow)
  BY FS_Interval, ClockAssumption
<1>2. IsFiniteSet(S)
  BY <1>1, FS_Subset
<1> QED
  BY <1>2 DEF Summable

(* What each bucket has counted in its time adds up to all of the time.    *)
LEMMA SumOfBuckets ==
  ASSUME NEW f \in [0..MaxNow -> Nat], NEW D, IsFiniteSet(D),
         NEW g, \A s \in D : g[s] = SumOf(f, Bucket(s))
  PROVE  SumOf(g, D) = SumOf(f, Within(D))
<1> DEFINE bad == {d \in SUBSET D : SumOf(g, d) # SumOf(f, Within(d))}
<1>1. \A s : SumOf(f, Bucket(s)) \in Nat
  BY TimesSummable, SumType DEF Bucket
<1>2. \A d \in SUBSET D : Summable(g, d)
  BY <1>1, FS_Subset DEF Summable
<1>3. ASSUME bad # {} PROVE FALSE
  <2>1. PICK d \in bad : \A u \in SUBSET d : u # d => u \notin bad
    <3>1. bad \subseteq SUBSET D
      OBVIOUS
    <3> HIDE DEF bad
    <3> QED
      BY <1>3, <3>1, MinimalSubset
  <2>2. /\ d \in SUBSET D /\ SumOf(g, d) # SumOf(f, Within(d))
        /\ \A u \in SUBSET d : u # d => SumOf(g, u) = SumOf(f, Within(u))
    BY <2>1
  <2>3. PICK s \in d : TRUE
    <3>1. Within({}) = {}
      BY DEF Within
    <3> QED
      BY <2>2, <3>1, SumNone
  <2> HIDE DEF bad
  <2> DEFINE rest == d \ {s}
  <2>4. SumOf(g, rest) = SumOf(f, Within(rest))
    BY <2>2, <2>3
  <2>5. SumOf(g, d) = SumOf(g, rest) + SumOf(f, Bucket(s))
    <3>1. Summable(g, d) /\ g[s] = SumOf(f, Bucket(s))
      BY <1>2, <2>2, <2>3
    <3> HIDE DEF rest
    <3>2. SumOf(g, d) = SumOf(g, d \ {s}) + g[s]
      BY <2>3, <3>1, SumAdd
    <3> QED
      BY <3>1, <3>2 DEF rest
  <2>6. SumOf(f, Within(d)) = SumOf(f, Within(rest)) + SumOf(f, Bucket(s))
    <3>1. Within(d) = Within(rest) \cup Bucket(s) /\ Within(rest) \cap Bucket(s) = {}
      BY <2>3 DEF Within, Bucket
    <3>2. Summable(f, Within(rest) \cup Bucket(s))
      BY TimesSummable DEF Within, Bucket
    <3> HIDE DEF rest
    <3> QED
      BY <3>1, <3>2, SumUnion
  <2> QED
    BY <2>2, <2>4, <2>5, <2>6
<1>4. D \notin bad
  BY <1>3
<1> QED
  BY <1>4

(* The window holds as much as happened in it, by the buckets' starts.     *)
LEMMA TalliesSum ==
  ASSUME now \in 0..MaxNow, NEW b, IsFiniteSet(DOMAIN b), NEW what,
         NEW f \in [0..MaxNow -> Nat], Tallies(b, what, f, now)
  PROVE  Sum(b, what) = Counts(f)
<1> DEFINE W == InWindow(b)
           g == [s \in W |-> b[s][what]]
           all == {s \in 0..MaxNow : BucketStart(s) + Window >= now}
<1>1. IsFiniteSet(W)
  BY FS_Subset DEF InWindow
<1>2. \A s \in W : b[s][what] = SumOf(f, Bucket(s)) /\ SumOf(f, Bucket(s)) \in Nat
  <2>1. \A s : SumOf(f, Bucket(s)) \in Nat
    BY TimesSummable, SumType DEF Bucket
  <2> QED
    BY <2>1 DEF InWindow, Tallies
<1>3. Sum(b, what) = SumOf(g, W)
  <2>1. Sum(b, what) = Total(b, what, W)
    BY DEF Sum
  <2> HIDE DEF W
  <2>2. Total(b, what, W) = SumOf(g, W)
    <3>1. \A x \in W : b[x][what] \in Nat
      BY <1>2
    <3> QED
      BY <1>1, <3>1, SumIsTotal
  <2> QED
    BY <2>1, <2>2
<1>4. SumOf(g, W) = SumOf(f, Within(W))
  <2>1. \A s \in W : g[s] = SumOf(f, Bucket(s))
    BY <1>2
  <2> HIDE DEF g, W
  <2> QED
    BY <1>1, <2>1, SumOfBuckets
<1>5. SumOf(f, Within(W)) = SumOf(f, all)
  <2>1. Within(W) \subseteq all /\ \A x \in all \ Within(W) : f[x] = 0
    BY DEF Within, InWindow, Tallies
  <2>2. Summable(f, all)
    BY TimesSummable
  <2> HIDE DEF W, all
  <2> QED
    BY <2>1, <2>2, SumWithoutZeros
<1>6. Counts(f) = SumOf(f, all)
  <2>1. Summable(f, all) /\ all = {s \in DOMAIN f : BucketStart(s) + Window >= now}
    BY TimesSummable
  <2>2. Counts(f) = MapThenSumSet(LAMBDA s : f[s], all)
    BY <2>1 DEF Counts
  <2> HIDE DEF all
  <2> QED
    BY <2>1, <2>2, SumIsOverTimes
<1> QED
  BY <1>3, <1>4, <1>5, <1>6

-----------------------------------------------------------------------------
(* The budget's window changes *)

(* Only what is older than the window is pruned.                           *)
LEMMA PrunedTallies ==
  ASSUME now \in 0..MaxNow, NEW b, IsBuckets(b, now)
  PROVE  /\ IsBuckets(Pruned(b), now)
         /\ \A what, f : Tallies(b, what, f, now) => Tallies(Pruned(b), what, f, now)
<1> DEFINE m == Pruned(b)
<1>1. /\ DOMAIN m = {s \in DOMAIN b : s + Window >= now}
      /\ m = [s \in DOMAIN m |-> m[s]] /\ \A s \in DOMAIN m : m[s] = b[s]
  BY DEF Pruned, InWindow
<1> HIDE DEF m
<1>2. IsBuckets(m, now)
  BY <1>1 DEF IsBuckets
<1>3. ASSUME NEW what, NEW f, Tallies(b, what, f, now) PROVE Tallies(m, what, f, now)
  BY <1>1, <1>3 DEF Tallies
<1> QED
  BY <1>2, <1>3 DEF m

(* What happens now is counted in the bucket of now, and nowhere else.     *)
LEMMA CountedTallies ==
  ASSUME now \in 0..MaxNow, NEW b, IsBuckets(b, now), NEW what \in Whats,
         NEW f \in [0..MaxNow -> Nat], Tallies(b, what, f, now)
  PROVE  /\ IsBuckets(Counted(b, what), now)
         /\ Tallies(Counted(b, what), what, [f EXCEPT ![now] = @ + 1], now)
         /\ \A other \in Whats \ {what}, e \in [0..MaxNow -> Nat] :
              Tallies(b, other, e, now) => Tallies(Counted(b, what), other, e, now)
<1> DEFINE kept == Pruned(b)
           start == BucketStart(now)
           old == IF start \in DOMAIN kept THEN kept[start] ELSE Empty
           n == old[what] + 1
           new == [old EXCEPT ![what] = n]
           m == Counted(b, what)
           f2 == [f EXCEPT ![now] = @ + 1]
<1>1. /\ IsBuckets(kept, now) /\ Tallies(kept, what, f, now)
      /\ \A o, e : Tallies(b, o, e, now) => Tallies(kept, o, e, now)
  BY PrunedTallies
<1>2. start \in 0..now /\ start + Window >= now /\ start = BucketStart(start)
  <2>1. BucketMs <= Window /\ BucketMs \in Nat /\ Window \in Nat /\ now \in Nat
    BY BucketWidth, BudgetAssumption
  <2>2. start \in 0..now /\ now < start + BucketMs /\ start = BucketStart(start)
    BY <2>1, BucketStartProperties
  <2> HIDE DEF start
  <2> QED
    BY <2>1, <2>2
<1>3. m = [s \in DOMAIN kept \cup {start} |-> IF s = start THEN new ELSE kept[s]]
  BY DEF Counted
<1> HIDE DEF kept, m, f2
<1>4. old \in [requests : Nat, retries : Nat]
  BY <1>1 DEF IsBuckets, Empty
<1>5. \A o \in Whats, e \in [0..MaxNow -> Nat] :
        Tallies(kept, o, e, now) => old[o] = SumOf(e, Bucket(start))
  <2> SUFFICES ASSUME NEW o \in Whats, NEW e \in [0..MaxNow -> Nat], Tallies(kept, o, e, now)
               PROVE  old[o] = SumOf(e, Bucket(start))
    OBVIOUS
  <2>1. CASE start \in DOMAIN kept
    BY <1>2, <2>1 DEF Tallies
  <2>2. CASE start \notin DOMAIN kept
    <3>1. \A i \in Bucket(start) : e[i] = 0
      BY <1>2, <2>2 DEF Tallies, Bucket
    <3>2. IsFiniteSet(Bucket(start))
      BY TimesSummable DEF Bucket, Summable
    <3>3. SumOf(e, Bucket(start)) = 0
      <4> HIDE DEF start
      <4> QED
        BY <3>1, <3>2, SumZero
    <3>4. old[o] = 0
      BY <2>2 DEF Empty, Whats
    <3> QED
      BY <3>3, <3>4
  <2> QED
    BY <2>1, <2>2
<1> HIDE DEF old
<1>6. old[what] \in Nat /\ n \in Nat
  BY <1>4 DEF Whats
<1> HIDE DEF n
<1>7. /\ new \in [requests : Nat, retries : Nat] /\ new[what] = n
      /\ \A other \in Whats \ {what} : new[other] = old[other]
  BY <1>4, <1>6 DEF Whats
<1> HIDE DEF new, start
<1>8. /\ DOMAIN m = DOMAIN kept \cup {start} /\ m = [s \in DOMAIN m |-> m[s]]
      /\ m[start] = new /\ \A s \in DOMAIN kept : s # start => m[s] = kept[s]
  BY <1>3
<1>9. IsBuckets(m, now)
  BY <1>1, <1>2, <1>7, <1>8 DEF IsBuckets
<1>10. f2 \in [0..MaxNow -> Nat] /\ f2[now] = f[now] + 1 /\ \A i \in 0..MaxNow : i # now => f2[i] = f[i]
  BY DEF f2
<1>11. now \in Bucket(start) /\ \A s : s # start => now \notin Bucket(s)
  BY DEF Bucket, start
<1>12. Tallies(m, what, f2, now)
  <2>1. SumOf(f2, Bucket(start)) = n
    <3>1. Summable(f, Bucket(start))
      BY TimesSummable DEF Bucket
    <3>2. f2[now] = f[now] + 1 /\ \A i \in Bucket(start) \ {now} : f2[i] = f[i]
      BY <1>10 DEF Bucket
    <3>3. SumOf(f2, Bucket(start)) = SumOf(f, Bucket(start)) + 1
      BY <1>11, <3>1, <3>2, SumOneMore
    <3>4. old[what] = SumOf(f, Bucket(start))
      BY <1>1, <1>5
    <3> QED
      BY <3>3, <3>4 DEF n
  <2>2. ASSUME NEW s \in DOMAIN m, s # start, s + Window >= now
        PROVE  m[s][what] = SumOf(f2, Bucket(s))
    <3>1. m[s][what] = SumOf(f, Bucket(s))
      BY <1>1, <1>8, <2>2 DEF Tallies
    <3>2. Summable(f, Bucket(s)) /\ \A i \in Bucket(s) : f[i] = f2[i]
      BY <1>10, <1>11, <2>2, TimesSummable DEF Bucket
    <3>3. SumOf(f, Bucket(s)) = SumOf(f2, Bucket(s))
      BY <3>2, SumSame
    <3> QED
      BY <3>1, <3>3
  <2>3. ASSUME NEW i \in 0..MaxNow, BucketStart(i) + Window >= now, f2[i] # 0
        PROVE  BucketStart(i) \in DOMAIN m
    <3>1. CASE i = now
      BY <1>8, <3>1 DEF start
    <3>2. CASE i # now
      BY <1>1, <1>8, <1>10, <2>3, <3>2 DEF Tallies
    <3> QED
      BY <3>1, <3>2
  <2>4. \A s \in DOMAIN m : s + Window >= now => m[s][what] = SumOf(f2, Bucket(s))
    BY <1>7, <1>8, <2>1, <2>2
  <2> QED
    BY <2>3, <2>4 DEF Tallies
<1>13. ASSUME NEW other \in Whats \ {what}, NEW e \in [0..MaxNow -> Nat], Tallies(b, other, e, now)
       PROVE  Tallies(m, other, e, now)
  <2>1. Tallies(kept, other, e, now)
    BY <1>1, <1>13
  <2>2. m[start][other] = SumOf(e, Bucket(start))
    BY <1>5, <1>7, <1>8, <2>1
  <2>3. \A s \in DOMAIN m : s + Window >= now => m[s][other] = SumOf(e, Bucket(s))
    BY <1>8, <2>1, <2>2 DEF Tallies
  <2>4. \A i \in 0..MaxNow :
          BucketStart(i) + Window >= now /\ e[i] # 0 => BucketStart(i) \in DOMAIN m
    BY <1>8, <2>1 DEF Tallies
  <2> QED
    BY <2>3, <2>4 DEF Tallies
<1> QED
  BY <1>9, <1>12, <1>13 DEF m, f2

-----------------------------------------------------------------------------
(* The operations of a turn *)

(* What the registries hold of p, and what they remember.                  *)
LEMMA TurnValues ==
  ASSUME NEW g, NEW p, NEW H, NEW u, Turn(g, p, H, u)
  PROVE  /\ g["bulkhead"].entries[p].value
              \in [holders : SUBSET Tickets, running : SUBSET Tickets,
                   pausedUntil : Nat, fullAt : Nat]
         /\ RemembersPause(g["bulkhead"].entries[p].value, u, now)
         /\ g["breaker"].entries[p].value
              \in [holders : SUBSET Tickets, state : {"closed", "open", "half-open"},
                   openedAt : 0..MaxNow]
         /\ RemembersOpen(g["breaker"].entries[p].value, u, now)
         /\ IsBuckets(g["budget"].entries[p].value.buckets, now)
         /\ RemembersCounts(g["budget"].entries[p].value, u, now)
<1>1. /\ Good("bulkhead", g["bulkhead"], p, H, u) /\ Good("breaker", g["breaker"], p, H, u)
      /\ Good("budget", g["budget"], p, H, u)
  BY DEF Turn, Kinds
<1>2. /\ IsValue("bulkhead", g["bulkhead"].entries[p].value, now)
      /\ IsValue("breaker", g["breaker"].entries[p].value, now)
      /\ IsValue("budget", g["budget"].entries[p].value, now)
  BY <1>1, GoodValue DEF Kinds
<1>3. /\ RemembersPause(g["bulkhead"].entries[p].value, u, now)
      /\ RemembersOpen(g["breaker"].entries[p].value, u, now)
      /\ RemembersCounts(g["budget"].entries[p].value, u, now)
  BY <1>1 DEF Good, Remembers
<1> QED
  BY <1>2, <1>3 DEF IsValue, Values

(* The attempt takes a token.                                              *)
LEMMA StartedTurn ==
  ASSUME NEW g, NEW p, NEW H, NEW u \in Truths, Turn(g, p, H, u), now \in 0..MaxNow,
         NEW t \in Tickets
  PROVE  LET v == g["bulkhead"].entries[p].value
             w == [u EXCEPT !.fullAt = now + Refill]
         IN /\ Turn([g EXCEPT !["bulkhead"].entries[p].value =
                       [v EXCEPT !.running = @ \cup {t}, !.fullAt = now + Refill]], p, H, w)
            /\ w \in Truths
<1> DEFINE v == g["bulkhead"].entries[p].value
           n == now + Refill
           v2 == [v EXCEPT !.running = v.running \cup {t}, !.pausedUntil = v.pausedUntil, !.fullAt = n]
           w == [u EXCEPT !.pausedUntil = u.pausedUntil, !.fullAt = n]
<1>1. /\ v \in [holders : SUBSET Tickets, running : SUBSET Tickets,
                pausedUntil : Nat, fullAt : Nat]
      /\ RemembersPause(v, u, now)
  BY TurnValues
<1>2. n \in Nat /\ u.pausedUntil \in Nat
  BY HostAssumption DEF Truths
<1>3. [v EXCEPT !.running = @ \cup {t}, !.fullAt = n] = v2
  <2> HIDE DEF v, n
  <2> QED
    BY <1>1
<1>4. [u EXCEPT !.fullAt = n] = w
  BY DEF Truths
<1>5. Turn([g EXCEPT !["bulkhead"] = With(@, p, v2)], p, H, w) /\ w \in Truths
  <2>1. Larger(v.pausedUntil, now) = Larger(u.pausedUntil, now)
    BY <1>1 DEF RemembersPause
  <2>2. v.running \cup {t} \in SUBSET Tickets /\ v.pausedUntil \in Nat
    BY <1>1
  <2> HIDE DEF n
  <2> QED
    BY <1>2, <2>1, <2>2, BulkheadTurn
<1>6. [g EXCEPT !["bulkhead"].entries[p].value = [v EXCEPT !.running = @ \cup {t}, !.fullAt = n]]
        = [g EXCEPT !["bulkhead"] = With(@, p, v2)]
  <2> HIDE DEF v2, n
  <2> QED
    BY <1>3 DEF With
<1> QED
  BY <1>4, <1>5, <1>6

(* The slot is given back.                                                 *)
LEMMA StoppedTurn ==
  ASSUME NEW g, NEW p, NEW H, NEW u \in Truths, Turn(g, p, H, u), NEW t \in Tickets
  PROVE  Turn(Stopped(g, p, t), p, H, u)
<1> DEFINE v == g["bulkhead"].entries[p].value
           v2 == [v EXCEPT !.running = v.running \ {t}, !.pausedUntil = v.pausedUntil,
                           !.fullAt = v.fullAt]
           w == [u EXCEPT !.pausedUntil = u.pausedUntil, !.fullAt = u.fullAt]
<1>1. /\ v \in [holders : SUBSET Tickets, running : SUBSET Tickets,
                pausedUntil : Nat, fullAt : Nat]
      /\ RemembersPause(v, u, now)
  BY TurnValues
<1>2. u = w /\ u.pausedUntil \in Nat /\ u.fullAt \in Nat
  BY DEF Truths
<1>3. [v EXCEPT !.running = @ \ {t}] = v2
  <2> HIDE DEF v
  <2> QED
    BY <1>1
<1>4. Turn([g EXCEPT !["bulkhead"] = With(@, p, v2)], p, H, w)
  <2>1. /\ Larger(v.pausedUntil, now) = Larger(u.pausedUntil, now)
        /\ Larger(v.fullAt, now) = Larger(u.fullAt, now)
    BY <1>1 DEF RemembersPause
  <2>2. v.running \ {t} \in SUBSET Tickets /\ v.pausedUntil \in Nat /\ v.fullAt \in Nat
    BY <1>1
  <2> QED
    BY <1>2, <2>1, <2>2, BulkheadTurn
<1>5. Stopped(g, p, t) = [g EXCEPT !["bulkhead"] = With(@, p, v2)]
  BY <1>3 DEF Stopped, With
<1> QED
  BY <1>2, <1>4, <1>5

(* The pause moves forward, and empties the bucket.                        *)
LEMMA PausedTurn ==
  ASSUME NEW g, NEW p, NEW H, NEW u \in Truths, Turn(g, p, H, u), now \in 0..MaxNow
  PROVE  LET w == [u EXCEPT !.pausedUntil = Larger(@, now + PauseFor),
                            !.fullAt = Larger(@, now + PauseFor + Refill)]
         IN Turn(Paused(g, p), p, H, w) /\ w \in Truths
<1> DEFINE v == g["bulkhead"].entries[p].value
           a == now + PauseFor
           b == now + PauseFor + Refill
           pv == Larger(v.pausedUntil, a)
           fv == Larger(v.fullAt, b)
           pu == Larger(u.pausedUntil, a)
           fu == Larger(u.fullAt, b)
           v2 == [v EXCEPT !.running = v.running, !.pausedUntil = pv, !.fullAt = fv]
           w == [u EXCEPT !.pausedUntil = pu, !.fullAt = fu]
<1>1. /\ v \in [holders : SUBSET Tickets, running : SUBSET Tickets,
                pausedUntil : Nat, fullAt : Nat]
      /\ RemembersPause(v, u, now)
  BY TurnValues
<1>2. u.pausedUntil \in Nat /\ u.fullAt \in Nat /\ v.pausedUntil \in Nat /\ v.fullAt \in Nat
  BY <1>1 DEF Truths
<1>3. [v EXCEPT !.pausedUntil = Larger(@, a), !.fullAt = Larger(@, b)] = v2
  <2> HIDE DEF v, a, b
  <2> QED
    BY <1>1
<1>4. pv \in Nat /\ fv \in Nat /\ pu \in Nat /\ fu \in Nat
      /\ Larger(pv, now) = Larger(pu, now) /\ Larger(fv, now) = Larger(fu, now)
  <2>1. now \in Nat /\ PauseFor \in Nat /\ Refill \in Nat
    BY HostAssumption
  <2>2. /\ Larger(v.pausedUntil, now) = Larger(u.pausedUntil, now)
        /\ Larger(v.fullAt, now) = Larger(u.fullAt, now)
    BY <1>1 DEF RemembersPause
  <2> HIDE DEF v
  <2> QED
    BY <1>2, <2>1, <2>2 DEF Larger
<1>5. Turn([g EXCEPT !["bulkhead"] = With(@, p, v2)], p, H, w) /\ w \in Truths
  <2>1. v.running \in SUBSET Tickets
    BY <1>1
  <2> HIDE DEF pv, fv, pu, fu
  <2> QED
    BY <1>4, <2>1, BulkheadTurn
<1>6. Paused(g, p) = [g EXCEPT !["bulkhead"] = With(@, p, v2)]
  <2> HIDE DEF v2
  <2> QED
    BY <1>3 DEF Paused, With
<1> QED
  BY <1>5, <1>6

(* A breaker that admits does not have to be open.                         *)
LEMMA PermitTurn ==
  ASSUME NEW g, NEW p, NEW H, NEW u \in Truths, Turn(g, p, H, u), now \in 0..MaxNow,
         Admits(g["breaker"].entries[p].value, p)
  PROVE  Turn([g EXCEPT !["breaker"] = WithPermit(@, p)], p, H, u)
<1> DEFINE v == g["breaker"].entries[p].value
           state == IF v.state = "closed" THEN "closed" ELSE "half-open"
           v2 == [v EXCEPT !.state = state, !.openedAt = v.openedAt]
           w == [u EXCEPT !.openUntil = u.openUntil]
<1>1. /\ v \in [holders : SUBSET Tickets, state : {"closed", "open", "half-open"},
                openedAt : 0..MaxNow]
      /\ RemembersOpen(v, u, now)
  BY TurnValues
<1>2. u = w /\ u.openUntil \in Nat
  BY DEF Truths
<1>3. Acquired(v) = v2
  <2> HIDE DEF v
  <2> QED
    BY <1>1 DEF Acquired
<1>4. Turn([g EXCEPT !["breaker"] = With(@, p, v2)], p, H, w)
  <2>1. ~(u.openUntil > now)
    <3> HIDE DEF v
    <3>1. v.openedAt \in Nat /\ now \in Nat /\ Reset \in Nat
      BY <1>1, HostAssumption
    <3>2. v.state = "open" => now >= v.openedAt + Reset
      BY DEF Admits, v
    <3> QED
      BY <1>1, <1>2, <3>1, <3>2 DEF RemembersOpen
  <2>2. state \in {"closed", "open", "half-open"} /\ v.openedAt \in 0..MaxNow
    BY <1>1
  <2> HIDE DEF state
  <2> QED
    BY <1>2, <2>1, <2>2, BreakerTurn
<1>5. [g EXCEPT !["breaker"] = WithPermit(@, p)] = [g EXCEPT !["breaker"] = With(@, p, v2)]
  <2> HIDE DEF v2
  <2> QED
    BY <1>3 DEF WithPermit, With
<1> QED
  BY <1>2, <1>4, <1>5

(* A trial that succeeds closes the breaker.                               *)
LEMMA ClosedTurn ==
  ASSUME NEW g, NEW p, NEW H, NEW u \in Truths, Turn(g, p, H, u), now \in 0..MaxNow, NEW t
  PROVE  LET w == [u EXCEPT !.openUntil = IF tk[t].trial THEN 0 ELSE u.openUntil]
         IN Turn(Closed(t, g, p), p, H, w) /\ w \in Truths
<1> DEFINE v == g["breaker"].entries[p].value
           v2 == [v EXCEPT !.state = "closed", !.openedAt = v.openedAt]
           w0 == [u EXCEPT !.openUntil = 0]
<1>1. v \in [holders : SUBSET Tickets, state : {"closed", "open", "half-open"},
             openedAt : 0..MaxNow]
  BY TurnValues
<1>2. [u EXCEPT !.openUntil = u.openUntil] = u /\ 0 \in Nat
  BY DEF Truths
<1>3. [v EXCEPT !.state = "closed"] = v2
  <2> HIDE DEF v
  <2> QED
    BY <1>1
<1>4. Turn([g EXCEPT !["breaker"] = With(@, p, v2)], p, H, w0) /\ w0 \in Truths
  <2>1. ~(0 > now) /\ v.openedAt \in 0..MaxNow /\ "closed" \in {"closed", "open", "half-open"}
    BY <1>1
  <2> QED
    BY <1>2, <2>1, BreakerTurn
<1>5. [g EXCEPT !["breaker"].entries[p].value = [@ EXCEPT !.state = "closed"]]
        = [g EXCEPT !["breaker"] = With(@, p, v2)]
  <2> HIDE DEF v2
  <2> QED
    BY <1>3 DEF With
<1>6. CASE tk[t].trial
  BY <1>4, <1>5, <1>6 DEF Closed
<1>7. CASE ~tk[t].trial
  BY <1>2, <1>7 DEF Closed
<1> QED
  BY <1>6, <1>7

(* A breaker that opens is open until its timeout.                         *)
LEMMA OpenedTurn ==
  ASSUME NEW g, NEW p, NEW H, NEW u \in Truths, Turn(g, p, H, u), now \in 0..MaxNow
  PROVE  LET w == [u EXCEPT !.openUntil = now + Reset]
         IN Turn(Opened(g, p), p, H, w) /\ w \in Truths
<1> DEFINE v == g["breaker"].entries[p].value
           n == now + Reset
           v2 == [v EXCEPT !.state = "open", !.openedAt = now]
           w == [u EXCEPT !.openUntil = n]
<1>1. n \in Nat /\ now + Reset = n
  BY HostAssumption
<1>2. Turn([g EXCEPT !["breaker"] = With(@, p, v2)], p, H, w) /\ w \in Truths
  <2> HIDE DEF n
  <2> QED
    BY <1>1, BreakerTurn
<1>3. Opened(g, p) = [g EXCEPT !["breaker"] = With(@, p, v2)]
  BY DEF Opened, With
<1> QED
  BY <1>2, <1>3

(* A request or a retry is counted.                                        *)
LEMMA CountedTurn ==
  ASSUME NEW g, NEW p, NEW H, NEW u \in Truths, Turn(g, p, H, u), now \in 0..MaxNow,
         NEW what \in Whats
  PROVE  LET w == [u EXCEPT ![what][now] = @ + 1]
         IN /\ Turn([g EXCEPT !["budget"].entries[p].value.buckets = Counted(@, what)], p, H, w)
            /\ w \in Truths
<1> DEFINE v == g["budget"].entries[p].value
           b == Counted(v.buckets, what)
           f == [u[what] EXCEPT ![now] = @ + 1]
           w == [u EXCEPT ![what] = f]
           v2 == [v EXCEPT !.buckets = b]
<1>1. IsBuckets(v.buckets, now) /\ RemembersCounts(v, u, now)
  BY TurnValues
<1>2. \A o \in Whats : u[o] \in [0..MaxNow -> Nat] /\ Tallies(v.buckets, o, u[o], now)
  BY <1>1 DEF Truths, Whats, RemembersCounts
<1>3. f \in [0..MaxNow -> Nat]
  <2> DEFINE e == u[what]
  <2>1. e \in [0..MaxNow -> Nat]
    BY <1>2
  <2> HIDE DEF e
  <2>2. [e EXCEPT ![now] = e[now] + 1] \in [0..MaxNow -> Nat]
    BY <2>1
  <2> QED
    BY <2>2 DEF e
<1>4. /\ IsBuckets(b, now) /\ Tallies(b, what, f, now)
      /\ \A o \in Whats \ {what} : Tallies(b, o, u[o], now)
  <2>1. u[what] \in [0..MaxNow -> Nat] /\ Tallies(v.buckets, what, u[what], now)
    BY <1>2
  <2> HIDE DEF v
  <2> QED
    BY <1>1, <1>2, <2>1, CountedTallies
<1> HIDE DEF f
<1>5. /\ w \in Truths /\ w[what] = f /\ \A o \in Whats \ {what} : w[o] = u[o]
      /\ w.pausedUntil = u.pausedUntil /\ w.fullAt = u.fullAt /\ w.openUntil = u.openUntil
  BY <1>3 DEF Truths, Whats
<1> HIDE DEF w, b
<1>6. Tallies(b, "requests", w.requests, now) /\ Tallies(b, "retries", w.retries, now)
  <2>1. \A o \in Whats : Tallies(b, o, w[o], now)
    BY <1>4, <1>5
  <2>2. Tallies(b, "requests", w["requests"], now) /\ Tallies(b, "retries", w["retries"], now)
    BY <2>1 DEF Whats
  <2> QED
    BY <2>2
<1>7. Agree("bulkhead", u, w) /\ Agree("breaker", u, w)
  BY <1>5 DEF Agree
<1>8. Turn([g EXCEPT !["budget"] = With(@, p, v2)], p, H, w)
  BY <1>4, <1>5, <1>6, <1>7, BudgetTurn
<1>9. [g EXCEPT !["budget"].entries[p].value.buckets = Counted(@, what)]
        = [g EXCEPT !["budget"] = With(@, p, v2)]
  BY DEF With, b
<1>10. [u EXCEPT ![what][now] = @ + 1] = w
  BY DEF w, f
<1> QED
  BY <1>5, <1>8, <1>9, <1>10

(* A refused retry only prunes.                                            *)
LEMMA PrunedTurn ==
  ASSUME NEW g, NEW p, NEW H, NEW u \in Truths, Turn(g, p, H, u), now \in 0..MaxNow
  PROVE  Turn([g EXCEPT !["budget"].entries[p].value.buckets = Pruned(@)], p, H, u)
<1> DEFINE v == g["budget"].entries[p].value
           b == Pruned(v.buckets)
           v2 == [v EXCEPT !.buckets = b]
<1>1. IsBuckets(v.buckets, now) /\ RemembersCounts(v, u, now)
  BY TurnValues
<1>2. IsBuckets(b, now) /\ Tallies(b, "requests", u.requests, now) /\ Tallies(b, "retries", u.retries, now)
  <2> HIDE DEF v
  <2> QED
    BY <1>1, PrunedTallies DEF RemembersCounts
<1> HIDE DEF b
<1>3. Turn([g EXCEPT !["budget"] = With(@, p, v2)], p, H, u)
  BY <1>2, BudgetTurn DEF Agree
<1>4. [g EXCEPT !["budget"].entries[p].value.buckets = Pruned(@)]
        = [g EXCEPT !["budget"] = With(@, p, v2)]
  BY DEF With, b
<1> QED
  BY <1>3, <1>4

-----------------------------------------------------------------------------
(* Every action preserves the invariant *)

(* A turn of t about p that ends with all that has to be remembered.       *)
LEMMA TurnEnds ==
  ASSUME IInv, NEW t \in Tickets, NEW p \in Partitions,
         tk[t].stage \in Going => tk[t].partition = p,
         NEW rec \in TicketRecords, tk' = [tk EXCEPT ![t] = rec],
         rec.stage \in Going => rec.partition = p,
         rec.stage = "failed" => rec.retries < MaxRetries,
         NEW H, H = (LiveAt(p) \ {t}) \cup (IF rec.stage \in Going THEN {t} ELSE {}),
         NEW u \in Truths, Turn(reg', p, H, u),
         truth' = [truth EXCEPT ![p] = u],
         now' = now
  PROVE  IInv'
<1>1. /\ now \in 0..MaxNow /\ tk \in [Tickets -> TicketRecords]
      /\ truth \in [Partitions -> Truths]
      /\ \A x \in Tickets :
           /\ tk[x].stage \in Going => tk[x].partition \in Partitions
           /\ tk[x].stage = "failed" => tk[x].retries < MaxRetries
      /\ \A k \in Kinds, q \in Partitions :
           /\ IsRegistry(k, reg[k], now)
           /\ Mem(k, reg[k], q).holders = LiveAt(q)
           /\ Remembers(k, Mem(k, reg[k], q), truth[q], now)
  BY DEF IInv
<1>2. tk' \in [Tickets -> TicketRecords] /\ tk'[t] = rec /\ \A x \in Tickets \ {t} : tk'[x] = tk[x]
  BY <1>1
<1>3. truth' \in [Partitions -> Truths] /\ truth'[p] = u /\ \A q \in Partitions \ {p} : truth'[q] = truth[q]
  BY <1>1
<1>4. \A x \in Tickets :
        /\ tk'[x].stage \in Going => tk'[x].partition \in Partitions
        /\ tk'[x].stage = "failed" => tk'[x].retries < MaxRetries
  BY <1>1, <1>2
<1>5. LiveAt(p)' = H
  BY <1>2 DEF LiveAt
<1>6. \A q \in Partitions \ {p} : LiveAt(q)' = LiveAt(q)
  BY <1>2 DEF LiveAt
<1>7. reg' = [k \in Kinds |-> reg'[k]] /\ \A k \in Kinds : Good(k, reg'[k], p, H, u)
  BY DEF Turn
<1>8. \A k \in Kinds : IsRegistry(k, reg'[k], now)
  BY <1>7 DEF Good
<1>9. ASSUME NEW k \in Kinds, NEW q \in Partitions
      PROVE  /\ Mem(k, reg'[k], q).holders = LiveAt(q)'
             /\ Remembers(k, Mem(k, reg'[k], q), truth'[q], now)
  <2>1. CASE q = p
    BY <1>3, <1>5, <1>7, <2>1 DEF Good, Mem
  <2>2. CASE q # p
    <3> DEFINE old == Mem(k, reg[k], q)
               new == Mem(k, reg'[k], q)
    <3>1. old.holders = LiveAt(q) /\ Remembers(k, old, truth[q], now) /\ IsValue(k, old, now)
      <4>1. IsRegistry(k, reg[k], now) /\ now \in 0..MaxNow
        BY <1>1
      <4>2. IsValue(k, Mem(k, reg[k], q), now)
        BY <4>1, MemIsValue
      <4> QED
        BY <1>1, <4>2
    <3>2. new = old \/ (new = NewEntry(k) /\ Evictable(k, old))
      BY <1>7, <2>2 DEF Good, Elsewhere
    <3> HIDE DEF old, new
    <3>3. CASE new = old
      BY <1>3, <1>6, <2>2, <3>1, <3>3 DEF new
    <3>4. CASE new = NewEntry(k) /\ Evictable(k, old)
      <4>1. LiveAt(q) = {} /\ Idle(k, old)
        BY <3>1, <3>4 DEF Evictable
      <4>2. Remembers(k, NewEntry(k), truth[q], now)
        BY <1>1, <3>1, <4>1, IdleIsForgettable
      <4>3. NewEntry(k).holders = {}
        BY <1>1, NewEntryProperties
      <4> QED
        BY <1>3, <1>6, <2>2, <3>4, <4>1, <4>2, <4>3 DEF new
    <3> QED
      BY <3>2, <3>3, <3>4
  <2> QED
    BY <2>1, <2>2
<1>10. /\ (now \in 0..MaxNow)' /\ (reg = [k \in Kinds |-> reg[k]])'
       /\ (tk \in [Tickets -> TicketRecords])' /\ (truth \in [Partitions -> Truths])'
  BY <1>1, <1>2, <1>3, <1>7
<1>11. (\A k \in Kinds : IsRegistry(k, reg[k], now))'
  BY <1>8
<1>12. (\A x \in Tickets :
         /\ tk[x].stage \in Going => tk[x].partition \in Partitions
         /\ tk[x].stage = "failed" => tk[x].retries < MaxRetries)'
  BY <1>4
<1>13. (\A k \in Kinds, q \in Partitions :
         /\ Mem(k, reg[k], q).holders = LiveAt(q)
         /\ Remembers(k, Mem(k, reg[k], q), truth[q], now))'
  BY <1>9
<1> QED
  BY <1>10, <1>11, <1>12, <1>13 DEF IInv

(* A ticket that is over is no longer live.                                *)
LEMMA OverProperties ==
  ASSUME NEW stage \in {"done", "refused", "unsent"}
  PROVE  /\ Over(stage) \in TicketRecords /\ Over(stage).stage \notin Going
         /\ Over(stage).stage # "failed" /\ Over(stage).retries = 0
BY ClockAssumption DEF Over, TicketRecords, Stages, Going

(* What is known of a ticket that is on its way.                           *)
LEMMA GoingTicket ==
  ASSUME IInv, NEW t \in Tickets, tk[t].stage \in Going
  PROVE  /\ tk[t].partition \in Partitions
         /\ truth[tk[t].partition] \in Truths
         /\ now \in 0..MaxNow /\ now \in Nat
         /\ tk[t] \in TicketRecords
BY DEF IInv

(* Nothing new to remember of p.                                           *)
LEMMA TruthSame ==
  ASSUME IInv, NEW p \in Partitions, truth' = truth
  PROVE  truth' = [truth EXCEPT ![p] = truth[p]] /\ truth[p] \in Truths
BY DEF IInv

LEMMA SendKeeps ==
  ASSUME IInv, NEW t \in Tickets, Send(t)
  PROVE  IInv'
<1>1. tk[t].stage \notin Going /\ now' = now /\ now \in 0..MaxNow /\ tk \in [Tickets -> TicketRecords]
  BY DEF Send, At, Going, IInv
<1>2. PICK p \in Partitions :
        SendRefused(t, p, Held(p, t)) \/ SendAdmitted(t, p, Held(p, t))
  BY DEF Send
<1> DEFINE held == Held(p, t)
<1>3. Turn(held, p, LiveAt(p) \cup {t}, truth[p]) /\ truth[p] \in Truths
  BY HeldGood DEF IInv
<1> HIDE DEF held
<1>4. CASE SendRefused(t, p, held)
  <2>1. Turn(reg', p, LiveAt(p) \ {t}, truth[p])
    <3>1. Turn(LetGo(held, p, t), p, (LiveAt(p) \cup {t}) \ {t}, truth[p])
      BY <1>3, LetGoGood
    <3>2. (LiveAt(p) \cup {t}) \ {t} = LiveAt(p) \ {t}
      OBVIOUS
    <3> QED
      BY <1>4, <3>1, <3>2 DEF SendRefused
  <2>2. truth' = [truth EXCEPT ![p] = truth[p]]
    BY <1>4, TruthSame DEF SendRefused
  <2> DEFINE rec == Over("done")
  <2>3. tk' = [tk EXCEPT ![t] = rec]
    BY <1>4 DEF SendRefused, Become
  <2>4. rec \in TicketRecords /\ rec.stage \notin Going /\ rec.stage # "failed"
    BY OverProperties
  <2> HIDE DEF rec
  <2> QED
    BY <1>1, <1>3, <2>1, <2>2, <2>3, <2>4, TurnEnds
<1>5. CASE SendAdmitted(t, p, held)
  <2> DEFINE u == truth[p]
             w == [u EXCEPT !["requests"][now] = @ + 1]
             g1 == [held EXCEPT !["breaker"] = WithPermit(@, p)]
             g2 == [g1 EXCEPT !["budget"].entries[p].value.buckets = Counted(@, "requests")]
             rec == [stage |-> "waiting", partition |-> p, retries |-> 0,
                     trial |-> held["breaker"].entries[p].value.state # "closed"]
  <2>1. Turn(g1, p, LiveAt(p) \cup {t}, u)
    <3>1. Admits(held["breaker"].entries[p].value, p)
      BY <1>5 DEF SendAdmitted
    <3> QED
      BY <1>1, <1>3, <3>1, PermitTurn
  <2>2. Turn(g2, p, LiveAt(p) \cup {t}, w) /\ w \in Truths
    <3>1. "requests" \in Whats
      BY DEF Whats
    <3> HIDE DEF g1, u
    <3>2. u \in Truths
      BY <1>3 DEF u
    <3> QED
      BY <1>1, <2>1, <3>1, <3>2, CountedTurn
  <2>3. reg' = g2
    <3>1. reg' = [held EXCEPT !["breaker"] = WithPermit(@, p), !["budget"] = WithRequest(@, p)]
      BY <1>5 DEF SendAdmitted
    <3> QED
      BY <3>1 DEF WithRequest
  <2>4. truth' = [truth EXCEPT ![p] = w]
    BY <1>5 DEF SendAdmitted, Log
  <2>5. tk' = [tk EXCEPT ![t] = rec]
    BY <1>5 DEF SendAdmitted, Become
  <2>6. rec \in TicketRecords /\ rec.stage \in Going /\ rec.partition = p /\ rec.stage # "failed"
    BY ClockAssumption DEF TicketRecords, Stages, Going
  <2> HIDE DEF rec, g2, w
  <2>7. LiveAt(p) \cup {t} = (LiveAt(p) \ {t}) \cup (IF rec.stage \in Going THEN {t} ELSE {})
    BY <2>6
  <2> QED
    BY <1>1, <2>2, <2>3, <2>4, <2>5, <2>6, <2>7, TurnEnds
<1> QED
  BY <1>2, <1>4, <1>5 DEF held

LEMMA StartKeeps ==
  ASSUME IInv, NEW t \in Tickets, Start(t)
  PROVE  IInv'
<1> DEFINE p == tk[t].partition
           u == truth[p]
           w == [u EXCEPT !.fullAt = now + Refill]
           rec == [tk[t] EXCEPT !.stage = "running"]
<1>1. tk[t].stage = "waiting" /\ tk[t].stage \in Going /\ now' = now
  BY DEF Start, At, Going
<1>2. p \in Partitions /\ u \in Truths /\ now \in 0..MaxNow /\ tk[t] \in TicketRecords
  BY <1>1, GoingTicket
<1>3. Turn(reg, p, LiveAt(p), u)
  BY <1>1, TurnBegins
<1> HIDE DEF u
<1>4. Turn(reg', p, LiveAt(p), w) /\ w \in Truths
  <2>1. reg' = [reg EXCEPT !["bulkhead"].entries[p].value =
                  [Value("bulkhead", p) EXCEPT !.running = @ \cup {t}, !.fullAt = now + Refill]]
    BY DEF Start
  <2> HIDE DEF p
  <2> QED
    BY <1>2, <1>3, <2>1, StartedTurn DEF Value
<1>5. truth' = [truth EXCEPT ![p] = w]
  BY DEF Start, u
<1>6. tk' = [tk EXCEPT ![t] = rec]
  BY DEF Start, Become
<1>7. rec \in TicketRecords /\ rec.stage = "running" /\ rec.partition = p
  BY <1>2 DEF TicketRecords, Stages
<1> HIDE DEF rec, w
<1>8. LiveAt(p) = (LiveAt(p) \ {t}) \cup (IF rec.stage \in Going THEN {t} ELSE {})
  <2>1. t \in LiveAt(p) /\ rec.stage \in Going
    BY <1>1, <1>7 DEF LiveAt, Going
  <2> QED
    BY <2>1
<1> HIDE DEF p
<1>9. (tk[t].stage \in Going => tk[t].partition = p) /\ (rec.stage \in Going => rec.partition = p)
      /\ rec.stage # "failed"
  BY <1>7 DEF p
<1> QED
  BY <1>1, <1>2, <1>4, <1>5, <1>6, <1>7, <1>8, <1>9, TurnEnds

(* A ticket that lets go after all is remembered.                          *)
LEMMA OverKeeps ==
  ASSUME IInv, NEW t \in Tickets, tk[t].stage \in Going,
         NEW p, p = tk[t].partition, NEW g, NEW u \in Truths, Turn(g, p, LiveAt(p), u),
         reg' = LetGo(g, p, t), truth' = [truth EXCEPT ![p] = u], now' = now,
         NEW stage \in {"done", "refused"}, tk' = [tk EXCEPT ![t] = Over(stage)]
  PROVE  IInv'
<1> DEFINE rec == Over(stage)
<1>1. rec \in TicketRecords /\ rec.stage \notin Going /\ rec.stage # "failed"
  BY OverProperties
<1>2. Turn(reg', p, LiveAt(p) \ {t}, u)
  BY LetGoGood
<1>3. p \in Partitions /\ tk' = [tk EXCEPT ![t] = rec]
  BY GoingTicket
<1> HIDE DEF rec
<1>4. LiveAt(p) \ {t} = (LiveAt(p) \ {t}) \cup (IF rec.stage \in Going THEN {t} ELSE {})
  BY <1>1
<1> QED
  BY <1>1, <1>2, <1>3, <1>4, TurnEnds

LEMMA SucceedKeeps ==
  ASSUME IInv, NEW t \in Tickets, Succeed(t)
  PROVE  IInv'
<1> DEFINE p == tk[t].partition
           u == truth[p]
           g == Stopped(reg, p, t)
           w == [u EXCEPT !.openUntil = IF tk[t].trial THEN 0 ELSE u.openUntil]
<1>1. tk[t].stage \in Going /\ now' = now
  BY DEF Succeed, At, Going
<1>2. p \in Partitions /\ u \in Truths /\ now \in 0..MaxNow
  BY <1>1, GoingTicket
<1>3. Turn(reg, p, LiveAt(p), u)
  BY <1>1, TurnBegins
<1> HIDE DEF u
<1>4. Turn(g, p, LiveAt(p), u)
  BY <1>2, <1>3, StoppedTurn
<1>5. reg' = LetGo(Closed(t, g, p), p, t) /\ truth' = [truth EXCEPT ![p] = w]
      /\ tk' = [tk EXCEPT ![t] = Over("done")]
  BY DEF Succeed, Become, OpenUntil, u
<1> HIDE DEF g, p
<1>6. Turn(Closed(t, g, p), p, LiveAt(p), w) /\ w \in Truths
  BY <1>2, <1>4, ClosedTurn
<1> HIDE DEF w
<1>7. p = tk[t].partition
  BY DEF p
<1> QED
  BY <1>1, <1>5, <1>6, <1>7, OverKeeps

LEMMA GiveUpKeeps ==
  ASSUME IInv, NEW t \in Tickets, GiveUp(t)
  PROVE  IInv'
<1> DEFINE p == tk[t].partition
           u == truth[p]
           g == Stopped(reg, p, t)
<1>1. tk[t].stage \in Going /\ now' = now /\ truth' = truth
  BY DEF GiveUp, Going
<1>2. p \in Partitions /\ u \in Truths /\ now \in 0..MaxNow
  BY <1>1, GoingTicket
<1>3. Turn(reg, p, LiveAt(p), u)
  BY <1>1, TurnBegins
<1>4. truth' = [truth EXCEPT ![p] = u]
  BY <1>1, <1>2, TruthSame
<1> HIDE DEF u
<1>5. Turn(g, p, LiveAt(p), u)
  BY <1>2, <1>3, StoppedTurn
<1>6. reg' = LetGo(g, p, t) /\ tk' = [tk EXCEPT ![t] = Over("done")]
  BY DEF GiveUp, Become
<1> HIDE DEF g, p
<1>7. p = tk[t].partition
  BY DEF p
<1> QED
  BY <1>1, <1>2, <1>4, <1>5, <1>6, <1>7, OverKeeps

(* What an attempt that failed leaves behind.                              *)
LEMMA LeavesKeeps ==
  ASSUME IInv, NEW t \in Tickets, tk[t].stage \in Going,
         NEW p, p = tk[t].partition, NEW r, NEW known \in Truths, Turn(r, p, LiveAt(p), known),
         Leaves(t, r, known), now' = now
  PROVE  IInv'
<1> DEFINE pushed == [known EXCEPT !.pausedUntil = Larger(@, now + PauseFor),
                                   !.fullAt = Larger(@, now + PauseFor + Refill)]
<1>1. PICK pushback \in BOOLEAN, final \in BOOLEAN :
        LET paused == IF pushback THEN Paused(r, p) ELSE r
            after == IF pushback THEN pushed ELSE known
        IN /\ tk[t].retries = MaxRetries => final
           /\ reg' = IF final THEN LetGo(paused, p, t) ELSE paused
           /\ truth' = [truth EXCEPT ![p] = after]
           /\ Become(t, IF final THEN Over("done")
                        ELSE [tk[t] EXCEPT !.stage = "failed", !.trial = FALSE])
  BY DEF Leaves
<1> DEFINE paused == IF pushback THEN Paused(r, p) ELSE r
           after == IF pushback THEN pushed ELSE known
           rec == [tk[t] EXCEPT !.stage = "failed", !.trial = FALSE]
<1>2. /\ tk[t].retries = MaxRetries => final
      /\ reg' = IF final THEN LetGo(paused, p, t) ELSE paused
      /\ truth' = [truth EXCEPT ![p] = after]
      /\ tk' = [tk EXCEPT ![t] = IF final THEN Over("done") ELSE rec]
  BY <1>1 DEF Become
<1>3. p \in Partitions /\ now \in 0..MaxNow /\ tk[t] \in TicketRecords
  BY GoingTicket
<1>4. Turn(Paused(r, p), p, LiveAt(p), pushed) /\ pushed \in Truths
  BY <1>3, PausedTurn
<1> HIDE DEF pushed
<1>5. Turn(paused, p, LiveAt(p), after) /\ after \in Truths
  BY <1>4
<1> HIDE DEF paused, after
<1>6. CASE final
  <2>1. reg' = LetGo(paused, p, t) /\ tk' = [tk EXCEPT ![t] = Over("done")]
    BY <1>2, <1>6
  <2> QED
    BY <1>2, <1>5, <2>1, OverKeeps
<1>7. CASE ~final
  <2>1. reg' = paused /\ tk' = [tk EXCEPT ![t] = rec] /\ tk[t].retries # MaxRetries
    BY <1>2, <1>7
  <2>2. rec \in TicketRecords /\ rec.stage = "failed" /\ rec.partition = p
        /\ rec.retries < MaxRetries
    <3>1. tk[t].retries \in 0..MaxRetries /\ MaxRetries \in Nat
      BY <1>3, ClockAssumption DEF TicketRecords
    <3>2. rec \in TicketRecords /\ rec.stage = "failed" /\ rec.partition = p
          /\ rec.retries = tk[t].retries
      BY <1>3 DEF TicketRecords, Stages
    <3> QED
      BY <2>1, <3>1, <3>2
  <2> HIDE DEF rec
  <2>3. LiveAt(p) = (LiveAt(p) \ {t}) \cup (IF rec.stage \in Going THEN {t} ELSE {})
    <3>1. t \in LiveAt(p) /\ rec.stage \in Going
      BY <2>2 DEF LiveAt, Going
    <3> QED
      BY <3>1
  <2>4. Turn(reg', p, LiveAt(p), after)
    BY <1>5, <2>1
  <2> QED
    BY <1>2, <1>3, <1>5, <2>1, <2>2, <2>3, <2>4, TurnEnds
<1> QED
  BY <1>6, <1>7

LEMMA FailKeeps ==
  ASSUME IInv, NEW t \in Tickets, Fail(t)
  PROVE  IInv'
<1> DEFINE p == tk[t].partition
           u == truth[p]
           g == Stopped(reg, p, t)
           closed == [u EXCEPT !.openUntil = IF tk[t].trial THEN 0 ELSE u.openUntil]
           opened == [u EXCEPT !.openUntil = now + Reset]
<1>1. tk[t].stage \in Going /\ now' = now
  BY DEF Fail, At, Going
<1>2. p \in Partitions /\ u \in Truths /\ now \in 0..MaxNow
  BY <1>1, GoingTicket
<1>3. Turn(reg, p, LiveAt(p), u)
  BY <1>1, TurnBegins
<1>4. \/ Leaves(t, Opened(g, p), opened)
      \/ Leaves(t, g, u)
      \/ Leaves(t, Closed(t, g, p), closed)
  <2>1. \/ \E opens \in Opens(t, p) :
             Leaves(t, IF opens THEN Opened(g, p) ELSE g,
                    [u EXCEPT !.openUntil = IF opens THEN now + Reset ELSE @])
        \/ Leaves(t, Closed(t, g, p), closed)
    BY DEF Fail, OpenUntil
  <2>2. CASE Leaves(t, Closed(t, g, p), closed)
    BY <2>2
  <2>3. ASSUME NEW opens \in Opens(t, p),
               Leaves(t, IF opens THEN Opened(g, p) ELSE g,
                      [u EXCEPT !.openUntil = IF opens THEN now + Reset ELSE @])
        PROVE  Leaves(t, Opened(g, p), opened) \/ Leaves(t, g, u)
    <3> HIDE DEF g
    <3>1. [u EXCEPT !.openUntil = u.openUntil] = u
      BY <1>2 DEF Truths
    <3> HIDE DEF u
    <3>2. CASE opens
      BY <2>3, <3>2
    <3>3. CASE ~opens
      BY <2>3, <3>1, <3>3
    <3> QED
      BY <3>2, <3>3
  <2> QED
    BY <2>1, <2>2, <2>3
<1> HIDE DEF u
<1>5. Turn(g, p, LiveAt(p), u)
  BY <1>2, <1>3, StoppedTurn
<1> HIDE DEF g, p
<1>6. p = tk[t].partition
  BY DEF p
<1>7. Turn(Opened(g, p), p, LiveAt(p), opened) /\ opened \in Truths
  BY <1>2, <1>5, OpenedTurn
<1>8. Turn(Closed(t, g, p), p, LiveAt(p), closed) /\ closed \in Truths
  BY <1>2, <1>5, ClosedTurn
<1> HIDE DEF opened, closed
<1>9. CASE Leaves(t, Opened(g, p), opened)
  BY <1>1, <1>6, <1>7, <1>9, LeavesKeeps
<1>10. CASE Leaves(t, g, u)
  BY <1>1, <1>2, <1>5, <1>6, <1>10, LeavesKeeps
<1>11. CASE Leaves(t, Closed(t, g, p), closed)
  BY <1>1, <1>6, <1>8, <1>11, LeavesKeeps
<1> QED
  BY <1>4, <1>9, <1>10, <1>11

LEMMA RetryKeeps ==
  ASSUME IInv, NEW t \in Tickets, Retry(t)
  PROVE  IInv'
<1> DEFINE p == tk[t].partition
           u == truth[p]
           breaker == Value("breaker", p)
           buckets == Value("budget", p).buckets
           g1 == [reg EXCEPT !["breaker"] = WithPermit(@, p)]
           g2 == [g1 EXCEPT !["budget"].entries[p].value.buckets = Withdrawn(@)]
<1>1. tk[t].stage = "failed" /\ tk[t].stage \in Going /\ now' = now
  BY DEF Retry, At, Going
<1>2. p \in Partitions /\ u \in Truths /\ now \in 0..MaxNow /\ tk[t] \in TicketRecords
  BY <1>1, GoingTicket
<1>3. Turn(reg, p, LiveAt(p), u)
  BY <1>1, TurnBegins
<1>4. g2 = IF Grants(buckets)
           THEN [g1 EXCEPT !["budget"].entries[p].value.buckets = Counted(@, "retries")]
           ELSE [g1 EXCEPT !["budget"].entries[p].value.buckets = Pruned(@)]
  <2>1. g1["budget"].entries[p].value.buckets = buckets
    <3>1. reg = [k \in Kinds |-> reg[k]]
      BY DEF IInv
    <3>2. g1["budget"] = reg["budget"]
      BY <3>1 DEF Kinds
    <3> QED
      BY <3>2 DEF Value
  <2> HIDE DEF g1
  <2> QED
    BY <2>1 DEF Withdrawn
<1>5. CASE ~Admits(breaker, p)
  <2>1. reg' = LetGo(reg, p, t) /\ tk' = [tk EXCEPT ![t] = Over("done")] /\ truth' = truth
    BY <1>5 DEF Retry, Become
  <2>2. truth' = [truth EXCEPT ![p] = u]
    BY <1>2, <2>1, TruthSame
  <2> HIDE DEF u
  <2> QED
    BY <1>1, <1>2, <1>3, <2>1, <2>2, OverKeeps
<1>6. CASE Admits(breaker, p)
  <2>1. Turn(g1, p, LiveAt(p), u)
    BY <1>2, <1>3, <1>6, PermitTurn DEF Value
  <2>2. CASE ~Grants(buckets)
    <3>1. reg' = LetGo(g2, p, t) /\ tk' = [tk EXCEPT ![t] = Over("refused")] /\ truth' = truth
      BY <1>6, <2>2 DEF Retry, Become
    <3>2. truth' = [truth EXCEPT ![p] = u]
      BY <1>2, <3>1, TruthSame
    <3>3. Turn(g2, p, LiveAt(p), u)
      <4> HIDE DEF g1, u
      <4>1. Turn([g1 EXCEPT !["budget"].entries[p].value.buckets = Pruned(@)], p, LiveAt(p), u)
        BY <1>2, <2>1, PrunedTurn
      <4> HIDE DEF g2
      <4> QED
        BY <1>4, <2>2, <4>1
    <3> HIDE DEF g2, u
    <3> QED
      BY <1>1, <1>2, <3>1, <3>2, <3>3, OverKeeps
  <2>3. CASE Grants(buckets)
    <3> DEFINE w == [u EXCEPT !["retries"][now] = @ + 1]
               rec == [tk[t] EXCEPT !.stage = "waiting", !.retries = @ + 1,
                                    !.trial = breaker.state # "closed"]
    <3>1. reg' = g2 /\ tk' = [tk EXCEPT ![t] = rec] /\ truth' = [truth EXCEPT ![p] = w]
      BY <1>6, <2>3 DEF Retry, Become, Log
    <3>2. Turn(g2, p, LiveAt(p), w) /\ w \in Truths
      <4> HIDE DEF g1, u
      <4>1. "retries" \in Whats
        BY DEF Whats
      <4>2. /\ Turn([g1 EXCEPT !["budget"].entries[p].value.buckets = Counted(@, "retries")], p, LiveAt(p), w)
            /\ w \in Truths
        BY <1>2, <2>1, <4>1, CountedTurn
      <4> HIDE DEF g2, w
      <4> QED
        BY <1>4, <2>3, <4>2
    <3>3. rec \in TicketRecords /\ rec.stage = "waiting" /\ rec.partition = p
      <4> DEFINE n == tk[t].retries + 1
      <4>1. n \in 0..MaxRetries
        <5>1. tk[t].retries < MaxRetries /\ tk[t].retries \in 0..MaxRetries /\ MaxRetries \in Nat
          BY <1>1, <1>2, ClockAssumption DEF IInv, TicketRecords
        <5> QED
          BY <5>1
      <4> HIDE DEF n
      <4>2. rec = [tk[t] EXCEPT !.stage = "waiting", !.retries = n,
                                !.trial = breaker.state # "closed"]
        BY DEF n
      <4> QED
        BY <1>2, <4>1, <4>2 DEF TicketRecords, Stages
    <3> HIDE DEF rec
    <3>4. LiveAt(p) = (LiveAt(p) \ {t}) \cup (IF rec.stage \in Going THEN {t} ELSE {})
      <4>1. t \in LiveAt(p) /\ rec.stage \in Going
        BY <1>1, <3>3 DEF LiveAt, Going
      <4> QED
        BY <4>1
    <3> HIDE DEF g2, w, u
    <3>5. /\ tk[t].stage \in Going => tk[t].partition = p
          /\ rec.stage \in Going => rec.partition = p
          /\ rec.stage # "failed"
      BY <3>3
    <3>6. Turn(reg', p, LiveAt(p), w)
      BY <3>1, <3>2
    <3> HIDE DEF p
    <3> QED
      BY <1>1, <1>2, <3>1, <3>2, <3>3, <3>4, <3>5, <3>6, TurnEnds
  <2> QED
    BY <2>2, <2>3
<1> QED
  BY <1>5, <1>6

(* Time goes by: what falls out of the window was in no bucket of it.      *)
LEMMA RememberedTallies ==
  ASSUME now \in 0..MaxNow, NEW b, IsBuckets(b, now), NEW what \in Whats,
         NEW f \in [0..MaxNow -> Nat], Tallies(b, what, f, now)
  PROVE  Tallies(b, what, Remembered(f), now + 1) /\ Remembered(f) \in [0..MaxNow -> Nat]
<1> DEFINE f2 == Remembered(f)
<1>1. /\ f2 \in [0..MaxNow -> Nat]
      /\ \A i \in 0..MaxNow : i + Window >= now => f2[i] = f[i]
      /\ \A i \in 0..MaxNow : f2[i] # 0 => f[i] # 0
  BY DEF Remembered
<1> HIDE DEF f2
<1>2. Window \in Nat /\ now \in Nat /\ MaxNow \in Nat
  BY BudgetAssumption, ClockAssumption
<1>3. ASSUME NEW s \in DOMAIN b, s + Window >= now + 1
      PROVE  b[s][what] = SumOf(f2, Bucket(s))
  <2>1. s \in 0..now
    BY DEF IsBuckets
  <2>2. b[s][what] = SumOf(f, Bucket(s))
    BY <1>2, <1>3, <2>1 DEF Tallies
  <2>3. \A i \in Bucket(s) : f[i] = f2[i]
    <3> SUFFICES ASSUME NEW i \in Bucket(s) PROVE f[i] = f2[i]
      OBVIOUS
    <3>1. i \in 0..MaxNow /\ BucketStart(i) = s
      BY DEF Bucket
    <3>2. s <= i
      BY <1>2, <3>1, BucketStartProperties
    <3> QED
      BY <1>1, <1>2, <1>3, <2>1, <3>1, <3>2
  <2>4. SumOf(f, Bucket(s)) = SumOf(f2, Bucket(s))
    BY <2>3, TimesSummable, SumSame DEF Bucket
  <2> QED
    BY <2>2, <2>4
<1>4. ASSUME NEW i \in 0..MaxNow, BucketStart(i) + Window >= now + 1, f2[i] # 0
      PROVE  BucketStart(i) \in DOMAIN b
  <2>1. BucketStart(i) \in Nat
    BY <1>2, BucketStartProperties
  <2>2. BucketStart(i) + Window >= now
    BY <1>2, <1>4, <2>1
  <2> QED
    BY <1>1, <1>4, <2>2 DEF Tallies
<1> QED
  BY <1>1, <1>3, <1>4 DEF Tallies, f2

(* What is of its kind now stays so.                                       *)
LEMMA LaterRegistry ==
  ASSUME NEW k \in Kinds, NEW r, NEW time \in Nat, IsRegistry(k, r, time)
  PROVE  IsRegistry(k, r, time + 1)
<1>1. ASSUME NEW v, IsValue(k, v, time) PROVE IsValue(k, v, time + 1)
  BY <1>1 DEF IsValue, IsBuckets
<1>2. ASSUME NEW e, IsEntry(k, e, time) PROVE IsEntry(k, e, time + 1)
  BY <1>1, <1>2 DEF IsEntry
<1> QED
  BY <1>2 DEF IsRegistry

LEMMA TickKeeps ==
  ASSUME IInv, Tick
  PROVE  IInv'
<1>1. /\ now \in 0..MaxNow /\ now \in Nat /\ now' = now + 1 /\ now' \in 0..MaxNow
      /\ tk' = tk /\ reg' = reg /\ MaxNow \in Nat
  <2>1. now' = now + 1 /\ now < MaxNow /\ tk' = tk /\ reg' = reg
    BY DEF Tick
  <2>2. now \in 0..MaxNow /\ MaxNow \in Nat
    BY ClockAssumption DEF IInv
  <2> QED
    BY <2>1, <2>2
<1>2. \A p \in Partitions :
        truth'[p] = [truth[p] EXCEPT !.requests = Remembered(truth[p].requests),
                                     !.retries = Remembered(truth[p].retries)]
  BY DEF Tick
<1>3. ASSUME NEW f \in [0..MaxNow -> Nat] PROVE Remembered(f) \in [0..MaxNow -> Nat]
  BY DEF Remembered
<1>4. ASSUME NEW p \in Partitions
      PROVE  LET u == truth[p]
                 w == truth'[p]
             IN /\ u \in Truths /\ w \in Truths
                /\ w.pausedUntil = u.pausedUntil /\ w.fullAt = u.fullAt
                /\ w.openUntil = u.openUntil
                /\ w.requests = Remembered(u.requests) /\ w.retries = Remembered(u.retries)
  <2> DEFINE u == truth[p]
             a == Remembered(u.requests)
             b == Remembered(u.retries)
  <2>1. u \in Truths
    BY DEF IInv
  <2>2. a \in [0..MaxNow -> Nat] /\ b \in [0..MaxNow -> Nat]
    BY <1>3, <2>1 DEF Truths
  <2>3. truth'[p] = [u EXCEPT !.requests = a, !.retries = b]
    BY <1>2
  <2> HIDE DEF u, a, b
  <2>4. LET w == truth'[p]
        IN /\ w \in Truths /\ w.pausedUntil = u.pausedUntil /\ w.fullAt = u.fullAt
           /\ w.openUntil = u.openUntil /\ w.requests = a /\ w.retries = b
    BY <2>1, <2>2, <2>3 DEF Truths
  <2> QED
    BY <2>1, <2>4 DEF u, a, b
<1>5. truth' \in [Partitions -> Truths]
  BY <1>4 DEF Tick
<1>6. \A k \in Kinds : IsRegistry(k, reg[k], now + 1)
  BY <1>1, LaterRegistry DEF IInv
<1>7. ASSUME NEW k \in Kinds, NEW p \in Partitions
      PROVE  Remembers(k, Mem(k, reg[k], p), truth'[p], now + 1)
  <2> DEFINE v == Mem(k, reg[k], p)
             u == truth[p]
             w == truth'[p]
  <2>1. Remembers(k, v, u, now) /\ IsValue(k, v, now)
    <3>1. IsRegistry(k, reg[k], now)
      BY DEF IInv
    <3>2. IsValue(k, Mem(k, reg[k], p), now)
      BY <1>1, <3>1, MemIsValue
    <3> QED
      BY <3>2 DEF IInv
  <2>2. /\ u \in Truths /\ w \in Truths
        /\ w.pausedUntil = u.pausedUntil /\ w.fullAt = u.fullAt
        /\ w.openUntil = u.openUntil
        /\ w.requests = Remembered(u.requests) /\ w.retries = Remembered(u.retries)
    BY <1>4
  <2> HIDE DEF v, u, w
  <2>3. CASE k = "bulkhead"
    <3>1. v.pausedUntil \in Nat /\ v.fullAt \in Nat
      <4>1. v \in [holders : SUBSET Tickets, running : SUBSET Tickets,
                   pausedUntil : Nat, fullAt : Nat]
        BY <2>1, <2>3 DEF IsValue, Values
      <4> QED
        BY <4>1
    <3>2. u.pausedUntil \in Nat /\ u.fullAt \in Nat
      BY <2>2 DEF Truths
    <3>3. RemembersPause(v, u, now)
      BY <2>1, <2>3 DEF Remembers
    <3>4. RemembersPause(v, w, now + 1)
      BY <1>1, <2>2, <3>1, <3>2, <3>3 DEF RemembersPause, Larger
    <3> QED
      BY <2>3, <3>4 DEF Remembers, v, w
  <2>4. CASE k = "breaker"
    <3>1. RemembersOpen(v, u, now) /\ u.openUntil \in Nat
      BY <2>1, <2>2, <2>4 DEF Remembers, Truths
    <3>2. RemembersOpen(v, w, now + 1)
      BY <1>1, <2>2, <3>1 DEF RemembersOpen
    <3> QED
      BY <2>4, <3>2 DEF Remembers, v, w
  <2>5. CASE k = "budget"
    <3>1. IsBuckets(v.buckets, now) /\ RemembersCounts(v, u, now)
      BY <2>1, <2>5 DEF IsValue, Remembers
    <3>2. u.requests \in [0..MaxNow -> Nat] /\ u.retries \in [0..MaxNow -> Nat]
      BY <2>2 DEF Truths
    <3>3. /\ Tallies(v.buckets, "requests", Remembered(u.requests), now + 1)
          /\ Tallies(v.buckets, "retries", Remembered(u.retries), now + 1)
      BY <1>1, <3>1, <3>2, RememberedTallies DEF Whats, RemembersCounts
    <3>4. RemembersCounts(v, w, now + 1)
      BY <2>2, <3>3 DEF RemembersCounts
    <3> QED
      BY <2>5, <3>4 DEF Remembers, v, w
  <2> QED
    BY <2>3, <2>4, <2>5 DEF Kinds
<1>8. \A p : LiveAt(p)' = LiveAt(p)
  BY <1>1 DEF LiveAt
<1>9. /\ (now \in 0..MaxNow)' /\ (reg = [k \in Kinds |-> reg[k]])'
      /\ (tk \in [Tickets -> TicketRecords])' /\ (truth \in [Partitions -> Truths])'
  BY <1>1, <1>5 DEF IInv
<1>10. (\A k \in Kinds : IsRegistry(k, reg[k], now))'
  BY <1>1, <1>6
<1>11. (\A x \in Tickets :
         /\ tk[x].stage \in Going => tk[x].partition \in Partitions
         /\ tk[x].stage = "failed" => tk[x].retries < MaxRetries)'
  BY <1>1 DEF IInv
<1>12. (\A k \in Kinds, q \in Partitions :
         /\ Mem(k, reg[k], q).holders = LiveAt(q)
         /\ Remembers(k, Mem(k, reg[k], q), truth[q], now))'
  <2>1. ASSUME NEW k \in Kinds, NEW q \in Partitions
        PROVE  /\ Mem(k, reg'[k], q).holders = LiveAt(q)'
               /\ Remembers(k, Mem(k, reg'[k], q), truth'[q], now')
    BY <1>1, <1>7, <1>8 DEF IInv
  <2> QED
    BY <2>1
<1> QED
  BY <1>9, <1>10, <1>11, <1>12 DEF IInv

LEMMA InitIInv == Init => IInv
<1> SUFFICES ASSUME Init PROVE IInv
  OBVIOUS
<1>1. now = 0 /\ now \in 0..MaxNow /\ now \in Nat
  BY ClockAssumption DEF Init
<1>2. \A k \in Kinds : reg[k] = [entries |-> <<>>, calls |-> 0, trigger |-> SizeThreshold]
  BY DEF Init
<1>3. reg = [k \in Kinds |-> reg[k]]
  BY DEF Init
<1>4. \A k \in Kinds : DOMAIN reg[k].entries = {} /\ IsRegistry(k, reg[k], now)
  <2> SUFFICES ASSUME NEW k \in Kinds
               PROVE  DOMAIN reg[k].entries = {} /\ IsRegistry(k, reg[k], now)
    OBVIOUS
  <2> DEFINE r == reg[k]
  <2>1. r = [entries |-> <<>>, calls |-> 0, trigger |-> SizeThreshold]
    BY <1>2
  <2> HIDE DEF r
  <2>2. /\ r.entries = <<>> /\ r.calls = 0 /\ r.trigger = SizeThreshold
        /\ r = [entries |-> r.entries, calls |-> r.calls, trigger |-> r.trigger]
    BY <2>1
  <2>3. DOMAIN r.entries = {} /\ r.entries = [p \in DOMAIN r.entries |-> r.entries[p]]
    BY <2>2
  <2>4. IsRegistry(k, r, now)
    BY <2>2, <2>3, SweepAssumption, FS_EmptySet DEF IsRegistry
  <2> QED
    BY <2>3, <2>4 DEF r
<1>5. tk = [t \in Tickets |-> Over("unsent")]
  BY DEF Init
<1>6. tk \in [Tickets -> TicketRecords] /\ \A t \in Tickets : tk[t].stage \notin Going /\ tk[t].stage # "failed"
  BY <1>5, OverProperties
<1> DEFINE f0 == [s \in 0..MaxNow |-> 0]
           u0 == [pausedUntil |-> 0, fullAt |-> 0, openUntil |-> 0, requests |-> f0, retries |-> f0]
<1>7. u0 \in Truths
  BY DEF Truths
<1>8. truth = [p \in Partitions |-> u0]
  BY DEF Init
<1>9. ASSUME NEW k \in Kinds PROVE NewEntry(k).holders = {} /\ Remembers(k, NewEntry(k), u0, now)
  <2>1. k = "bulkhead" => RemembersPause(NewEntry(k), u0, now)
    BY <1>1 DEF RemembersPause, NewEntry, NewBulkhead
  <2>2. k = "breaker" => RemembersOpen(NewEntry(k), u0, now)
    BY <1>1 DEF RemembersOpen
  <2>3. k = "budget" => RemembersCounts(NewEntry(k), u0, now)
    <3>1. k = "budget" => NewEntry(k).buckets = <<>>
      BY DEF NewEntry, NewBudget
    <3>2. \A what : Tallies(<<>>, what, f0, now)
      BY DEF Tallies
    <3> QED
      BY <3>1, <3>2 DEF RemembersCounts
  <2>4. NewEntry(k).holders = {}
    BY <1>1, NewEntryProperties
  <2> HIDE DEF u0
  <2> QED
    BY <2>1, <2>2, <2>3, <2>4 DEF Remembers
<1> HIDE DEF u0
<1>10. \A k \in Kinds, p \in Partitions :
         /\ Mem(k, reg[k], p).holders = LiveAt(p)
         /\ Remembers(k, Mem(k, reg[k], p), truth[p], now)
  <2>1. \A p : LiveAt(p) = {}
    BY <1>6 DEF LiveAt
  <2>2. \A k \in Kinds, p \in Partitions : Mem(k, reg[k], p) = NewEntry(k)
    BY <1>4 DEF Mem
  <2> QED
    BY <1>8, <1>9, <2>1, <2>2
<1> QED
  BY <1>1, <1>3, <1>4, <1>6, <1>7, <1>8, <1>10 DEF IInv

LEMMA NextIInv == IInv /\ [Next]_vars => IInv'
<1> SUFFICES ASSUME IInv, [Next]_vars PROVE IInv'
  OBVIOUS
<1>1. CASE Tick
  BY <1>1, TickKeeps
<1>2. ASSUME NEW t \in Tickets,
             Send(t) \/ Start(t) \/ Succeed(t) \/ Fail(t) \/ Retry(t) \/ GiveUp(t)
      PROVE  IInv'
  BY <1>2, SendKeeps, StartKeeps, SucceedKeeps, FailKeeps, RetryKeeps, GiveUpKeeps
<1>3. CASE UNCHANGED vars
  BY <1>3 DEF vars, IInv, LiveAt
<1> QED
  BY <1>1, <1>2, <1>3 DEF Next

LEMMA Invariance == Spec => []IInv
BY InitIInv, NextIInv, PTL DEF Spec

-----------------------------------------------------------------------------
(* The theorems *)

(* Every variable keeps to what the code can put there: in particular no   *)
(* trigger falls below the threshold, and no bucket starts in the future   *)
(* or where no bucket does (partition-registry.ts, retry-budget.ts).       *)
THEOREM TypeCorrect == Spec => []TypeOK
<1>1. ASSUME IInv PROVE TypeOK
  <2>1. now \in 0..MaxNow
    BY <1>1 DEF IInv
  <2>2. ASSUME NEW k \in Kinds
        PROVE  /\ DOMAIN reg[k].entries \subseteq Partitions
               /\ reg[k].calls \in 0..(SweepInterval - 1)
               /\ reg[k].trigger \in Nat /\ reg[k].trigger >= SizeThreshold
               /\ \A p \in DOMAIN reg[k].entries :
                    /\ reg[k].entries[p].at \in 0..now
                    /\ IF k = "budget" THEN IsBudget(Value(k, p)) ELSE Value(k, p) \in Values[k]
    <3>1. IsRegistry(k, reg[k], now)
      BY <1>1 DEF IInv
    <3>2. ASSUME NEW p \in DOMAIN reg[k].entries
          PROVE  /\ reg[k].entries[p].at \in 0..now
                 /\ IF k = "budget" THEN IsBudget(Value(k, p)) ELSE Value(k, p) \in Values[k]
      <4> DEFINE v == Value(k, p)
      <4>1. reg[k].entries[p].at \in 0..now /\ IsValue(k, v, now)
        BY <3>1 DEF IsRegistry, IsEntry, Value
      <4> HIDE DEF v
      <4>2. k = "budget" => IsBudget(v)
        <5>1. \A s \in Nat : s \in 0..now => s <= now
          OBVIOUS
        <5> QED
          BY <2>1, <4>1 DEF IsValue, IsBuckets, IsBudget
      <4>3. k # "budget" => v \in Values[k]
        BY <4>1 DEF IsValue
      <4> QED
        BY <4>1, <4>2, <4>3 DEF v
    <3> QED
      BY <3>1, <3>2 DEF IsRegistry
  <2>3. \A t \in Tickets :
          /\ tk[t].stage \in {"unsent", "waiting", "running", "failed", "refused", "done"}
          /\ tk[t].partition \in Partitions \cup {"none"}
          /\ tk[t].retries \in 0..MaxRetries /\ tk[t].trial \in BOOLEAN
    BY <1>1 DEF IInv, TicketRecords, Stages
  <2> QED
    BY <2>1, <2>2, <2>3 DEF TypeOK
<1> QED
  BY <1>1, Invariance, PTL

(* No sweep, however it falls, parts a live ticket from the bulkhead, the  *)
(* breaker and the budget that everyone else on its host is handed         *)
(* (retain and isEvictable, B12); and whoever is over holds nothing.       *)
THEOREM HoldsAreLive == Spec => []HeldIsLive
<1>1. ASSUME IInv PROVE HeldIsLive
  <2> SUFFICES ASSUME NEW k \in Kinds, NEW p \in Partitions
               PROVE  LET holders == {t \in Live : tk[t].partition = p}
                      IN IF p \in DOMAIN reg[k].entries THEN Value(k, p).holders = holders
                         ELSE holders = {}
    BY DEF HeldIsLive
  <2>1. {t \in Live : tk[t].partition = p} = LiveAt(p)
    BY DEF Live, LiveAt, Going
  <2>2. Mem(k, reg[k], p).holders = LiveAt(p) /\ NewEntry(k).holders = {}
    BY <1>1, NewEntryProperties DEF IInv
  <2> QED
    BY <2>1, <2>2 DEF Mem, Value
<1> QED
  BY <1>1, Invariance, PTL

(* What is counted in the window of p is what happened in it.              *)
LEMMA WindowCounts ==
  ASSUME IInv, NEW p \in Partitions, NEW buckets, buckets = Mem("budget", reg["budget"], p).buckets
  PROVE  /\ Sum(buckets, "requests") = Counts(truth[p].requests)
         /\ Sum(buckets, "retries") = Counts(truth[p].retries)
<1> DEFINE k == "budget"
           v == Mem(k, reg[k], p)
           u == truth[p]
<1>1. k \in Kinds /\ now \in 0..MaxNow /\ u \in Truths
  BY DEF Kinds, IInv
<1>2. IsRegistry(k, reg[k], now) /\ Remembers(k, v, u, now)
  BY <1>1 DEF IInv
<1>3. IsValue(k, v, now)
  BY <1>1, <1>2, MemIsValue
<1>4. IsBuckets(buckets, now) /\ RemembersCounts(v, u, now)
  BY <1>2, <1>3 DEF IsValue, Remembers
<1>5. IsFiniteSet(DOMAIN buckets)
  <2>1. DOMAIN buckets \subseteq 0..MaxNow
    <3>1. 0..now \subseteq 0..MaxNow
      BY <1>1, ClockAssumption
    <3> QED
      BY <1>4, <3>1 DEF IsBuckets
  <2>2. IsFiniteSet(0..MaxNow)
    BY FS_Interval, ClockAssumption
  <2> QED
    BY <2>1, <2>2, FS_Subset
<1>6. u.requests \in [0..MaxNow -> Nat] /\ u.retries \in [0..MaxNow -> Nat]
  BY <1>1 DEF Truths
<1>7. Tallies(buckets, "requests", u.requests, now) /\ Tallies(buckets, "retries", u.retries, now)
  BY <1>4 DEF RemembersCounts
<1> QED
  BY <1>1, <1>5, <1>6, <1>7, TalliesSum

(* Eviction loses nothing that is still decided on: a pause, an empty      *)
(* token bucket, an open circuit and a budget's window last as long as     *)
(* they would if no entry were ever swept (isEvictable of the three).      *)
THEOREM SweepsForgetNothing == Spec => []EvictionForgetsNothing
<1>1. ASSUME IInv PROVE EvictionForgetsNothing
  <2>1. ASSUME NEW k, NEW p PROVE Memory(k, p) = Mem(k, reg[k], p)
    BY DEF Memory, Mem, Value
  <2>2. ASSUME NEW p \in Partitions
        PROVE  /\ RemembersPause(Memory("bulkhead", p), truth[p], now)
               /\ RemembersOpen(Memory("breaker", p), truth[p], now)
    BY <1>1, <2>1 DEF IInv, Kinds, Remembers
  <2>3. ASSUME NEW p \in Partitions
        PROVE  /\ Sum(Memory("budget", p).buckets, "requests") = Counts(truth[p].requests)
               /\ Sum(Memory("budget", p).buckets, "retries") = Counts(truth[p].retries)
    BY <1>1, <2>1, WindowCounts
  <2> QED
    BY <2>2, <2>3 DEF EvictionForgetsNothing, RemembersPause, RemembersOpen
<1> QED
  BY <1>1, Invariance, PTL

(* What the buckets count lies between the window and the part of it that  *)
(* they are sure to hold.                                                  *)
LEMMA CountsBounds ==
  ASSUME now \in 0..MaxNow, NEW f \in [0..MaxNow -> Nat]
  PROVE  /\ Since(f, SureWindow) \in Nat /\ Since(f, SureWindow) <= Counts(f)
         /\ Counts(f) \in Nat
         /\ Since(f, WholeWindow) \in Nat /\ Counts(f) <= Since(f, WholeWindow)
<1> DEFINE all == {s \in 0..MaxNow : BucketStart(s) + Window >= now}
           sure == {s \in 0..MaxNow : s >= SureWindow}
           whole == {s \in 0..MaxNow : s >= WholeWindow}
<1>1. Counts(f) = SumOf(f, all)
  <2>1. Counts(f) = MapThenSumSet(LAMBDA s : f[s], all)
    BY DEF Counts
  <2>2. Summable(f, all)
    BY TimesSummable
  <2> HIDE DEF all
  <2> QED
    BY <2>1, <2>2, SumIsOverTimes
<1>2. Since(f, SureWindow) = SumOf(f, sure)
  <2>1. Since(f, SureWindow) = MapThenSumSet(LAMBDA s : f[s], sure)
    BY DEF Since
  <2>2. Summable(f, sure)
    BY TimesSummable
  <2> HIDE DEF sure
  <2> QED
    BY <2>1, <2>2, SumIsOverTimes
<1>3. Since(f, WholeWindow) = SumOf(f, whole)
  <2>1. Since(f, WholeWindow) = MapThenSumSet(LAMBDA s : f[s], whole)
    BY DEF Since
  <2>2. Summable(f, whole)
    BY TimesSummable
  <2> HIDE DEF whole
  <2> QED
    BY <2>1, <2>2, SumIsOverTimes
<1>4. sure \subseteq all /\ all \subseteq whole
  <2>1. /\ now \in Nat /\ Window \in Nat /\ MaxNow \in Nat
        /\ BucketMs \in Nat \ {0} /\ BucketMs <= Window
    BY ClockAssumption, BudgetAssumption, BucketWidth
  <2>2. ASSUME NEW s \in 0..MaxNow
        PROVE  /\ s >= SureWindow => BucketStart(s) + Window >= now
               /\ BucketStart(s) + Window >= now => s >= WholeWindow
    <3> DEFINE start == BucketStart(s)
    <3>1. s \in Nat /\ start \in Nat /\ start <= s /\ s < start + BucketMs
      <4>1. s \in Nat
        BY <2>1
      <4>2. start \in 0..s /\ s < start + BucketMs
        BY <4>1, BucketStartProperties
      <4> HIDE DEF start
      <4> QED
        BY <4>1, <4>2
    <3> HIDE DEF start
    <3>2. start + Window >= now => s >= WholeWindow
      BY <2>1, <3>1 DEF WholeWindow
    <3>3. s >= SureWindow => start + Window >= now
      <4>1. CASE now > Window
        BY <2>1, <3>1, <4>1 DEF SureWindow, WholeWindow
      <4>2. CASE now <= Window
        BY <2>1, <3>1, <4>2
      <4> QED
        BY <2>1, <4>1, <4>2
    <3> QED
      BY <3>2, <3>3 DEF start
  <2> QED
    BY <2>2
<1>5. Summable(f, all) /\ Summable(f, sure) /\ Summable(f, whole)
  BY TimesSummable
<1> HIDE DEF all, sure, whole
<1>6. SumOf(f, sure) <= SumOf(f, all) /\ SumOf(f, all) <= SumOf(f, whole)
  BY <1>4, <1>5, SumMonotone
<1>7. SumOf(f, all) \in Nat /\ SumOf(f, sure) \in Nat /\ SumOf(f, whole) \in Nat
  BY <1>5, SumType
<1> QED
  BY <1>1, <1>2, <1>3, <1>6, <1>7

(* More requests allow no fewer retries.                                   *)
LEMMA AllowedMonotone ==
  ASSUME NEW a \in Nat, NEW b \in Nat, a <= b
  PROVE  /\ Allowed(a) \in Nat /\ Allowed(b) \in Nat /\ Allowed(a) <= Allowed(b)
         /\ Scale * a \in Nat /\ Scale * b \in Nat /\ Scale * a <= Scale * b
<1>1. ASSUME NEW r \in Nat PROVE r * a \in Nat /\ r * b \in Nat /\ r * a <= r * b
  OBVIOUS
<1>2. Scale \in Nat /\ Ratio \in Nat /\ Floor \in Nat
  BY BudgetAssumption
<1> DEFINE x == Ratio * a
           y == Ratio * b
<1>3. x \in Nat /\ y \in Nat /\ x <= y
  BY <1>1, <1>2
<1>4. Scale * a \in Nat /\ Scale * b \in Nat /\ Scale * a <= Scale * b
  BY <1>1, <1>2
<1> HIDE DEF x, y
<1>5. Larger(Floor, x) \in Nat /\ Larger(Floor, y) \in Nat /\ Larger(Floor, x) <= Larger(Floor, y)
  BY <1>2, <1>3 DEF Larger
<1> QED
  BY <1>4, <1>5 DEF Allowed, x, y

(* A grant stays within the window's requests, and a refusal has its       *)
(* reason in the window's retries.                                         *)
LEMMA GrantsByWindow ==
  ASSUME IInv, NEW t \in Tickets, tk[t].stage \in Going, NEW seen, seen = truth[tk[t].partition],
         NEW buckets, buckets = Value("budget", tk[t].partition).buckets
  PROVE  /\ Grants(buckets) => Scale * Since(seen.retries, SureWindow)
                                 < Allowed(Since(seen.requests, WholeWindow))
         /\ ~Grants(buckets) => Scale * Since(seen.retries, WholeWindow)
                                  >= Allowed(Since(seen.requests, SureWindow))
<1> DEFINE p == tk[t].partition
           retries == seen.retries
           requests == seen.requests
<1>1. p \in Partitions /\ seen \in Truths /\ now \in 0..MaxNow
  BY GoingTicket
<1>2. Sum(buckets, "requests") = Counts(requests) /\ Sum(buckets, "retries") = Counts(retries)
  <2>1. Turn(reg, p, LiveAt(p), seen)
    BY TurnBegins
  <2>2. Good("budget", reg["budget"], p, LiveAt(p), seen)
    BY <2>1 DEF Turn, Kinds
  <2>3. buckets = Mem("budget", reg["budget"], p).buckets
    BY <2>2 DEF Good, Mem, Value
  <2> QED
    BY <1>1, <2>3, WindowCounts
<1>3. retries \in [0..MaxNow -> Nat] /\ requests \in [0..MaxNow -> Nat]
  BY <1>1 DEF Truths
<1> DEFINE R == Counts(retries)
           Q == Counts(requests)
           R0 == Since(retries, SureWindow)
           R1 == Since(retries, WholeWindow)
           Q0 == Since(requests, SureWindow)
           Q1 == Since(requests, WholeWindow)
<1>4. /\ R \in Nat /\ R0 \in Nat /\ R1 \in Nat /\ R0 <= R /\ R <= R1
      /\ Q \in Nat /\ Q0 \in Nat /\ Q1 \in Nat /\ Q0 <= Q /\ Q <= Q1
  <2> HIDE DEF retries, requests
  <2> QED
    BY <1>1, <1>3, CountsBounds
<1>5. Grants(buckets) <=> Scale * R < Allowed(Q)
  BY <1>2 DEF Grants
<1> HIDE DEF R, Q, R0, R1, Q0, Q1
<1>6. /\ Scale * R0 <= Scale * R /\ Scale * R <= Scale * R1
      /\ Scale * R \in Nat /\ Scale * R0 \in Nat /\ Scale * R1 \in Nat
  BY <1>4, AllowedMonotone
<1>7. /\ Allowed(Q0) <= Allowed(Q) /\ Allowed(Q) <= Allowed(Q1)
      /\ Allowed(Q) \in Nat /\ Allowed(Q0) \in Nat /\ Allowed(Q1) \in Nat
  BY <1>4, AllowedMonotone
<1>8. /\ Grants(buckets) => Scale * R0 < Allowed(Q1)
      /\ ~Grants(buckets) => Scale * R1 >= Allowed(Q0)
  BY <1>5, <1>6, <1>7
<1> QED
  BY <1>8 DEF R0, R1, Q0, Q1

(* A retry goes out only while the retries of the window stay below the    *)
(* budget that its requests earned, and is refused only when that many     *)
(* went out, whatever was swept or pruned meanwhile (tryWithdraw).         *)
THEOREM BudgetFollowed == Spec => RetriesFollowBudget
<1> DEFINE Follows(t) ==
      LET seen == truth[tk[t].partition]
          granted == tk'[t].retries > tk[t].retries
          refused == tk'[t].stage = "refused" /\ tk[t].stage # "refused"
      IN /\ granted => Scale * Since(seen.retries, SureWindow)
                         < Allowed(Since(seen.requests, WholeWindow))
         /\ refused => Scale * Since(seen.retries, WholeWindow)
                         >= Allowed(Since(seen.requests, SureWindow))
      Neither(t) ==
        /\ ~(tk'[t].retries > tk[t].retries)
        /\ ~(tk'[t].stage = "refused" /\ tk[t].stage # "refused")
<1>1. ASSUME IInv, NEW t \in Tickets, Next PROVE Follows(t)
  <2>1. tk \in [Tickets -> TicketRecords] /\ tk[t].retries \in Nat /\ ~(0 > tk[t].retries)
        /\ \A n \in Nat : ~(n > n)
    BY <1>1 DEF IInv, TicketRecords
  <2>2. ASSUME tk' = tk PROVE Neither(t)
    BY <2>1, <2>2
  <2>3. ASSUME NEW u \in Tickets, NEW rec, tk' = [tk EXCEPT ![u] = rec],
               rec.retries = 0 \/ rec.retries = tk[u].retries, rec.stage # "refused"
        PROVE  Neither(t)
    BY <2>1, <2>3
  <2>4. Neither(t) => Follows(t)
    OBVIOUS
  <2> HIDE DEF Follows, Neither
  <2>5. ASSUME NEW u \in Tickets, NEW stage, stage # "refused",
               tk' = [tk EXCEPT ![u] = Over(stage)]
        PROVE  Neither(t)
    <3> DEFINE rec == Over(stage)
    <3>1. rec.retries = 0 /\ rec.stage # "refused"
      BY <2>5 DEF Over
    <3>2. tk' = [tk EXCEPT ![u] = rec]
      BY <2>5
    <3> HIDE DEF rec
    <3> QED
      BY <2>3, <3>1, <3>2
  <2>6. ASSUME NEW u \in Tickets, Send(u) PROVE Neither(t)
    <3>1. PICK p \in Partitions :
            SendRefused(u, p, Held(p, u)) \/ SendAdmitted(u, p, Held(p, u))
      BY <2>6 DEF Send
    <3>2. CASE SendRefused(u, p, Held(p, u))
      BY <2>5, <3>2 DEF SendRefused, Become
    <3>3. CASE SendAdmitted(u, p, Held(p, u))
      <4> DEFINE rec == [stage |-> "waiting", partition |-> p, retries |-> 0,
                         trial |-> Held(p, u)["breaker"].entries[p].value.state # "closed"]
      <4>1. tk' = [tk EXCEPT ![u] = rec]
        BY <3>3 DEF SendAdmitted, Become
      <4>2. rec.retries = 0 /\ rec.stage # "refused"
        OBVIOUS
      <4> HIDE DEF rec
      <4> QED
        BY <2>3, <4>1, <4>2
    <3> QED
      BY <3>1, <3>2, <3>3
  <2>7. ASSUME NEW u \in Tickets, Start(u) PROVE Neither(t)
    <3> DEFINE rec == [tk[u] EXCEPT !.stage = "running"]
    <3>1. tk' = [tk EXCEPT ![u] = rec]
      BY <2>7 DEF Start, Become
    <3>2. rec.retries = tk[u].retries /\ rec.stage # "refused"
      BY <2>1 DEF TicketRecords
    <3> HIDE DEF rec
    <3> QED
      BY <2>3, <3>1, <3>2
  <2>8. ASSUME NEW u \in Tickets, NEW r, NEW known, Leaves(u, r, known) PROVE Neither(t)
    <3> DEFINE rec == [tk[u] EXCEPT !.stage = "failed", !.trial = FALSE]
    <3>1. tk' = [tk EXCEPT ![u] = Over("done")] \/ tk' = [tk EXCEPT ![u] = rec]
      BY <2>8 DEF Leaves, Become
    <3>2. rec.retries = tk[u].retries /\ rec.stage # "refused"
      BY <2>1 DEF TicketRecords
    <3> HIDE DEF rec
    <3> QED
      BY <2>3, <2>5, <3>1, <3>2
  <2>9. ASSUME NEW u \in Tickets, Fail(u) PROVE Neither(t)
    BY <2>8, <2>9 DEF Fail
  <2>10. ASSUME NEW u \in Tickets, Retry(u) PROVE Follows(t)
    <3> DEFINE p == tk[u].partition
               buckets == Value("budget", p).buckets
    <3>1. tk[u].stage \in Going /\ tk[u].stage = "failed"
      BY <2>10 DEF Retry, At, Going
    <3>2. \/ ~Admits(Value("breaker", p), p) /\ tk' = [tk EXCEPT ![u] = Over("done")]
          \/ ~Grants(buckets) /\ tk' = [tk EXCEPT ![u] = Over("refused")]
          \/ /\ Grants(buckets)
             /\ tk' = [tk EXCEPT ![u] = [tk[u] EXCEPT !.stage = "waiting", !.retries = @ + 1,
                                           !.trial = Value("breaker", p).state # "closed"]]
      BY <2>10 DEF Retry, Become
    <3>3. CASE t # u
      <4>1. tk'[t] = tk[t]
        BY <2>1, <3>2, <3>3
      <4> QED
        BY <2>1, <2>4, <4>1 DEF Neither
    <3>4. CASE t = u
      <4> DEFINE seen == truth[tk[t].partition]
      <4>1. /\ Grants(buckets) => Scale * Since(seen.retries, SureWindow)
                                    < Allowed(Since(seen.requests, WholeWindow))
            /\ ~Grants(buckets) => Scale * Since(seen.retries, WholeWindow)
                                     >= Allowed(Since(seen.requests, SureWindow))
        BY <1>1, <3>1, <3>4, GrantsByWindow
      <4> HIDE DEF buckets, seen
      <4>2. \/ tk'[t].stage = "done" /\ tk'[t].retries = 0
            \/ ~Grants(buckets) /\ tk'[t].stage = "refused" /\ tk'[t].retries = 0
            \/ Grants(buckets) /\ tk'[t].stage = "waiting"
        <5>1. Over("done").stage = "done" /\ Over("done").retries = 0
              /\ Over("refused").stage = "refused" /\ Over("refused").retries = 0
          BY DEF Over
        <5>2. ASSUME NEW rec, tk' = [tk EXCEPT ![u] = rec] PROVE tk'[t] = rec
          BY <2>1, <3>4, <5>2
        <5> DEFINE rec == [tk[u] EXCEPT !.stage = "waiting", !.retries = @ + 1,
                                        !.trial = Value("breaker", p).state # "closed"]
        <5>3. rec.stage = "waiting"
          BY <2>1 DEF TicketRecords
        <5>4. \/ tk' = [tk EXCEPT ![u] = Over("done")]
              \/ ~Grants(buckets) /\ tk' = [tk EXCEPT ![u] = Over("refused")]
              \/ Grants(buckets) /\ tk' = [tk EXCEPT ![u] = rec]
          BY <3>2
        <5> HIDE DEF rec
        <5> QED
          BY <5>1, <5>2, <5>3, <5>4
      <4>3. tk'[t].retries > tk[t].retries => Grants(buckets)
        BY <2>1, <4>2
      <4>4. tk'[t].stage = "refused" => ~Grants(buckets)
        BY <4>2
      <4> QED
        BY <4>1, <4>3, <4>4 DEF Follows, seen
    <3> QED
      BY <3>3, <3>4
  <2>11. ASSUME Tick PROVE Neither(t)
    BY <2>2, <2>11 DEF Tick
  <2>12. ASSUME NEW u \in Tickets, Succeed(u) \/ GiveUp(u) PROVE Neither(t)
    BY <2>5, <2>12 DEF Succeed, GiveUp, Become
  <2> QED
    BY <1>1, <2>4, <2>6, <2>7, <2>9, <2>10, <2>11, <2>12 DEF Next
<1>2. IInv /\ [Next]_vars => [\A t \in Tickets : Follows(t)]_vars
  BY <1>1
<1> QED
  BY <1>2, Invariance, PTL DEF Spec, RetriesFollowBudget
=============================================================================
