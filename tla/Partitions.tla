----------------------------- MODULE Partitions -----------------------------
(***************************************************************************)
(* What a client remembers of each host: the three registries of           *)
(* src/queue/partition-registry.ts, which create an entry for a partition  *)
(* when a request first needs it and sweep it once it is idle, and the     *)
(* retry budget of src/queue/retry-budget.ts, whose window is one of the   *)
(* things a sweep could forget.                                            *)
(*                                                                         *)
(* An entry is evicted by a rule of its own (B12).  The budget's window is *)
(* modelled in full.  Of a bulkhead this module keeps what its rule reads: *)
(* the running attempts, the pause and the time the token bucket is full   *)
(* again; of a breaker its state and the time it opened.  Queues, waiters  *)
(* and the evidence that trips a breaker are in Bulkhead, Pacing and       *)
(* CircuitBreaker; a half-open breaker has one trial here, its default.    *)
(*                                                                         *)
(* The truth is a history variable: what the host would see if nothing     *)
(* were ever evicted, and every request and retry counted at its own time. *)
(***************************************************************************)
EXTENDS Naturals, FiniteSets, FiniteSetsExt

CONSTANTS
  Tickets,
  Partitions,
  MaxRetries,
  MaxNow,             \* bound on the clock
  Ttl,                \* ttlMs of the three registries
  SweepInterval,      \* SWEEP_INTERVAL
  SizeThreshold,      \* SWEEP_SIZE_THRESHOLD
  Window,             \* windowMs of the budget
  BucketCount,        \* BUCKET_COUNT
  Scale,              \* limits are given in parts of 1/Scale
  Ratio,              \* ratio, times Scale
  Floor,              \* minRetriesPerSec * windowMs / 1000, times Scale
  Reset,              \* resetTimeoutMs
  PauseFor,           \* what an honoured Retry-After comes to
  Refill              \* the time in which the token bucket gains a token

ASSUME ClockAssumption == MaxNow \in Nat /\ Ttl \in Nat /\ MaxRetries \in Nat

ASSUME SweepAssumption ==
  SweepInterval \in Nat \ {0} /\ SizeThreshold \in Nat \ {0}

ASSUME BudgetAssumption ==
  /\ Window \in Nat \ {0} /\ BucketCount \in Nat \ {0}
  /\ Scale \in Nat \ {0} /\ Ratio \in Nat /\ Floor \in Nat

ASSUME HostAssumption == Reset \in Nat /\ PauseFor \in Nat /\ Refill \in Nat

VARIABLES
  now,
  reg,                \* the bulkhead, breaker and budget registries
  tk,                 \* a record for each ticket
  truth               \* history: what must not be forgotten, by partition

vars == <<now, reg, tk, truth>>

Kinds == {"bulkhead", "breaker", "budget"}

Larger(a, b) == IF a > b THEN a ELSE b

-----------------------------------------------------------------------------
(* The budget's window: a bucket for each start that counts something *)

BucketMs == Larger(1, Window \div BucketCount)

\* Mutant: rounded up.
BucketStartRoundedUp(time) == ((time + BucketMs - 1) \div BucketMs) * BucketMs

BucketStart(time) == (time \div BucketMs) * BucketMs

Empty == [requests |-> 0, retries |-> 0]

\* prune: a bucket goes once its start is older than the window.
InWindow(buckets) == {s \in DOMAIN buckets : s + Window >= now}

Pruned(buckets) == [s \in InWindow(buckets) |-> buckets[s]]

\* currentBucket and the count it makes.
Counted(buckets, what) ==
  LET kept == Pruned(buckets)
      start == BucketStart(now)
      old == IF start \in DOMAIN kept THEN kept[start] ELSE Empty
  IN [s \in DOMAIN kept \cup {start} |->
        IF s = start THEN [old EXCEPT ![what] = @ + 1] ELSE kept[s]]

Total(f, what, S) == MapThenSumSet(LAMBDA x : f[x][what], S)

\* totals
Sum(buckets, what) == Total(buckets, what, InWindow(buckets))

\* max(floor, ratio * requests), in parts of 1/Scale.
Allowed(requests) == Larger(Floor, Ratio * requests)

\* tryWithdraw: strictly below the limit.
Grants(buckets) ==
  Scale * Sum(buckets, "retries") < Allowed(Sum(buckets, "requests"))

\* Mutant: a refused retry is counted like a granted one.
WithdrawnAlways(buckets) == Counted(buckets, "retries")

\* Only a granted retry is counted.
Withdrawn(buckets) ==
  IF Grants(buckets) THEN Counted(buckets, "retries") ELSE Pruned(buckets)

-----------------------------------------------------------------------------
(* The entries, and the rule of each for its own eviction *)

\* The constructors: an empty bulkhead with a full bucket and no pause, a
\* breaker that is closed, a budget whose window has counted nothing.
NewBulkhead == [holders |-> {}, running |-> {}, pausedUntil |-> 0, fullAt |-> 0]

NewBreaker == [holders |-> {}, state |-> "closed", openedAt |-> 0]

NewBudget == [holders |-> {}, buckets |-> <<>>]

NewEntry(k) ==
  CASE k = "bulkhead" -> NewBulkhead [] k = "breaker" -> NewBreaker [] k = "budget" -> NewBudget

\* Nothing refills after this time: a new bucket could not hand out more.
BucketFull(v) == v.fullAt <= now

PauseOver(v) == v.pausedUntil <= now

IdleBulkhead(v) == v.running = {} /\ PauseOver(v) /\ BucketFull(v)

\* A half-open breaker is kept no longer than an open one.
IdleBreaker(v) == v.state = "closed" \/ now >= v.openedAt + Reset

\* Mutant: a budget is idle once its window holds no retry.
IdleBudgetWithoutRetries(v) == Sum(v.buckets, "retries") = 0

IdleBudget(v) == InWindow(v.buckets) = {}

Idle(k, v) ==
  CASE k = "bulkhead" -> IdleBulkhead(v)
    [] k = "breaker" -> IdleBreaker(v)
    [] k = "budget" -> IdleBudget(v)

\* Mutant: the tickets that hold an entry are not asked.
EvictableThoughHeld(k, v) == Idle(k, v)

\* isEvictable of Bulkhead, CircuitBreaker and RetryBudget.
Evictable(k, v) == v.holders = {} /\ Idle(k, v)

-----------------------------------------------------------------------------
(* PartitionRegistry *)

Stale(k, entry) == now > entry.at + Ttl /\ Evictable(k, entry.value)

\* adjustSizeSweepTrigger
NextTrigger(old, removed, size) ==
  IF size <= SizeThreshold THEN SizeThreshold
  ELSE IF removed = 0 /\ size > old THEN 2 * size ELSE old

\* prune, and the new trigger
Swept(k, r) ==
  LET kept == {p \in DOMAIN r.entries : ~Stale(k, r.entries[p])}
      removed == Cardinality(DOMAIN r.entries) - Cardinality(kept)
  IN [r EXCEPT !.entries = [p \in kept |-> r.entries[p]],
               !.trigger = NextTrigger(@, removed, Cardinality(kept))]

\* get: the entry of p is found or made, and is as of now the last one used.
Touched(k, r, p) ==
  LET value == IF p \in DOMAIN r.entries THEN r.entries[p].value ELSE NewEntry(k)
  IN [r EXCEPT !.entries = [q \in DOMAIN @ \cup {p} |->
                              IF q = p THEN [value |-> value, at |-> now] ELSE @[q]],
               !.calls = (@ + 1) % SweepInterval]

SweepIsDue(r) == r.calls = 0 \/ Cardinality(DOMAIN r.entries) > r.trigger

Got(k, r, p) ==
  LET touched == Touched(k, r, p)
  IN IF SweepIsDue(touched) THEN Swept(k, touched) ELSE touched

\* retain, and the release it returns
Retained(r, p, t) == [r EXCEPT !.entries[p].value.holders = @ \cup {t}]

Released(r, p, t) ==
  IF p \in DOMAIN r.entries
  THEN [r EXCEPT !.entries[p].value.holders = @ \ {t}] ELSE r

Value(k, p) == reg[k].entries[p].value

-----------------------------------------------------------------------------
(* A ticket and the entries it holds *)

At(t, stage) == tk[t].stage = stage

Become(t, r) == tk' = [tk EXCEPT ![t] = r]

\* Another ticket is the half-open breaker's trial.
TrialTaken(p) == \E u \in Tickets : tk[u].partition = p /\ tk[u].trial

\* canRequest: an open breaker admits nothing before its reset timeout.
Admits(v, p) ==
  \/ v.state = "closed"
  \/ v.state = "open" /\ now >= v.openedAt + Reset
  \/ v.state = "half-open" /\ ~TrialTaken(p)

Acquired(v) == IF v.state = "closed" THEN v ELSE [v EXCEPT !.state = "half-open"]

\* The breaker's value after an admission, in a registry that holds p.
WithPermit(r, p) == [r EXCEPT !.entries[p].value = Acquired(@)]

\* recordRequest
WithRequest(r, p) == [r EXCEPT !.entries[p].value.buckets = Counted(@, "requests")]

Log(p, what) == truth' = [truth EXCEPT ![p][what][now] = @ + 1]

\* The ticket is over: nothing of its record matters any more.
Over(stage) == [stage |-> stage, partition |-> "none", retries |-> 0, trial |-> FALSE]

\* cleanup: the ticket lets go of its three entries.
LetGo(r, p, t) == [k \in Kinds |-> Released(r[k], p, t)]

-----------------------------------------------------------------------------
(* Actions *)

\* The three entries are got and held in one turn, before anything is refused.
Held(p, t) == [k \in Kinds |-> Retained(Got(k, reg[k], p), p, t)]

SendRefused(t, p, held) ==
  /\ ~Admits(held["breaker"].entries[p].value, p)
  /\ reg' = LetGo(held, p, t)
  /\ Become(t, Over("done"))
  /\ UNCHANGED truth

\* Only an admitted first attempt earns budget.
SendAdmitted(t, p, held) ==
  LET breaker == held["breaker"].entries[p].value
  IN /\ Admits(breaker, p)
     /\ reg' = [held EXCEPT !["breaker"] = WithPermit(@, p),
                            !["budget"] = WithRequest(@, p)]
     /\ Become(t, [stage |-> "waiting", partition |-> p, retries |-> 0,
                   trial |-> breaker.state # "closed"])
     /\ Log(p, "requests")

Send(t) ==
  /\ At(t, "unsent")
  /\ \E p \in Partitions :
        SendRefused(t, p, Held(p, t)) \/ SendAdmitted(t, p, Held(p, t))
  /\ UNCHANGED now

\* The attempt goes: the pause is over and it takes a token.
Start(t) ==
  LET p == tk[t].partition
      v == Value("bulkhead", p)
  IN /\ At(t, "waiting")
     /\ PauseOver(v) /\ BucketFull(v)
     /\ reg' = [reg EXCEPT !["bulkhead"].entries[p].value =
                             [v EXCEPT !.running = @ \cup {t}, !.fullAt = now + Refill]]
     /\ truth' = [truth EXCEPT ![p].fullAt = now + Refill]
     /\ Become(t, [tk[t] EXCEPT !.stage = "running"])
     /\ UNCHANGED now

\* The slot is given back.
Stopped(r, p, t) == [r EXCEPT !["bulkhead"].entries[p].value.running = @ \ {t}]

\* A trial that succeeds closes the breaker; no other success changes its state.
Closed(t, r, p) ==
  IF tk[t].trial
  THEN [r EXCEPT !["breaker"].entries[p].value = [@ EXCEPT !.state = "closed"]] ELSE r

OpenUntil(t, p) == IF tk[t].trial THEN 0 ELSE truth[p].openUntil

Succeed(t) ==
  LET p == tk[t].partition
  IN /\ At(t, "running")
     /\ reg' = LetGo(Closed(t, Stopped(reg, p, t), p), p, t)
     /\ truth' = [truth EXCEPT ![p].openUntil = OpenUntil(t, p)]
     /\ Become(t, Over("done"))
     /\ UNCHANGED now

\* The failure of a trial reopens the breaker; another one may trip it.
Opened(r, p) ==
  [r EXCEPT !["breaker"].entries[p].value =
              [@ EXCEPT !.state = "open", !.openedAt = now]]

Opens(t, p) ==
  IF tk[t].trial THEN {TRUE} ELSE IF Value("breaker", p).state = "closed" THEN BOOLEAN ELSE {FALSE}

\* noteFailure: the pause only ever moves forward, and empties the bucket.
Paused(r, p) ==
  LET v == r["bulkhead"].entries[p].value
  IN [r EXCEPT !["bulkhead"].entries[p].value =
                 [v EXCEPT !.pausedUntil = Larger(@, now + PauseFor),
                           !.fullAt = Larger(@, now + PauseFor + Refill)]]

\* What an attempt that failed leaves behind: the registries and the truth.
Leaves(t, r, known) ==
  LET p == tk[t].partition
  IN \E pushback, final \in BOOLEAN :
       LET paused == IF pushback THEN Paused(r, p) ELSE r
           after == IF pushback
                    THEN [known EXCEPT !.pausedUntil = Larger(@, now + PauseFor),
                                       !.fullAt = Larger(@, now + PauseFor + Refill)]
                    ELSE known
       IN /\ tk[t].retries = MaxRetries => final
          /\ reg' = IF final THEN LetGo(paused, p, t) ELSE paused
          /\ truth' = [truth EXCEPT ![p] = after]
          /\ Become(t, IF final THEN Over("done")
                       ELSE [tk[t] EXCEPT !.stage = "failed", !.trial = FALSE])

\* An error that counts as a failure, or one that shows the host is there, which
\* closes the breaker as a success does (recordNeutral); it is retried or final.
Fail(t) ==
  LET p == tk[t].partition
      stopped == Stopped(reg, p, t)
  IN /\ At(t, "running")
     /\ \/ \E opens \in Opens(t, p) :
             Leaves(t, IF opens THEN Opened(stopped, p) ELSE stopped,
                    [truth[p] EXCEPT !.openUntil = IF opens THEN now + Reset ELSE @])
        \/ Leaves(t, Closed(t, stopped, p), [truth[p] EXCEPT !.openUntil = OpenUntil(t, p)])
     /\ UNCHANGED now

\* One iteration of the retry loop up to its sleep: the breaker, then the
\* budget.  A retry that is refused gives its permit back.
Retry(t) ==
  LET p == tk[t].partition
      breaker == Value("breaker", p)
      budget == Value("budget", p)
      acquired == [reg EXCEPT !["breaker"] = WithPermit(@, p)]
      asked == [acquired EXCEPT !["budget"].entries[p].value.buckets = Withdrawn(@)]
  IN /\ At(t, "failed")
     /\ \/ /\ ~Admits(breaker, p)
           /\ reg' = LetGo(reg, p, t)
           /\ Become(t, Over("done"))
           /\ UNCHANGED truth
        \/ /\ Admits(breaker, p) /\ ~Grants(budget.buckets)
           /\ reg' = LetGo(asked, p, t)
           /\ Become(t, Over("refused"))
           /\ UNCHANGED truth
        \/ /\ Admits(breaker, p) /\ Grants(budget.buckets)
           /\ reg' = asked
           /\ Become(t, [tk[t] EXCEPT !.stage = "waiting", !.retries = @ + 1,
                                      !.trial = breaker.state # "closed"])
           /\ Log(p, "retries")
     /\ UNCHANGED now

\* cancel(), the deadline, a full queue or a request that was never sent: whatever
\* it waits for, it lets go, and the breaker learns nothing.
GiveUp(t) ==
  LET p == tk[t].partition
  IN /\ tk[t].stage \in {"waiting", "running"}
     /\ reg' = LetGo(Stopped(reg, p, t), p, t)
     /\ Become(t, Over("done"))
     /\ UNCHANGED <<truth, now>>

Remembered(f) == [s \in DOMAIN f |-> IF s + Window >= now THEN f[s] ELSE 0]

\* A ticket decides on its retry before any timer can fire.
Tick ==
  /\ now < MaxNow
  /\ \A t \in Tickets : ~At(t, "failed")
  /\ now' = now + 1
  /\ truth' = [p \in Partitions |->
       [truth[p] EXCEPT !.requests = Remembered(@), !.retries = Remembered(@)]]
  /\ UNCHANGED <<reg, tk>>

Init ==
  /\ now = 0
  /\ reg = [k \in Kinds |-> [entries |-> <<>>, calls |-> 0, trigger |-> SizeThreshold]]
  /\ tk = [t \in Tickets |-> Over("unsent")]
  /\ truth = [p \in Partitions |->
       [pausedUntil |-> 0, fullAt |-> 0, openUntil |-> 0,
        requests |-> [s \in 0..MaxNow |-> 0], retries |-> [s \in 0..MaxNow |-> 0]]]

Next ==
  \/ Tick
  \/ \E t \in Tickets :
       Send(t) \/ Start(t) \/ Succeed(t) \/ Fail(t) \/ Retry(t) \/ GiveUp(t)

Spec == Init /\ [][Next]_vars

-----------------------------------------------------------------------------
(* Properties *)

Live == {t \in Tickets : tk[t].stage \in {"waiting", "running", "failed"}}

Values ==
  [bulkhead |-> [holders : SUBSET Tickets, running : SUBSET Tickets,
                 pausedUntil : Nat, fullAt : Nat],
   breaker |-> [holders : SUBSET Tickets, state : {"closed", "open", "half-open"},
                openedAt : 0..MaxNow]]

IsBudget(v) ==
  /\ v.holders \in SUBSET Tickets
  /\ \A s \in DOMAIN v.buckets :
       /\ s = BucketStart(s) /\ s <= now
       /\ v.buckets[s].requests \in Nat /\ v.buckets[s].retries \in Nat

\* Every variable holds what the code can put there; in particular the
\* trigger is never below SWEEP_SIZE_THRESHOLD, as partition-registry.ts asks
\* of adjustSizeSweepTrigger, and no entry was used in the future.
TypeOK ==
  /\ now \in 0..MaxNow
  /\ \A k \in Kinds :
       /\ DOMAIN reg[k].entries \subseteq Partitions
       /\ reg[k].calls \in 0..(SweepInterval - 1)
       /\ reg[k].trigger \in Nat /\ reg[k].trigger >= SizeThreshold
       /\ \A p \in DOMAIN reg[k].entries :
            /\ reg[k].entries[p].at \in 0..now
            /\ IF k = "budget" THEN IsBudget(Value(k, p)) ELSE Value(k, p) \in Values[k]
  /\ \A t \in Tickets :
       /\ tk[t].stage \in {"unsent", "waiting", "running", "failed", "refused", "done"}
       /\ tk[t].partition \in Partitions \cup {"none"}
       /\ tk[t].retries \in 0..MaxRetries /\ tk[t].trial \in BOOLEAN

\* A live ticket's three entries are the ones the registries hand to everyone
\* else, whatever was swept meanwhile: two bulkheads for one host would let
\* twice its concurrency through, and a breaker nobody else sees trips for no
\* one (B12: retain, isEvictable).  A ticket that is not live holds nothing.
HeldIsLive ==
  \A k \in Kinds, p \in Partitions :
    LET holders == {t \in Live : tk[t].partition = p}
    IN IF p \in DOMAIN reg[k].entries THEN Value(k, p).holders = holders
       ELSE holders = {}

\* What is remembered of a partition: its entry, or else a new one.
Memory(k, p) == IF p \in DOMAIN reg[k].entries THEN Value(k, p) ELSE NewEntry(k)

\* What the window still counts at this time, had it never been dropped.
Counts(f) ==
  MapThenSumSet(LAMBDA s : f[s], {s \in DOMAIN f : BucketStart(s) + Window >= now})

\* A sweep forgets nothing that would be decided on: the pause and the empty
\* bucket of a bulkhead, the open time of a breaker that has not waited out
\* its timeout, and the requests and retries in a budget's window are what
\* they would be if no entry were ever evicted (isEvictable of the three).
EvictionForgetsNothing ==
  \A p \in Partitions :
    LET bulkhead == Memory("bulkhead", p)
        breaker == Memory("breaker", p)
        buckets == Memory("budget", p).buckets
    IN /\ Larger(bulkhead.pausedUntil, now) = Larger(truth[p].pausedUntil, now)
       /\ Larger(bulkhead.fullAt, now) = Larger(truth[p].fullAt, now)
       /\ truth[p].openUntil > now =>
            breaker.state = "open" /\ breaker.openedAt + Reset = truth[p].openUntil
       /\ Sum(buckets, "requests") = Counts(truth[p].requests)
       /\ Sum(buckets, "retries") = Counts(truth[p].retries)

Since(f, from) == MapThenSumSet(LAMBDA s : f[s], {s \in DOMAIN f : s >= from})

\* The buckets may count up to BucketMs - 1 less than the window, never more.
WholeWindow == IF now > Window THEN now - Window ELSE 0

SureWindow == WholeWindow + IF now >= Window THEN BucketMs - 1 ELSE 0

\* A retry is granted only if the retries of the window before it, counted
\* each at its own time and whatever was evicted or pruned since, stay below
\* max(floor, ratio x the requests of the window): the load on a failing host
\* is bounded however the grants fall on the buckets.  It is refused only if
\* that many retries did go out: a refusal is not counted, or refusals would
\* starve the partition (tryWithdraw: "Count only admitted retries").
RetriesFollowBudget ==
  [][\A t \in Tickets :
       LET seen == truth[tk[t].partition]
           granted == tk'[t].retries > tk[t].retries
           refused == tk'[t].stage = "refused" /\ tk[t].stage # "refused"
       IN /\ granted => Scale * Since(seen.retries, SureWindow)
                          < Allowed(Since(seen.requests, WholeWindow))
          /\ refused => Scale * Since(seen.retries, WholeWindow)
                          >= Allowed(Since(seen.requests, SureWindow))]_vars

=============================================================================
