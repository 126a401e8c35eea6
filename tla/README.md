# Vereda in TLA+

Vereda is an HTTP client for Node that retries, rate-limits, isolates hosts
from one another ("partitions"), and hands every request back as a *ticket*
that can be watched and cancelled. This directory holds TLA+ models of the
parts of it whose order of steps matters, TLC configurations that check them
on small instances, and TLAPS proofs of the invariants for every instance.
Paths below are relative to `src/src/`.

Vereda runs in one JavaScript thread. A *turn* — a synchronous call with all
it calls, or the continuation of one settled promise — is not interrupted, so
a turn is one step of a model. All the trouble is between turns: a promise
settles in one turn and its awaiter resumes in a later one, and in the gap a
ticket can be cancelled, its deadline can pass, the client can be closed.
Where a turn calls back into the application (an event listener, a retry
policy) the application may call the client again *inside* the turn;
`RequestLifecycle` and `Observers` split their turns there.

## Inventory

| Component | State it keeps | Operations | Talks to |
|---|---|---|---|
| Circuit breaker, one per partition (`queue/circuit-breaker.ts`) | closed / open / half-open, failure counter or rolling window, trial slots, half-open generation | `tryAcquire`, and on the permit `success`, `failure`, `release` | asked by the client before each attempt; told by it afterwards |
| Global semaphore (`queue/semaphore.ts`) | free permits, wait queue | `acquire(signal)`, the release callback | bulkheads, first attempts |
| Bulkhead, one per partition (`queue/bulkhead.ts`) | slots in use, slot queue, holds of live tickets | `run`, `takeToken`, `guard`, `notePushback`, `refusalAfter`, `retain` | the semaphore, the bucket, the pause |
| Token bucket and pause (`queue/rate-limiter.ts`, `queue/pause.ts`) | tokens (may be negative), refill point, end of the pause | `reserve`, `refund`, `freezeUntil`, `extend` | the bulkhead |
| Retry budget, one per partition (`queue/retry-budget.ts`) | buckets of requests and retries | `recordRequest`, `tryWithdraw` | the retry loop |
| Partition registries (`queue/partition-registry.ts`) | entries and their last use | `get`, `prune` | the client, per attempt |
| Ticket (`ticket/ticket.ts`) | status, result promise, abort signal | `cancel`, `markQueued`, `markRetrying`, `markDone`, `subscribe` | everything a request goes through |
| Client (`core/client.ts`) | tickets in flight with their cleanups, closing or not | `send`, the first attempt, the callbacks of the loop, `close` | all of the above |
| Retry loop (`queue/retry.ts`) | attempts counted, last error | one run per ticket | policy, breaker, budget, bulkhead, timers |
| Attempt executor (`queue/executor.ts`) | one attempt: its timers, signal, body | `execute` | `fetch`, the host |
| Backoff, timers, policy, idempotency (`core/backoff.ts`, `core/timer.ts`, `queue/policy.ts`, `core/idempotency.ts`) | none, or one timer | pure functions, `sleep` | the retry loop |
| Configuration (`core/validate.ts`, the merging in `core/client.ts` and the registries) | none | `validateConfig`, `validateRequestOptions`, `mergeOptional`, ... | `create`, every request |
| Listeners (`core/listeners.ts`) | the registrations of each event | `on`, `off`, `emit` | tickets, the client |
| Telemetry (`otel/index.ts`, the gauge in `core/client.ts`) | the open span of each ticket, the number in flight | `instrumentTracing`, `emitMetrics` | the client's events |
| Faults for tests (`testing/index.ts`) | a generator | `faultyFetch` | stands where `fetch` does |

The rest — errors, redaction, ids, metrics names, middleware, adapters — is
declarations, pure functions or functions of one call, and is not modelled.

What makes them correct, and what is hard about it:

* **Breaker.** A trial slot is handed back exactly once, whatever becomes of
  the attempt, or the breaker is stuck half-open (B1); a permit that settles
  late must not decide an episode it does not belong to; a closed breaker
  judges only what it has seen since it closed.
* **Semaphore and bulkhead.** Slots and permits are neither lost nor
  duplicated when grants, refusals and aborts cross; nobody queues for
  something free; nobody overtakes; two resources are never waited for in
  opposite orders; an aborted attempt leaves every queue (B9).
* **Lifecycle.** Every ticket ends once, its terminal event and its result
  agree, a deadline is not reported as a cancellation (B7), everything the
  request took is taken back, the attempt count is right although attempts are
  counted before they are sent, and `close()` leaves nobody pending.
* **Token bucket and pause.** The partition's rate is never exceeded, also
  when waits are aborted and pauses extended under the waiters.
* **Budget, registries.** Retries stay within their share of the traffic; an
  entry in use is never evicted and rebuilt with fresh limits, and a sweep
  forgets nothing that a decision would have depended on (B12).
* **Attempt.** Of response, body, parse, timeout and cancellation, what ended
  the attempt is what is reported; a response that comes late, or is handed
  over unread, keeps no socket (B13); a host that ignores its signal hangs
  nobody; what is not safe to repeat is not repeated (B6).
* **Configuration.** Layers are validated one by one and merged afterwards;
  the result must still be what every component assumes.
* **Observers.** A listener that throws, cancels or closes in the middle of an
  emit changes nobody else's view (B2, B3): the promise, `"done"`, the streams
  of `subscribe()`, spans and gauge (B15) agree with the request.

## Modules

| Module | What it is |
|---|---|
| `CircuitBreaker` | the breaker, its permits and its window |
| `BreakerEpisodes` | abstract breaker: a phase and the set of trials that may end it |
| `Semaphore` | the semaphore's methods as operators on its record, and callers that use it alone |
| `FifoPool` | abstract pool: holders and a first-come first-served line |
| `Bulkhead` | slot queues of all partitions over one `Semaphore` (by INSTANCE) |
| `RequestLifecycle` | tickets, first attempt, retry loop, cancel, deadline, `close()` |
| `Pacing` | token bucket, `Retry-After` pause, and the bulkhead's methods that join them |
| `Partitions` | the three registries and their sweeps, the holds of live tickets, the retry budget |
| `Configuration` | what settings are accepted and what merging makes of them; operators only |
| `Attempts` | the attempts of one request: executor, host, timers, retry policy, backoff; extends `Configuration` |
| `Observers` | listeners, promise, `subscribe()`, spans, counters and gauge of one request |
| `MC*` | the instances TLC checks |
| `CircuitBreakerProofs`, `SemaphoreProofs`, `BulkheadProofs`, `RequestLifecycleProofs`, `PacingProofs`, `PartitionsProofs`, `AttemptsProofs`, `ObserversProofs` | theorems and proofs about the module they are named for |

`Bulkhead` composes with `Semaphore`: its turns apply the semaphore's
operators in the order the code calls them. `RequestLifecycle` takes any
answer of the breaker, the queues, the token bucket and the budget, so what
it shows holds whichever of them is configured. `Attempts` begins with a
configuration of three layers and runs the request that comes of it.
`Partitions` keeps of a bulkhead and of a breaker only what their eviction
rules read; the mechanisms themselves are in `Bulkhead`, `Pacing` and
`CircuitBreaker`.

### CircuitBreaker

State: `state`, `consecutiveFailures`, `window`, `halfOpenInFlight` and
`halfOpenGeneration` are the fields of the class. `age` stands for
`Date.now() - openedAt` capped at `resetTimeoutMs`, the only thing the code
asks of the clock. `permit` holds, for each caller, the closure `tryAcquire`
returned: unsettled or not, and the generation it remembers. `sinceClose` is
a history variable that no action reads.

`windowMode`, a variable that never changes, says which of the two trip rules
the breaker was configured with.

Actions: `AdmitClosed`, `AdmitFirstTrial` and `AdmitTrial` are the ways
`tryAcquire` answers with a permit (a refusal changes nothing), `Success`,
`Failure`, `Neutral` and `Release` settle it; a second settlement does nothing
in the code, so settling consumes the permit. `Tick` ages an open breaker and
`Expire` drops the oldest bucket.

Generations are drawn from a finite pool of values no outstanding permit
remembers; the code counts up and compares for equality only. One value more
than the callers and the present generation is always enough. The rolling
window is a sequence of outcomes with a capacity, not of time buckets: any
suffix of the outcomes may be what is left of it.

### Semaphore

`sem` is `[available, waitQueue]`; `call[c]` says whether caller `c` is idle,
waiting, or holds a permit. `_drain` is `Drain`: as many waiters from the
front as there are permits. An abort after the grant finds no listener and is
the caller's business, so only waiters abort.

### Bulkhead

`running`, `slotQueue` per partition, `sem`, and `at[a]`, where each attempt
stands. Between the turn that grants or refuses a permit and the turn in
which `run` resumes, the attempt is `granted` or `refused`, and anything may
happen, an abort included. `DrainSlots` fills one slot per call because a
slot is freed one at a time. Attempts outside `Limited` are first attempts
without `limitFirstAttempts`, which only take a permit. An ended attempt may
be dispatched again with a fresh signal.

### RequestLifecycle

`tk[t]` is a record per ticket: `pc`, the await or callback its code stands
at (listed in the module), `status` and `result` of the ticket, the signal,
what `cleanup` has to take back (`kept`), whether a breaker permit is held,
and the counters. `events` collects the terminal events emitted for it.
`MidTurn` are the four places where code of the application runs inside a
turn: the `"request"` event, the top of a retry iteration, the policy, and
the terminal event. With `ListenersCallBack` it may call `cancel()` and
`close()` there; without it they only run between turns.

The answers of breaker, pause, bucket, budget, queues and host are the
disjuncts of `Admit`, `Weigh`, `Wake`, `Granted` / `QueueRefuses` and
`AttemptEnds`. A deadline is only a timer that aborts the signal; every exit
that hears the signal then decides with `AbortEnding` what to report.

`Start` is the guarded task: `executeRequest` returns at once if the signal has
fired since the grant (`StartAborted`) or if the body factory throws
(`StartUnsendable`), and otherwise goes on to the middlewares and to `fetch`
(`StartSending`). Three history fields count along: `started` the attempts
handed to `executeRequest`, `sent` those that went on, `withdrawn` the retries
the budget granted. `totalAttempts` is the code's own count.

### Pacing

One partition with a rate limit and a pause. `balance` and `frozen` are the
bucket's `tokens` and `refilledAt`, `paused` is the end of the pause, `line`
the attempts asleep in `takeToken` in order of arrival, `at[a]` the stage of
each attempt. All times are relative to now, so time is bounded without a
clock; the balance is counted in milliseconds of refill, `TokenTime` to a
token, so it is an integer. Two things the code works out when it next looks
are done at once: the refill (by `Tick`) and the shift of a waiter's turn by
the freezes since it reserved (by `Freeze`). `credit` is a reference bucket
that earns outside pauses and is charged for each attempt that goes;
`forecast` remembers a refusal `refusalAfter` predicted, to be compared with
what `takeToken` says later. Neither is read by the actions' guards, except
that one forecast at a time is followed.

Actions: `TakeToken` and `RefuseToken` (`takeToken`; a signal that has fired
already is a wait aborted at once), `TimerFires` and `AbortSleep` (its timer
and its `onAbort`), `Start` (`guard`: sent, or bounced by a pause), `Pushback`
(`notePushback` on the answer: `extend` and `freezeUntil` in the turn in which
the attempt settles), `End`, `Foresee` and `Tick`.

### Partitions

`reg[k]`, for each of the three registries, is its map of entries with the
time of the last `get`, the calls since the last sweep and the size trigger;
`tk[t]` is where a ticket stands and whether it is the half-open breaker's
trial (one trial, the default; more are in `CircuitBreaker`). The budget is
modelled in full, bucket by bucket: `Counted` is `currentBucket` with its
prune, `Grants` and `Withdrawn` are `tryWithdraw`. A bulkhead is its running
attempts, the end of the pause and the time at which its bucket (burst 1) is
full; a breaker is its state and `openedAt`. Limits are multiplied by `Scale`
so that a ratio of one half is an integer.

`truth` is a history variable that no action reads: when the pause, the empty
bucket and the open circuit of each host would end if nothing were ever
evicted, and each request and retry at its own time. Nothing of it is dropped
but what has left the window.

Actions: `Send` (get and hold the three entries, then be refused or admitted
by the breaker), `Start`, `Succeed`, `Fail` (opens the breaker, closes it like
a success, pauses the host, is retried or final), `Retry` (breaker, then budget), `GiveUp`
(everything else that ends a ticket), `Tick`.

### Configuration and Attempts

An options object is a function on the keys it has, so that a key with the
value `undefined`, which a spread keeps, differs from a missing one. Numbers
are integers, one fraction, `NaN` and `Infinity`. `ValidClient`,
`ValidPartition` and `ValidRequest` translate `core/validate.ts` check by
check, `Layered`, `MergeOptional`, `Limits` and `Breaker` the merging; `Usable`
is what the other modules assume of their constants. `NaN`, `Infinity`, the
fraction and `undefined` are constants; `ValuesAssumption` says that they are
no integers and differ from one another.

In `Attempts`, `job` is first the layers and then the settings the request
runs with; `run` is where `executeRequest` and the loop around it stand
(`run.pc`) and what the present `await` has come to; `host[n]` and `body[n]`
are the call to `fetch` and the response's body of attempt `n`, which outlive
the attempt; `sleeper` is the one `sleep()` that may be under way, with the
rest it still has to sleep after the piece `setTimeout` holds. Promises settle
by `HostSettles`, `BodySettles`, `ParseSettles`, `Abort`; the code resumes by
`ResumeFetch`, `ResumeRead`, `ResumeParse`, `Decide`, `RetryNow`. `Cancel`
may come between any two of them, a timer only when no continuation is due:
JavaScript runs all promise continuations before the next timer. `hist`
remembers the first abort of the attempt, the keys and the number of requests
sent, the kinds of error that led to a retry and when the sleep should end.

### Observers

`todo` is the synchronous work that is left, innermost first, like a call
stack: to `emit` an event (which copies the list of listeners), to `call` one
listener, to `mark` the ticket, to `resolve` its promise, to `cleanup`, to
`measure`. A listener of the caller's returns, throws, cancels or closes, takes
itself off, or stops the tracing; what it leads to is put in front of the
rest. Asynchronous code (`Request`, `FirstAttempt`, `RetryLoop`, `AttemptBegins`,
`Cancel`, `Stop`, `ListenToTicket`, `ListenToClient`, and the consumers'
`Subscribe`, `Ask`, `Wake`, `Leave`) has its turn when `todo` is empty. Each
ending of a request puts its emit, its `markDone` and its cleanup in the order
the code has them in. `"success"`, `"failure"` and `"cancelled"` are one event,
`"end"`. `client.measured` counts the retries and the endings that were
measured, which the code does after the listeners of the event.
`AttemptBegins` opens an attempt's span under the ticket's; `hist.orphaned`
remembers one that found no parent.

## What the runs check

| Run | Shows | States, time |
|---|---|---|
| `breaker` | three callers on a breaker of either mode, two trials, two ticks: slots accounted for, implements `BreakerEpisodes`, trips on fresh evidence, recovers | 49 thousand, 6 s |
| `breaker_trial_cap` | *violated*: trials left over from one episode run beside those of the next (finding) | |
| `semaphore` | six callers, two permits, three places: implements `FifoPool`, conserves permits, serves every waiter | 622, 2 s |
| `bulkhead` | two partitions with one slot each and an attempt of neither, over two permits and one place in the global queue: capacity conserved, who takes over a slot is refused only if the host is saturated, nobody queues for ever | 8 thousand, 35 s |
| `lifecycle` | a ticket with a deadline and one without, two retries, application code calling back from listeners | 285 thousand, 35 s |
| `lifecycle_event` | *violated*: a ticket without a terminal event (finding) | |
| `pacing` | three attempts, one token every two ticks, burst 1, pauses of up to three ticks: rate, spacing of waiters, forecasts, nobody waits for ever | 60 thousand, 8 s |
| `pacing_order` | *violated*: a newcomer's turn comes before that of an earlier waiter (finding) | |
| `partitions` | three tickets over two partitions, a sweep at every second `get` and above one entry: holds, memory and budget | 1.2 million, 90 s |
| `attempts` | three thousand combinations of layers and the request each of them allows, with one retry | 2.4 million, 75 s |
| `observers` | one stream, two registrations of a listener of the caller's among five client and ticket events, the tracer, two retries | 0.86 million, 35 s |
| `observers_stopped` | *violated*: a span that is recorded after the tracing was stopped, and never ends (finding) | |

Some properties say several related things: `CapacityConserved` (slots,
permits, queues and places match, and no slot or permit idles while somebody
waits for it), `EndingAgrees` (the result, the terminal event and the reason
of the ending), `NothingLeftBehind` (what the ticket took, and what `close()`
leaves), `SettledOnce`, `TelemetryAgrees`. Their conjuncts are commented in
the modules.

Every property of a passing run has a mutant in `PROJECT.json`: a version of
one definition with a bug the code could plausibly have, under which the run
fails.

### Findings

1. `breaker_trial_cap`. Two trials are admitted; one fails and reopens the
   breaker; after the reset timeout the next episode starts its count at 0
   while the other trial is still on its way. With `halfOpenMaxAttempts` 2,
   three trials are then in flight, where the option is documented as
   "concurrent trial requests allowed while half-open" (`core/types.ts:176`).
2. `lifecycle_event`. Rule 1 of `docs/book/11-rules-and-bugs.md:30-31` wants
   exactly one terminal event, which agrees with the ticket's result. It fails
   in two ways. TLC's trace is the shorter: the first attempt is refused by a
   full queue and the caller cancels before the rejection is handled. The
   handler sees a settled ticket and emits nothing, and `Ticket.cancel` emits
   only to the ticket's own listeners: the `"request"` event stays without a
   terminal one. And if `cancel()` arrives when the attempt is over and its
   awaiter has not resumed, the ticket resolves as cancelled and the event says
   `"success"` or `"failure"`. `EndingAgrees`, which holds and is proved, says
   when exactly: the event is missing if and only if the cancellation fell
   between that refusal and its handler; the moments in which an event
   can disagree are named one by one (`TooLate`); a cancellation that falls
   between an attempt's success and its awaiter always leaves a success event;
   and but for those moments there is exactly one event and it agrees.
3. `observers_stopped`. A listener of `"request"` registered before the
   tracer's calls the function that `instrumentTracing` returned. `emit` goes
   through a copy of its list, so the tracer's `onRequest` is still called; it
   does not look at `active`, and the span it opens is in nobody's reach any
   more. `docs/guide/observability.md:148` ("`stop()` ends any open ticket spans
   and stops recording.") and `otel/index.ts:54` promise otherwise.
   `TelemetryAgrees` excepts this one span (`stoppedAhead`) and no other.
4. `pacing_order`. A wait is aborted and its token handed back: those behind
   it keep their turns, and the next to arrive finds the token. After two
   aborts a newcomer is due before a waiter that reserved earlier, where
   `TokenBucket`'s comment (`queue/rate-limiter.ts:5`) and
   `docs/guide/resilience.md:324` promise arrival order. `SpacingKept` is what
   does hold: order and spacing are kept as long as no token comes back.

### Behaviour the models bring out

None of this contradicts a promise of the repository, but a reader of the code
might not expect it.

* A timer cannot fire between a promise's settling and its continuation. The
  check for a timeout right after the response in `executeRequest` is
  therefore defensive; the one for a cancellation is not.
* After an abort, the catch of the fetch reports a cancellation before a
  timeout, the catches of the body and of `parse` a timeout before a
  cancellation. `OutcomeFollowsAbort` shows this to be harmless: a timeout is
  reported only when the timer was first.
* A deadline is never due during a backoff: a backoff that would reach it is
  not begun.
* `attemptMs: undefined` in a partition's or a request's `timeout` replaces the
  client's bound by none, because a spread copies the key. The client-level
  check that makes `attemptMs` mandatory does not look there.
* A listener of `"update"` that cancels makes the streams see `cancelled`
  before the update that was being delivered (`StreamsComplete`). A listener
  of `"retry"` that cancels does not: the ticket is marked only afterwards.
* An ending without a terminal event (finding 2) leaves its span open until the
  tracing is stopped.
* The `attempts` of a terminal event are those that reached `executeRequest`.
  One of them, the last, may not have been sent: its signal fired after its
  slot and permit were granted and before it began (`queue/executor.ts:59`), or
  its body factory threw (`queue/executor.ts:74`), and neither is taken out of
  the count again. What the repository says of the count is narrower and holds:
  that of a success is of "tries that were really sent"
  (`docs/book/05-life-of-a-request.md:562`), and a retry refused by a full queue
  or an empty bucket "reports attempts actually dispatched"
  (`queue/retry.ts:317`). `AttemptsReported` states both, and the exception.
  A ticket whose first attempt was never sent reports 1.
* An aborted attempt whose transport ignores the signal goes on in the host;
  its response is cancelled when it comes.

### Bounds

Three callers make a breaker with two trial slots meet a stale trial, a
current trial and a closed-spell permit at once. Six callers fill two permits
and three places and leave one refused. In `bulkhead` three attempts share a
partition with one slot (one runs, one queues, one comes or aborts), two are in
the other partition and one is outside both; two permits and one place make
them meet, and leave some refused. Two tickets let one ticket's listener act on
the other; two retries are the least that has a retry after a retry, where the
counters could be wrong by one.

In `pacing`, `maxWaitMs` is 7 ticks, enough for three waiters behind a pause
of three and for a refusal; the host may name 1, 2 or 4 ticks, one of them above
`maxPauseMs`. Waiting is bounded by `maxWaitMs`, and the only bound that is not
the code's is the cap on `credit`.

In `partitions` the clock stops at 3 (`MaxNow`). With a time to live of 0, a
window of 2, a reset timeout and a pause of 2 and one token per tick, each
entry can outlive its last use, be swept, and be made again before what it
remembered has run out; two partitions over a size threshold of 1 make the
size trigger fire and double. Three tickets are the least that have two live
holders and one more who sweeps.

In `attempts` the longest timer `setTimeout` takes is 2 (`MaxTimer`), so that
a latency of 3, a `Retry-After` of 3 and a backoff of up to 3 need two pieces;
attempts run 1 or 2 ticks or without a bound, and so does the ticket,
and the clock stops at 8 (`MaxNow`), beyond every bound. Two attempts
(`MaxRetries`) let the first one's response come during the second. Only
requests within these bounds are followed; every combination of layers is
validated and merged. Of the numbers it tries every class the checks tell
apart: negative, 0, 1, the largest timer and one more, a fraction, `NaN`,
`Infinity` and `undefined`. A host may send a `Retry-After` in seconds, a date that passes
while it takes its time, or garbage.

In `observers` two retries give a stream four updates; `MaxListeners` 2 puts
the caller's listener on any two of the events, before the tracer's or after.

### Fairness

* `CircuitBreaker`: every permit is settled, because `release()` is in a
  `finally` around every attempt, and time passes. `Recovers` asks in addition
  what the code cannot give: that from some time on every attempt is
  answered, and that somebody keeps asking.
* `Semaphore`: a permit is released when its attempt settles (`finally`).
* `Bulkhead`: promise continuations run, and a started task settles. Nobody
  is obliged to dispatch or to abort.
* `RequestLifecycle`: continuations run, timers fire (deadline, backoff,
  `close`'s drain), and an attempt under way ends, because `attemptMs` or its
  own signal ends it. A ticket whose signal fired is abandoned by the executor
  even when `fetch` ignores the signal (`settleOnAbort`); `Attempts` shows
  that this needs nothing of the host. Nothing is assumed of the queues. With
  `attemptMs` switched off and neither a deadline nor a cancellation, an
  attempt may hang as long as its host does; the liveness property is only
  about tickets that have one of the two.
* `Pacing`: time passes and a timer fires when it is due, before time goes on.
  Nobody is obliged to ask, send, answer or abort. `EveryWaiterGoes` asks in
  addition that the host stops pausing at some time: each pushback moves every
  waiter's turn, so without that a wait has no end.
* `Attempts`: weak fairness of `Code` (a promise that has settled is resumed
  from) and of `Timers` (what is due fires, and time passes). The host, the
  body, the caller's `parse` and the caller owe nothing; `EveryBoundedRequestEnds`
  is about requests whose `attemptMs` is a bound.
* `Observers`: weak fairness of the synchronous work (it runs on) and, for each
  stream, of the continuation of a promise that has resolved. A consumer need
  not ask for more, and the request need not end: `WaitEnds` begins with its
  ending.
* `Partitions` has no liveness property and no fairness.

`lifecycle`, `partitions`, `attempts` and `observers` switch the deadlock check
off: their tickets end, their clocks stop at the bound, and a closed client has
nothing left to do.

## Proofs

Every safety property of a passing run is also a theorem for every value of the
constants. Each proof module has an inductive
invariant `IInv` that holds initially (`InitIInv`), is kept by every step
(`NextIInv`), and implies the properties; TLC checked each `IInv` on the run's
instance before it was proved. What a property lacks to be inductive is what is
worth reading, and is said here for each module.

**CircuitBreakerProofs**, for any callers and configuration: `TypeCorrect`
(with at most `HalfOpenMaxAttempts` slots), `SlotsAccounted` (while half-open
the counter is the number of unsettled permits of the episode),
`EpisodesImplemented` (refinement of `BreakerEpisodes`) and `FreshEvidence`
(trips only on evidence gathered since the last close, in both modes). The type
and the counter equation are not inductive one without the other: `AdmitTrial`
keeps the counter in its type because its guard bounds it, and freeing a slot
keeps the equation only if the counter is not zero, which the equation says
when the permit is a current trial. `IInv` is therefore both of them with
`GenerationGiven`: a half-open episode has a generation of its own, which no
permit from a closed spell can have. `FreshEvidence` rests on a separate
invariant, `EvidenceIsFresh`: while the breaker is closed and has not seen
enough since it closed, neither the window nor the failure counter holds more
than that.

**SemaphoreProofs**, for any callers, permits and queue size: `TypeCorrect`
(with: a caller waits if and only if it stands in the queue, once),
`PermitsBalance`, `NobodyWaitsInVain` and `PoolImplemented` (refinement of
`FifoPool`). The three invariants are proved together. `_drain` may serve any
number of waiters as written; that nobody waits while a permit is free is what
makes it serve at most one per release (`ReleaseServesHead`), and both the
balance and the order depend on that.

**BulkheadProofs**, for any attempts, partitions and limits: `TypeCorrect`,
`CapacityBalance` and `OnlySaturationRefuses`. `IInv` is the two invariants and
the limit of the semaphore's queue. A turn makes several calls, and between
them the books do not balance: a task that settled still counts in its slot,
and its permit is nobody's until it is handed on. So there is a lemma for each
call, about any record of the fields, that says what is owed before and after
it (`SlotsUpTo`, `PermitsUpTo`, and `SoundBut` for an attempt that stands in no
queue yet), and an action is proved from the calls it makes, in their order.

**RequestLifecycleProofs**, for any tickets, any of them with deadlines, any
number of retries, and listeners that call back or not: `TypeCorrect`,
`EndingsAgree`, `NothingKept`, `AttemptsCounted`. But for `close()` no turn
touches two tickets, so `IInv` says of each record what may be in it at each
place of the code: how many attempts were counted, begun and granted (`Counts`),
who fired the signal and what was written down of it (`Signals`), the one event
(`Events`), where the code of a ticket cancelled in time can stand (`InTime`),
which attempt may have begun without being sent (`Reports`),
what is still to be taken back (`Kept`), and what a closed client has done to it
(`Shed`). `EndingAgrees` speaks of a ticket that has ended; `InTime` is what it
takes to know, at the ending, whether the cancellation came early enough to be
the one reported. The exits of the code share one lemma on what must hold for
an event to be the right one (`Exits`).

**PacingProofs**, for any rate, burst, `maxWaitMs`, `maxPauseMs`, `Retry-After`
and number of attempts: `TypeCorrect`, `RateKept`, `SpacingHolds`,
`RefusalsForeseen`. `WithinRate` is not inductive, since it says nothing of
those who have a place in the line before their token is earned. `IInv` accounts
for them: the bucket has no more than was earned beyond what the waiters are
owed (`Covered`), and by the turn of each waiter a token is earned for it and
for everybody whose turn comes no later (`Earning`), which is what pays for it
when it wakes. That a waiter's turn is no later than the bucket's debt unless a
token came back (`Indebted`) is what spaces the next reservation from it, and
`Frozen` ties the freeze of the bucket to the pause. An abort changes nobody's
turn, and a freeze and a tick move all turns by as much.

**AttemptsProofs**, for any sets of layers, faults and headers:
`MergedIsUsable` (whatever was accepted layer by layer is usable once merged,
group by group), and from it `ConfigurationUsable`; `TypeCorrect`, `BodiesKept`,
`RepeatsAreSafe`, `SleepsAreKept` and `OutcomesExplained`. `IInv` adds to the
properties that the settings of a request that was made are numbers (which
needs `MergedIsUsable`), that no timer is overdue (`Punctual`), what has fired
the signal while something is awaited (`Signals`), and where the body of each
attempt can be (`Bodies`): a body is open only while its call is resumed or it
is being read, so every other way out has cancelled it or handed it over with
its timer.

**ObserversProofs**, for any streams, listeners and number of retries:
`TypeCorrect`, `EndsSettled`, `StreamsDeliver`, `TelemetryTrue`. What is promised
holds when no turn is under way; a listener can call back in the middle of one.
So `IInv` says of every moment that each count a promise is about is what has
happened together with what is left in `todo` of that kind: endings announced
(`Settling`), retries and endings measured (`Reporting`), spans opened and
closed (`Tracing`), updates seen by each stream (`Watching`). With an empty
`todo` these are the properties. The order in which a stream sees its updates
needs `Orderly`: nothing comes in front of an update that is being delivered,
unless a listener of an update called back. Most of the lemmas are about how
often a kind of work occurs in `todo` and what each kind of work does to that.

**PartitionsProofs**, for any partitions and tickets, any window, number of
buckets, limits and sweep settings: `TypeCorrect`, `HoldsAreLive`,
`SweepsForgetNothing`, `BudgetFollowed`. A sweep may drop an entry, and the next
`get` makes it anew, so `IInv` speaks of what is remembered of a partition
(`Mem`): its entry, or the new one that would be made. Who holds it are its live
tickets (`LiveAt`), and it agrees with the truth (`Remembers`) about pause,
bucket and circuit, and bucket by bucket about the budget's counts. A sweep
keeps this because an idle entry is as good as a new one (`IdleIsForgettable`),
which is where the eviction rules are needed. A turn touches up to three
registries in several calls; as in `BulkheadProofs` there is a lemma for each
call (`Good`, `Turn`).

`Tallies`, the budget's part, says that each bucket of the window holds the sum
of what happened in its time. That the buckets together are then the sum over
the window (`TalliesSum`, `WindowCounts`), and how far that is from the count of
the last `Window` ticks (`CountsBounds`), needs facts about sums over any finite
set: of two disjoint sets, of one element more, of a larger set. They are proved
from the definition of the fold in the library: a set for which such a fact
failed would have a least subset for which it fails, by the well-foundedness of
strict inclusion, and taking one element from that gives a smaller one.

The lemmas on waiting lines are in `BulkheadProofs`: a queue in which everybody
stands once when somebody joins, is served, or leaves from within. Removing a
place (`RemoveAtProperties`) is also needed in `SemaphoreProofs` and
`PacingProofs`, which do not extend it.

The assumptions are those named in the modules: callers and attempts are finite
sets, limits are natural numbers and positive where the code's validation makes
them so; the values of a configuration are what they are called
(`ValuesAssumption`); a header that was parsed holds a number
(`HeadersAssumption`); the latency of a fault is whole (`FaultsAssumption`);
whoever listens is a function object of its own (`ObserversAssumption`); the
window, its number of buckets, the sweep interval and threshold are positive
(`BudgetAssumption`, `SweepAssumption`).

Only model-checked:

* Liveness (`Recovers`, `EveryWaiterServed`, `EveryQueuedAttemptLeaves`,
  `EveryTicketLetsGo`, `EveryWaiterGoes`, `EveryBoundedRequestEnds`, `WaitEnds`):
  TLAPS does not reason about fairness and ENABLED.
* The properties of the four findings, which do not hold.

## Not modelled

* Listeners that send new requests in mid-turn, and exceptions the code does
  not expect.
* The disabled breaker, `snapshot()`, and the breaker's raw methods that only
  `tryAcquire` calls; an unconfigured budget; `delete()` and `values()` of the
  registries, which change nothing a request sees.
* Times in `RequestLifecycle`, except for their order: delays and deadlines are
  choices there. `Pacing`, `Partitions` and `Attempts` count them, in ticks.
* In `Pacing`: a partition with only a rate limit or only a pause, no
  `maxWaitMs`, timers that fire late, and rates that do not divide 1000 (the
  code rounds the wait up to a whole millisecond).
* In `Attempts`: middleware, which is part of the call to `fetch`; a custom
  backoff function; the three forms an HTTP-date may be written in; the draws of
  `faultyFetch`, which are choices.
* In `Observers`: the end of an attempt's client span, which is in the same call
  of the middleware as its begin; span events, the OpenTelemetry meter,
  queue-depth gauges.
* URL resolution, statistics, logging, formatting; errors, redaction and ids;
  adapters; the options of `close()`; the performance harness and the site,
  which are not part of the library.

## Plan

Done, in this order: the breaker with its proofs; the semaphore with its
proofs; the bulkhead over it; the lifecycle; pacing; the registries with the
budget; configuration and attempts; observers; then the proofs about the
bulkhead, the lifecycle, pacing, attempts, observers, and the registries with
the budget. Next:

1. The part of the liveness properties that has no fairness in it: that a step
   of each waiter's own code is possible where it is needed, and the measure that
   makes it the last one (`EveryWaiterServed`, `EveryQueuedAttemptLeaves`).
2. The slot queues of `Bulkhead` as lines of `FifoPool`, one for each partition.
3. What holds of `Partitions` between sweeps: how long an idle entry may stay.
