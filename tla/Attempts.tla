------------------------------ MODULE Attempts ------------------------------
(***************************************************************************)
(* The attempts of one request: executeRequest (src/queue/executor.ts)     *)
(* between a host that need not answer, a caller who may cancel and the    *)
(* timers, and what leads from one attempt to the next: the retry policy,  *)
(* the backoff and its long timers (src/queue/policy.ts, src/core/         *)
(* backoff.ts, src/core/timer.ts), the idempotency key.  The settings come *)
(* from Configuration.  The host is fetch behind faultyFetch               *)
(* (src/testing/index.ts), the library's own model of a bad host.          *)
(*                                                                         *)
(* An await of executeRequest is pending, then settled, then resumed from: *)
(* what happens in between is the interleaving this module is about.  A    *)
(* promise that has settled is resumed from before any timer fires.        *)
(*                                                                         *)
(* The queues and the events of a ticket are in RequestLifecycle, the      *)
(* breaker, the budget and the pause in modules of their own.              *)
(***************************************************************************)
EXTENDS Configuration, FiniteSets

CONSTANTS
  Layers,             \* the configurations to create a client and a request with
  MaxRetries,         \* bound: requests with more are not followed
  MaxNow,             \* bound on the clock
  Faults,             \* what faultyFetch is asked to do to a call
  RetryAfters,        \* the Retry-After headers a host may send
  DefaultBase,        \* DEFAULT_BASE_DELAY_MS
  DefaultCap          \* DEFAULT_MAX_DELAY_MS

ASSUME AttemptsAssumption ==
  /\ MaxRetries \in Nat /\ MaxNow \in Nat
  /\ DefaultBase \in Nat /\ DefaultCap \in Nat

IsHeader(h) == h.form \in {"seconds", "date"} => h.value \in Nat

ASSUME HeadersAssumption == \A header \in RetryAfters : IsHeader(header)

\* A latency is whole: the clock is one of milliseconds.
ASSUME FaultsAssumption ==
  \A fault \in Faults : "latencyMs" \in DOMAIN fault => fault.latencyMs # Half

VARIABLES
  now,
  job,                \* the request and its settings, once it has been made
  run,                \* where the code of executeRequest and the loop stands
  host,               \* by attempt: what became of the call to fetch
  body,               \* by attempt: what became of the response's body
  sleeper,            \* the one sleep() that may be under way
  hist                \* history, for the properties

vars == <<now, job, run, host, body, sleeper, hist>>

(***************************************************************************)
(* run.pc:                                                                 *)
(*   layers     nothing was created yet                                    *)
(*   refused    create() threw, or the ticket ended in ConfigurationError  *)
(*   ready      executeRequest is about to be called                       *)
(*   fetch      it awaits the response                                     *)
(*   read       it awaits the body                                         *)
(*   parse      it awaits the caller's parse                               *)
(*   over       it has returned run.kind                                   *)
(*   backoff    the retry loop sleeps                                      *)
(*   ended      the ticket has its result                                  *)
(* run.await: what the await has come to.                                  *)
(***************************************************************************)
Stages == {"layers", "refused", "ready", "fetch", "read", "parse", "over", "backoff", "ended"}

Aborts == {"cancel", "deadline", "timer"}

Awaits == {"pending", "fulfilled", "threw", "syntax"}

ErrorKinds == {"network", "retryable_status", "http", "validation", "configuration"}

Attempt == 0..MaxRetries

Never == MaxNow + 1

Smaller(a, b) == IF a < b THEN a ELSE b

NoSleep == [for |-> "none", rest |-> 0, due |-> Never]

-----------------------------------------------------------------------------
(* The timers of the request *)

AttemptMs == Get(job.timeout, "attemptMs")

TotalMs == Get(job.timeout, "totalMs")

\* The times at which the attempt and the ticket run out.
AttemptBound == IF Bounded(AttemptMs) THEN run.start + AttemptMs ELSE Never

TotalBound == IF Bounded(TotalMs) THEN TotalMs ELSE Never

InAttempt == run.pc \in {"fetch", "read", "parse"}

\* A promise has settled and its awaiter is next.
Resuming == InAttempt /\ run.await # "pending"

\* Code that runs to its next await before a timer can fire.
Busy == Resuming \/ run.pc \in {"ready", "over"}

-----------------------------------------------------------------------------
(* sleep and setLongTimeout *)

\* Mutant: the whole delay is handed to setTimeout, which cannot hold it.
ArmUnchunked(for, ms) ==
  [for |-> for, rest |-> 0, due |-> now + (IF ms > MaxTimer THEN 1 ELSE ms)]

\* arm: one timer now, the rest of the wait when it fires.
Arm(for, ms) ==
  LET chunk == Smaller(ms, MaxTimer)
  IN [for |-> for, rest |-> ms - chunk, due |-> now + chunk]

\* A timer fires with more to wait for.
SleepOn ==
  /\ ~Busy /\ sleeper.due = now /\ sleeper.rest > 0
  /\ sleeper' = Arm(sleeper.for, sleeper.rest)
  /\ UNCHANGED <<now, job, run, host, body, hist>>

Awake(for) == ~Busy /\ sleeper.for = for /\ sleeper.due = now /\ sleeper.rest = 0

\* cancel: the timer now armed is the one to clear.
Abandon(for) == IF sleeper.for = for THEN NoSleep ELSE sleeper

-----------------------------------------------------------------------------
(* Creating the client and making the request *)

NotStarted ==
  [pc |-> "layers", n |-> 0, start |-> 0, await |-> "pending", kind |-> "none",
   status |-> "none", after |-> Undefined, aborted |-> {}, result |-> "none",
   bodyDue |-> Never, reason |-> "none"]

Rejected(layers) ==
  ~(AcceptedBy(layers) /\ ValidRequest(layers.request) /\ ValidBody(layers.request))

Refuse ==
  /\ run.pc = "layers" /\ Rejected(job)
  /\ run' = [run EXCEPT !.pc = "refused", !.result = "configuration"]
  /\ UNCHANGED <<now, job, host, body, sleeper, hist>>

\* The convenience methods, and request() with a method of the caller's.
Methods == {"GET", "HEAD", "OPTIONS", "POST", "PUT", "PATCH", "DELETE"}

AnyMethod == Methods \cup {"CUSTOM"}

IdempotentMethods == {"GET", "HEAD", "OPTIONS", "PUT", "DELETE"}

\* withIdempotencyKey: a key the caller set stays, and a request that is safe
\* to repeat needs none.
KeyFor(safe, own, setting) ==
  IF own THEN "own" ELSE IF ~safe /\ setting \in {"on", "function"} THEN "generated" ELSE "none"

\* The request as every attempt of it sees it; followed within the bounds, the
\* clock's among them, which knows no fractions.
Request(safe, own, parse, honours, type) ==
  LET retry == Retries(job)
      backoff == Sub(retry, "backoff")
      request ==
        [timeout |-> Timeouts(job),
         maxRetries |-> OrElse(Get(retry, "maxRetries"), 3),
         base |-> OrElse(Get(backoff, "baseDelayMs"), DefaultBase),
         cap |-> OrElse(Get(backoff, "maxDelayMs"), DefaultCap),
         safe |-> safe,
         idempotent |-> Get(retry, "idempotent") = TRUE,
         key |-> KeyFor(safe, own, Get(retry, "idempotencyKey")),
         type |-> IF parse /\ type = "raw" THEN "json" ELSE type,
         parse |-> parse,
         honours |-> honours]
  IN /\ request.maxRetries <= MaxRetries /\ {request.base, request.cap} \subseteq 0..MaxNow
     /\ Half \notin {Get(request.timeout, "attemptMs"), Get(request.timeout, "totalMs")}
     /\ job' = request
     /\ run' = [run EXCEPT !.pc = "ready"]
     /\ UNCHANGED <<now, host, body, sleeper, hist>>

Accept ==
  /\ run.pc = "layers" /\ ~Rejected(job)
  /\ \E method \in AnyMethod, own, parse, honours \in BOOLEAN, type \in {"raw", "none", "json"} :
        Request(method \in IdempotentMethods, own, parse, honours, type)

-----------------------------------------------------------------------------
(* The host: faultyFetch around a fetch that need not honour its signal *)

FaultKeys == {"status", "latencyMs", "networkError", "hang"}

Statuses == {"ok", "bad", "retryable"}

\* validate: exactly one of the keys, with a value faultyFetch can act on; a
\* Response cannot carry a 1xx status ("informational").
ValidFault(fault) ==
  /\ Cardinality(DOMAIN fault \cap FaultKeys) = 1
  /\ "status" \in DOMAIN fault =>
       /\ fault.status \in Statuses
       /\ Get(fault, "retryAfter") = Undefined \/ IsHeader(fault.retryAfter)
  /\ "latencyMs" \in DOMAIN fault => Finite(fault.latencyMs) /\ NonNegative(fault.latencyMs)
  /\ "networkError" \in DOMAIN fault => fault.networkError = TRUE
  /\ "hang" \in DOMAIN fault => fault.hang = TRUE

NoHeader == [form |-> "none"]

\* parseRetryAfter: whole seconds are a delay, an HTTP-date a time that may have
\* passed, and anything else counts as no header.
ParseRetryAfter(header) ==
  CASE header.form = "seconds" -> header.value
    [] header.form = "date" -> IF header.value > now THEN header.value - now ELSE 0
    [] OTHER -> Undefined

\* The call is under way in the host, or waiting in faultyFetch.
Outstanding(n) == host[n] \in {"latency", "hang", "inner"}

\* What the host's signal ends at once.
Rejects(n) == host[n] \in {"latency", "hang"} \/ (host[n] = "inner" /\ job.honours)

\* Mutant: a late response is dropped without a look at its body.
ArriveDropping(n, status, after) ==
  IF n = run.n /\ run.pc = "fetch" /\ run.await = "pending"
  THEN /\ run' = [run EXCEPT !.await = "fulfilled", !.status = status, !.after = after]
       /\ body' = [body EXCEPT ![n] = "open"]
  ELSE body' = [body EXCEPT ![n] = "open"] /\ UNCHANGED run

\* The response arrives: the await is fulfilled if the attempt still waits for
\* it, or else discard() cancels the late body (B13).
Arrive(n, status, after) ==
  IF n = run.n /\ run.pc = "fetch" /\ run.await = "pending"
  THEN /\ run' = [run EXCEPT !.await = "fulfilled", !.status = status, !.after = after]
       /\ body' = [body EXCEPT ![n] = "open"]
  ELSE body' = [body EXCEPT ![n] = "cancelled"] /\ UNCHANGED run

\* Only a status that is retried is looked at for a Retry-After.
After(status, header) ==
  IF status = "retryable" THEN ParseRetryAfter(header) ELSE Undefined

Replies(n) ==
  \E status \in Statuses, header \in RetryAfters \cup {NoHeader} :
     Arrive(n, status, After(status, header))

Fails(n) ==
  /\ run' = IF n = run.n /\ run.pc = "fetch" /\ run.await = "pending"
            THEN [run EXCEPT !.await = "threw"] ELSE run
  /\ UNCHANGED body

\* The inner fetch answers or fails, at any time or never.
HostSettles(n) ==
  /\ host[n] = "inner" /\ ~Busy
  /\ host' = [host EXCEPT ![n] = "settled"]
  /\ Replies(n) \/ Fails(n)
  /\ UNCHANGED <<now, job, sleeper, hist>>

\* A latency fault has been waited for.
LatencyOver ==
  /\ Awake("latency")
  /\ host' = [host EXCEPT ![run.n] = "inner"]
  /\ sleeper' = NoSleep
  /\ UNCHANGED <<now, job, run, body, hist>>

-----------------------------------------------------------------------------
(* executeRequest: up to the first await *)

\* The attempt returns.  Its timer is cleared; a body that is handed to the
\* caller unread gets one of its own (the finally block).
Returns(r, kind) == [r EXCEPT !.pc = "over", !.kind = kind]

\* The signal had fired already, or the body factory throws.
ReturnAtOnce(kind) ==
  run' = [Returns(run, kind) EXCEPT !.start = now] /\ UNCHANGED <<host, body, sleeper, hist>>

\* The Idempotency-Key attempt n sends.
KeySent(n) == job.key

Sent(wake) ==
  hist' = [hist EXCEPT !.keys = @ \cup {KeySent(run.n)}, !.sends = @ + 1,
                       !.first = "none", !.wake = wake]

Awaiting == [run EXCEPT !.pc = "fetch", !.await = "pending", !.start = now]

\* fetch is called, and does not settle in the same turn.
Call(became, wait) ==
  /\ host' = [host EXCEPT ![run.n] = became]
  /\ run' = Awaiting
  /\ sleeper' = wait
  /\ Sent(IF became = "latency" THEN wait.due + wait.rest ELSE Never)
  /\ UNCHANGED body

\* It rejects at once, or answers at once.
CallFails ==
  /\ host' = [host EXCEPT ![run.n] = "settled"]
  /\ run' = [Awaiting EXCEPT !.await = "threw"]
  /\ Sent(Never)
  /\ UNCHANGED <<body, sleeper>>

CallAnswered(status, after) ==
  /\ host' = [host EXCEPT ![run.n] = "settled"]
  /\ run' = [Awaiting EXCEPT !.await = "fulfilled", !.status = status, !.after = after]
  /\ body' = [body EXCEPT ![run.n] = "open"]
  /\ Sent(Never)
  /\ UNCHANGED sleeper

\* faultyFetch with a fault that was drawn; the attempt's signal has not fired.
CallFaulty(fault) ==
  \/ /\ "status" \in DOMAIN fault
     /\ LET header == OrElse(Get(fault, "retryAfter"), NoHeader)
        IN CallAnswered(fault.status, After(fault.status, header))
  \/ "latencyMs" \in DOMAIN fault /\ Call("latency", Arm("latency", fault.latencyMs))
  \/ "networkError" \in DOMAIN fault /\ CallFails
  \/ "hang" \in DOMAIN fault /\ Call("hang", sleeper)

\* A call that the draw or match spares goes straight to the inner fetch.
Execute ==
  /\ run.pc = "ready"
  /\ IF run.aborted # {} THEN ReturnAtOnce("cancelled")
     ELSE \/ ReturnAtOnce("configuration")
          \/ Call("inner", sleeper)
          \/ \E fault \in {f \in Faults : ValidFault(f)} : CallFaulty(fault)
  /\ UNCHANGED <<now, job>>

-----------------------------------------------------------------------------
(* Aborts *)

\* Mutant: the await is left to the host's own promise.
InterruptedIfHonoured(r) ==
  IF r.pc = "fetch" /\ r.await = "pending" /\ ~Rejects(r.n) THEN r
  ELSE IF InAttempt /\ r.await = "pending" THEN [r EXCEPT !.await = "threw"] ELSE r

\* What an abort does to a promise that is pending: settleOnAbort rejects at
\* once, whatever the host does; a reader is cancelled, so the read ends.
Interrupted(r) ==
  IF InAttempt /\ r.await = "pending" THEN [r EXCEPT !.await = "threw"] ELSE r

\* The signals of an attempt: the ticket's and the caller's, and its timer's.
Abort(source) ==
  /\ run' = Interrupted([run EXCEPT !.aborted = @ \cup {source}])
  /\ host' = [n \in Attempt |-> IF n = run.n /\ InAttempt /\ Rejects(n) THEN "settled" ELSE host[n]]
  /\ body' = IF run.pc = "read" /\ run.await = "pending"
             THEN [body EXCEPT ![run.n] = "cancelled"] ELSE body
  /\ sleeper' = Abandon("latency")
  /\ hist' = [hist EXCEPT !.first = IF @ = "none" THEN source ELSE @]

\* The attempt's own timer.
AttemptTimeout ==
  /\ InAttempt /\ ~Busy
  /\ now >= AttemptBound /\ "timer" \notin run.aborted
  /\ Abort("timer")
  /\ UNCHANGED <<now, job>>

\* In the backoff the ticket ends at once.
WakeUp ==
  /\ run' = [run EXCEPT !.pc = "ended", !.result = "cancelled"]
  /\ sleeper' = Abandon("backoff")
  /\ UNCHANGED <<host, body, hist>>

Live == run.pc \in {"ready", "fetch", "read", "parse", "over", "backoff"}

\* cancel(), between any two steps of the attempt's code.
Cancel ==
  /\ Live /\ "cancel" \notin run.aborted
  /\ IF run.pc = "backoff" THEN WakeUp ELSE Abort("cancel")
  /\ UNCHANGED <<now, job>>

\* The timer of the whole ticket.  A backoff that would reach it is not begun.
Deadline ==
  /\ InAttempt /\ ~Busy /\ now >= TotalBound /\ "deadline" \notin run.aborted
  /\ Abort("deadline")
  /\ UNCHANGED <<now, job>>

-----------------------------------------------------------------------------
(* executeRequest: after the await of the response *)

Outer == run.aborted \cap {"cancel", "deadline"} # {}

TimedOut == "timer" \in run.aborted

\* response.body?.cancel()
Cancelled == body' = [body EXCEPT ![run.n] = "cancelled"]

\* The caller gets the response with its body unread, and the finally block
\* arms a timer for it, which aborts with a reason that names its bound.
HandOver(kind) ==
  /\ run' = [Returns(run, kind) EXCEPT
               !.bodyDue = Smaller(AttemptBound, TotalBound),
               !.reason = IF AttemptBound <= TotalBound THEN "attempt" ELSE "total"]
  /\ body' = [body EXCEPT ![run.n] = "handed"]

\* readBody: "none" cancels the body and is done with it.
Read ==
  IF job.type = "none"
  THEN Cancelled /\ run' = [run EXCEPT !.pc = "read", !.await = "fulfilled"]
  ELSE UNCHANGED body /\ run' = [run EXCEPT !.pc = "read", !.await = "pending"]

ReturnCancelling(kind) == run' = Returns(run, kind) /\ Cancelled

\* Mutant: an abort that lands after the response is not looked for.
ResumeFetchedUnchecked ==
  \/ run.status = "retryable" /\ ReturnCancelling("retryable_status")
  \/ run.status = "bad" /\ HandOver("http")
  \/ run.status = "ok" /\ job.type = "raw" /\ HandOver("success")
  \/ run.status = "ok" /\ job.type # "raw" /\ Read

ResumeFetched ==
  IF Outer THEN ReturnCancelling("cancelled")
  ELSE IF TimedOut THEN ReturnCancelling("timeout")
  ELSE \/ run.status = "retryable" /\ ReturnCancelling("retryable_status")
       \/ run.status = "bad" /\ HandOver("http")
       \/ run.status = "ok" /\ job.type = "raw" /\ HandOver("success")
       \/ run.status = "ok" /\ job.type # "raw" /\ Read

\* The outer catch: cancellation before the timeout.
FetchFailed == IF Outer THEN "cancelled" ELSE IF TimedOut THEN "timeout" ELSE "network"

ResumeFetch ==
  /\ run.pc = "fetch" /\ Resuming
  /\ IF run.await = "fulfilled" THEN ResumeFetched
     ELSE run' = Returns(run, FetchFailed) /\ UNCHANGED body
  /\ UNCHANGED <<now, job, host, sleeper, hist>>

-----------------------------------------------------------------------------
(* executeRequest: the body and the parse *)

\* The body arrives, dies on the way or is no JSON.
BodySettles ==
  /\ run.pc = "read" /\ run.await = "pending"
  /\ \E await \in {"fulfilled", "threw", "syntax"} :
       /\ run' = [run EXCEPT !.await = await]
       /\ body' = [body EXCEPT ![run.n] = IF await = "threw" THEN "dead" ELSE "read"]
  /\ UNCHANGED <<now, job, host, sleeper, hist>>

\* The two inner catches: the timeout before the cancellation.
ReadFailed ==
  IF TimedOut THEN "timeout" ELSE IF Outer THEN "cancelled"
  ELSE IF run.await = "syntax" THEN "validation" ELSE "network"

ParseFailed == IF TimedOut THEN "timeout" ELSE IF Outer THEN "cancelled" ELSE "validation"

\* settleOnAbort does not wait for the parse if the signal has fired.
Parse == [run EXCEPT !.pc = "parse", !.await = IF run.aborted = {} THEN "pending" ELSE "threw"]

ResumeRead ==
  /\ run.pc = "read" /\ Resuming
  /\ run' = IF run.await # "fulfilled" THEN Returns(run, ReadFailed)
            ELSE IF job.parse THEN Parse ELSE Returns(run, "success")
  /\ UNCHANGED <<now, job, host, body, sleeper, hist>>

\* The caller's parse need not come to an end.
ParseSettles ==
  /\ run.pc = "parse" /\ run.await = "pending"
  /\ \E await \in {"fulfilled", "threw"} : run' = [run EXCEPT !.await = await]
  /\ UNCHANGED <<now, job, host, body, sleeper, hist>>

ResumeParse ==
  /\ run.pc = "parse" /\ Resuming
  /\ run' = Returns(run, IF run.await = "fulfilled" THEN "success" ELSE ParseFailed)
  /\ UNCHANGED <<now, job, host, body, sleeper, hist>>

-----------------------------------------------------------------------------
(* From one attempt to the next *)

\* Mutant: every error is taken for one that another attempt can mend.
EveryKind == ErrorKinds \cup {"timeout"}

RetriableKinds == {"network", "timeout", "retryable_status"}

\* Mutant: an error that is transient is retried whatever the request.
RetriesAnything == run.kind \in RetriableKinds

\* defaultRetryPolicy
Retriable ==
  /\ run.kind \in RetriableKinds
  /\ job.safe \/ job.idempotent \/ job.key # "none"

\* buildBackoffFn: full jitter, so any delay up to the capped exponential one.
Jittered(n) == 0..Smaller(job.base * 2 ^ n, job.cap)

\* resolveRetryDelay: a Retry-After takes the place of the backoff.
Delays ==
  IF run.kind = "retryable_status" /\ run.after # Undefined
  THEN {Smaller(run.after, job.cap)} ELSE Jittered(run.n)

End(result) ==
  run' = [run EXCEPT !.pc = "ended", !.result = result] /\ UNCHANGED <<sleeper, hist>>

\* A cancelled attempt is the deadline's unless cancel() was called (B7).
AbortResult ==
  IF "cancel" \notin run.aborted /\ Bounded(TotalMs) THEN "deadline" ELSE "cancelled"

Failed == run.kind \notin {"success", "cancelled"}

\* No retries left: a transient error is reported as such only if there were any.
GiveUp == IF job.maxRetries > 0 /\ Retriable THEN "max_retries" ELSE run.kind

\* The delay is slept, unless it can only end in the deadline or has been
\* overtaken by an abort.
Backoff(delay) ==
  IF "cancel" \in run.aborted THEN End("cancelled")
  ELSE IF now + delay >= TotalBound \/ "deadline" \in run.aborted THEN End("deadline")
  ELSE /\ run' = [run EXCEPT !.pc = "backoff"]
       /\ sleeper' = Arm("backoff", delay)
       /\ hist' = [hist EXCEPT !.kinds = @ \cup {run.kind}, !.wake = now + delay]

\* shouldRetry: retryWhen may veto a retry, never force one.
ShouldRetry(vetoed) == Retriable /\ ~vetoed

\* The turn the attempt's result is looked at.
Decide ==
  /\ run.pc = "over"
  /\ \/ run.kind = "success" /\ End("success")
     \/ run.kind = "cancelled" /\ End(AbortResult)
     \/ Failed /\ run.n = job.maxRetries /\ End(GiveUp)
     \/ /\ Failed /\ run.n < job.maxRetries
        /\ \E vetoed \in BOOLEAN :
             IF ShouldRetry(vetoed) THEN \E delay \in Delays : Backoff(delay) ELSE End(run.kind)
  /\ UNCHANGED <<now, job, host, body>>

RetryNow ==
  /\ Awake("backoff")
  /\ run' = [run EXCEPT !.pc = "ready", !.n = @ + 1, !.aborted = {}, !.kind = "none",
                        !.status = "none", !.after = Undefined, !.await = "pending"]
  /\ sleeper' = NoSleep
  /\ UNCHANGED <<now, job, host, body, hist>>

-----------------------------------------------------------------------------
(* What is left when the ticket has its result *)

\* raw.json(), error.response.text(): the caller reads what was handed to it.
CallerReads ==
  /\ run.pc = "ended" /\ body[run.n] = "handed"
  /\ body' = [body EXCEPT ![run.n] = "read"]
  /\ UNCHANGED <<now, job, run, host, sleeper, hist>>

\* The body's own timer: the caller's read rejects.
BodyTimeout ==
  /\ ~Busy /\ body[run.n] = "handed" /\ now >= run.bodyDue
  /\ body' = [body EXCEPT ![run.n] = "aborted"]
  /\ UNCHANGED <<now, job, run, host, sleeper, hist>>

\* Every timer that is due fires before the clock moves on.
NoTimerIsDue ==
  /\ InAttempt => now < AttemptBound
  /\ Live => now < TotalBound
  /\ sleeper.due > now
  /\ body[run.n] = "handed" => now < run.bodyDue

Tick ==
  /\ run.pc \notin {"layers", "refused"} /\ now < MaxNow
  /\ ~Busy /\ NoTimerIsDue
  /\ now' = now + 1
  /\ UNCHANGED <<job, run, host, body, sleeper, hist>>

Init ==
  /\ now = 0
  /\ job \in Layers
  /\ run = NotStarted
  /\ host = [n \in Attempt |-> "idle"]
  /\ body = [n \in Attempt |-> "none"]
  /\ sleeper = NoSleep
  /\ hist = [first |-> "none", keys |-> {}, sends |-> 0, kinds |-> {}, wake |-> Never]

Code ==
  Execute \/ ResumeFetch \/ ResumeRead \/ ResumeParse \/ Decide

Timers ==
  SleepOn \/ LatencyOver \/ RetryNow \/ AttemptTimeout \/ Deadline \/ BodyTimeout \/ Tick

Outside ==
  \/ Refuse \/ Accept \/ Cancel \/ CallerReads \/ BodySettles \/ ParseSettles
  \/ \E n \in Attempt : HostSettles(n)

Next == Code \/ Timers \/ Outside

\* Promises are resumed from and timers fire; the host, the body, the parse and
\* the caller owe nothing.
Spec == Init /\ [][Next]_vars /\ WF_vars(Code) /\ WF_vars(Timers)

-----------------------------------------------------------------------------
(* Properties *)

\* Every variable holds what the code can put there; a response's body is
\* there only for a call that was answered, and only one is the caller's.
TypeOK ==
  /\ now \in 0..MaxNow
  /\ run.pc \in Stages /\ run.await \in Awaits /\ run.n \in Attempt
  /\ run.kind \in ErrorKinds \cup {"none", "success", "timeout", "cancelled"}
  /\ run.aborted \subseteq Aborts /\ run.reason \in {"none", "attempt", "total"}
  /\ \A n \in Attempt :
       /\ host[n] \in {"idle", "latency", "hang", "inner", "settled"}
       /\ body[n] \in {"none", "open", "read", "dead", "cancelled", "handed", "aborted"}
       /\ body[n] # "none" => host[n] = "settled"
       /\ body[n] = "handed" => n = run.n
  /\ sleeper.for \in {"none", "latency", "backoff"}
  /\ sleeper.rest \in Nat /\ sleeper.due \in Nat

\* The client's, the partition's and the request's settings are validated one
\* by one and then merged; what was accepted that way is still what the rest of
\* the client assumes: timers setTimeout can hold, thresholds that can be
\* reached, windows and rates that are not zero, and what one layer turned off
\* stays off (validateConfig, validateRequestOptions, mergeOptional).
AcceptedIsUsable ==
  run.pc = "layers" /\ ~Rejected(job) => Usable(job)

\* What executeRequest reports is what ended the attempt: a timeout only if the
\* attempt's timer fired first; a cancellation only if the ticket's signal
\* fired; and an error of the host or of the body, which the breaker and the
\* retry policy will act on, only if nothing aborted the attempt.
OutcomeFollowsAbort ==
  [][run.pc # "over" /\ run'.pc = "over" =>
       /\ run'.kind = "timeout" => hist.first = "timer"
       /\ run'.kind = "cancelled" => run.aborted \cap {"cancel", "deadline"} # {}
       /\ run'.kind \in ErrorKinds => run.aborted = {}]_vars

\* No response keeps its socket: a body nobody has read or cancelled belongs to
\* the attempt that is about to read it, also when the host answers only after
\* the attempt was given up (B13).  A body handed to the caller unread can be
\* read no later than the attempt's timeout and the ticket's deadline would have
\* allowed, although the attempt has ended and the ticket's own timer is gone;
\* and what aborts the read says which of the two it was (the finally block of
\* executeRequest).
BodiesBounded ==
  /\ \A n \in Attempt :
       body[n] = "open" => n = run.n /\ run.pc \in {"fetch", "read"}
  /\ body[run.n] = "handed" => now <= AttemptBound /\ now <= TotalBound
  /\ body[run.n] = "aborted" =>
       IF run.reason = "attempt" THEN now >= AttemptBound /\ AttemptBound <= TotalBound
       ELSE now >= TotalBound /\ TotalBound < AttemptBound

\* A request goes out a second time only if its method is safe to repeat, its
\* caller said so, or it carries a key, and then every attempt carries the same
\* one; and only after errors that another attempt can mend, never after an
\* answer that was accepted or could not be read (defaultRetryPolicy,
\* withIdempotencyKey, B6).
SafeToRepeat ==
  /\ hist.sends > 1 => job.safe \/ job.idempotent \/ hist.keys # {"none"}
  /\ Cardinality(hist.keys) <= 1
  /\ hist.kinds \subseteq RetriableKinds

\* A timer that is armed belongs to a wait that still goes on, and that wait
\* ends when its whole delay is over, in however many pieces setTimeout takes
\* it: an abort clears the piece that is armed now (sleep, setLongTimeout).
SleepKept ==
  sleeper.for # "none" =>
    /\ sleeper.due >= now /\ sleeper.due + sleeper.rest = hist.wake
    /\ sleeper.for = "backoff" => run.pc = "backoff"
    /\ sleeper.for = "latency" =>
         run.pc = "fetch" /\ run.await = "pending" /\ host[run.n] = "latency"

\* A request whose attempts are bounded comes to its end, also if the host, the
\* transport, the body and the caller's parse never do and none of them honours
\* the signal (#181, settleOnAbort).
EveryBoundedRequestEnds ==
  (run.pc = "ready" /\ Bounded(AttemptMs)) ~> run.pc = "ended"

=============================================================================
