-------------------------- MODULE RequestLifecycle --------------------------
(***************************************************************************)
(* The life of every ticket of a client: send and the first attempt        *)
(* (src/core/client.ts), the retry loop (src/queue/retry.ts), cancel()     *)
(* (src/ticket/ticket.ts), the whole-ticket deadline, and close().         *)
(*                                                                         *)
(* What surrounds a ticket is nondeterministic here: the breaker, the      *)
(* pause, the rate limit, the budget, the queues and the host may give     *)
(* any answer.  CircuitBreaker and Bulkhead say which ones they do give.   *)
(*                                                                         *)
(* A turn of JavaScript that calls out to the application's listeners or   *)
(* callbacks is split where it does: the states in MidTurn lie inside a    *)
(* turn.  With ListenersCallBack those callbacks may cancel tickets and    *)
(* close the client; without it nothing happens inside a turn.             *)
(***************************************************************************)
EXTENDS Naturals, Sequences

CONSTANTS
  Tickets,
  Bounded,            \* the tickets with a totalMs
  MaxRetries,
  ListenersCallBack

ASSUME BoundedAssumption == Bounded \subseteq Tickets

ASSUME ConfigAssumption == MaxRetries \in Nat /\ ListenersCallBack \in BOOLEAN

VARIABLES
  tk,                 \* a record for each ticket
  closing             \* "open" | "draining" | "closed"

vars == <<tk, closing>>

(***************************************************************************)
(* pc: where the ticket's asynchronous code stands.                        *)
(*   unsent      request() was not called                                  *)
(*   fired       the "request" event is being emitted                      *)
(*   queueing    waits for a token, a slot or a permit                     *)
(*   granted     its token, slot and permit are there; not resumed yet     *)
(*   bounced     a pause began while it queued; not resumed yet            *)
(*   rejected    QueueFullError was thrown; not resumed yet                *)
(*   running     the attempt is under way                                  *)
(*   outcome     the attempt is over; its awaiter has not resumed yet      *)
(*   deciding    at the top of a retry iteration                           *)
(*   weighing    past the cancellation check, in the retry gates           *)
(*   sleeping    in the backoff                                            *)
(*   slept       the backoff is over; not resumed yet                      *)
(*   concluding  the terminal event is being emitted                       *)
(*   ended       the ticket's code has returned                            *)
(***************************************************************************)
MidTurn == {"fired", "deciding", "weighing", "concluding"}

Endings == {"success", "failure", "deadline", "cancelled"}

Unsent == [
  pc |-> "unsent",
  status |-> "pending",
  result |-> "none",        \* what the ticket's promise resolved with
  aborted |-> FALSE,        \* the ticket's AbortSignal
  kept |-> {},              \* what cleanup has to take back
  permit |-> FALSE,         \* an unsettled breaker permit is held
  retries |-> 0,            \* retry iterations that went ahead
  totalAttempts |-> 1,
  outcome |-> "none",       \* what the last attempt came to
  verdict |-> "none",       \* what markDone is about to be called with
  events |-> <<>>,          \* the terminal events emitted for it
  started |-> 0,            \* history: attempts handed to executeRequest
  sent |-> 0,               \* history: those it passed on, at last to fetch
  withdrawn |-> 0,          \* history: retries the budget granted
  cancelledAt |-> "never"]  \* history: pc when cancel() took effect

-----------------------------------------------------------------------------
(* The ticket and what a turn does to it, as operators on its record *)

Settled(r) == r.status \in {"done", "cancelled"}

\* Ticket.cancel
Cancelled(r) ==
  IF Settled(r) THEN r
  ELSE [r EXCEPT !.status = "cancelled", !.result = "cancelled",
                 !.aborted = TRUE, !.cancelledAt = r.pc]

\* markDone: ignored once the ticket is terminal.
MarkDone(r, ending) ==
  IF Settled(r) THEN r ELSE [r EXCEPT !.status = "done", !.result = ending]

\* markQueued and markRetrying, ignored likewise.
MarkWaiting(r, status) == IF Settled(r) THEN r ELSE [r EXCEPT !.status = status]

\* entry.cleanup
CleanUp(r) == [r EXCEPT !.kept = {}]

Emit(r, ending, attempts) ==
  [r EXCEPT !.events = Append(@, [kind |-> ending, attempts |-> attempts]),
            !.verdict = ending, !.pc = "concluding"]

\* Exits of the first attempt's code emit, settle, and then clean up; exits
\* of the retry loop clean up, emit, and then settle (Conclude does the rest).
EndFirst(r, ending) == Emit(r, ending, 1)

EndRetry(r, ending, attempts) == Emit(CleanUp(r), ending, attempts)

InLoop(r) == r.retries > 0

\* Mutant: every abort is taken for a cancellation.
AbortIsCancel(t) == "cancelled"

\* The signal fired: a deadline unless cancel() was called (B7).
AbortEnding(t) ==
  IF tk[t].status # "cancelled" /\ t \in Bounded THEN "deadline" ELSE "cancelled"

Idle == \A t \in Tickets : tk[t].pc \notin MidTurn

Become(t, r) == tk' = [tk EXCEPT ![t] = r] /\ UNCHANGED closing

At(t, pc) == tk[t].pc = pc

\* The code of ticket t resumes from pc, at the start of a turn.
Resumes(t, pc) == At(t, pc) /\ Idle

-----------------------------------------------------------------------------
(* request() *)

Tracked(t) ==
  [Unsent EXCEPT !.kept = {"inflight", "listener"}
                            \cup IF t \in Bounded THEN {"timer"} ELSE {}]

\* The caller's signal was already aborted.
SendAborted(t) ==
  Become(t, EndFirst(Cancelled([Tracked(t) EXCEPT !.pc = "fired"]), "cancelled"))

\* The url, the body or the options are unusable.
SendInvalid(t) == Become(t, EndFirst(Tracked(t), "failure"))

SendValid(t) == Become(t, [Tracked(t) EXCEPT !.pc = "fired"])

Send(t) ==
  /\ Resumes(t, "unsent")
  /\ closing = "open"
  /\ SendAborted(t) \/ SendInvalid(t) \/ SendValid(t)

-----------------------------------------------------------------------------
(* The first attempt: admission *)

Retained(t) == [tk[t] EXCEPT !.kept = @ \cup {"holds"}]

CircuitOpen(t) == Become(t, EndFirst(Retained(t), "failure"))

\* The partition is paused past the deadline.
PausedTooLong(t) ==
  /\ t \in Bounded
  /\ Become(t, EndFirst(Retained(t), "deadline"))

\* takeToken throws RateLimitedError.
RateLimited(t) == Become(t, EndFirst([Retained(t) EXCEPT !.permit = TRUE], "failure"))

Admitted(t) == Become(t, [Retained(t) EXCEPT !.permit = TRUE, !.pc = "queueing"])

Admit(t) ==
  /\ At(t, "fired")
  /\ CircuitOpen(t) \/ PausedTooLong(t) \/ RateLimited(t) \/ Admitted(t)

-----------------------------------------------------------------------------
(* Queues and attempts, of the first attempt and of the retries alike *)

Granted(t) ==
  /\ Resumes(t, "queueing")
  /\ ~tk[t].aborted
  /\ Become(t, [tk[t] EXCEPT !.pc = "granted"])

Begun(t) == [tk[t] EXCEPT !.started = @ + 1]

\* The signal has fired since the permit was granted: executeRequest returns
\* without a fetch, and nobody takes the attempt out of the count.
StartAborted(t) ==
  /\ tk[t].aborted
  /\ Become(t, [Begun(t) EXCEPT !.pc = "outcome", !.outcome = "cancelled"])

\* The body factory throws: no fetch either.
StartUnsendable(t) ==
  /\ ~tk[t].aborted
  /\ Become(t, [Begun(t) EXCEPT !.pc = "outcome", !.outcome = "unsendable"])

StartSending(t) ==
  /\ ~tk[t].aborted
  /\ Become(t, [Begun(t) EXCEPT !.pc = "running", !.sent = @ + 1])

\* The guarded task runs.
Start(t) ==
  /\ Resumes(t, "granted")
  /\ StartAborted(t) \/ StartUnsendable(t) \/ StartSending(t)

\* The partition was paused meanwhile: nothing is sent.
Bounce(t) ==
  /\ Resumes(t, "granted")
  /\ Become(t, [tk[t] EXCEPT !.pc = "bounced"])

\* Mutant: the first attempt is taken out of a count it was never added to.
LeaveQueueUncounted(t) ==
  [tk[t] EXCEPT !.pc = "outcome", !.outcome = "cancelled", !.totalAttempts = @ - 1]

\* The signal fired in a queue: nothing was sent.
LeaveQueue(t) ==
  [tk[t] EXCEPT !.pc = "outcome", !.outcome = "cancelled",
                !.totalAttempts = IF InLoop(tk[t]) THEN @ - 1 ELSE @]

\* Mutant: a queued attempt does not listen to its signal (B9).
QueueIgnoresAbort(t) == FALSE

QueueAborts(t) ==
  /\ Resumes(t, "queueing")
  /\ tk[t].aborted
  /\ Become(t, LeaveQueue(t))

QueueRefuses(t) ==
  /\ Resumes(t, "queueing")
  /\ ~tk[t].aborted
  /\ Become(t, [tk[t] EXCEPT !.pc = "rejected"])

\* The catch of the retry loop; `totalAttempts` counted an attempt that was
\* never sent.
RejectRetry(r) ==
  EndRetry(r, IF r.status = "cancelled" THEN "cancelled" ELSE "failure",
           r.totalAttempts - 1)

\* A bounced attempt asks for its token again.
RequeueRateLimited(t) ==
  Become(t, IF InLoop(tk[t]) THEN RejectRetry(tk[t]) ELSE EndFirst(tk[t], "failure"))

\* Mutant: an attempt that was bounced asks the budget again.
RequeuedWithdrawing(t) ==
  Become(t, IF tk[t].aborted THEN LeaveQueue(t)
            ELSE [tk[t] EXCEPT !.pc = "queueing",
                               !.withdrawn = IF InLoop(tk[t]) THEN @ + 1 ELSE @])

Requeued(t) ==
  Become(t, IF tk[t].aborted THEN LeaveQueue(t) ELSE [tk[t] EXCEPT !.pc = "queueing"])

Requeue(t) ==
  /\ Resumes(t, "bounced")
  /\ RequeueRateLimited(t) \/ Requeued(t)

\* An attempt whose signal fired in time is "cancelled"; one that succeeded,
\* failed or timed out first ("error") keeps that outcome.
AttemptEnds(t) ==
  /\ Resumes(t, "running")
  /\ \E outcome \in IF tk[t].aborted THEN {"cancelled"} ELSE {"success", "error"} :
       Become(t, [tk[t] EXCEPT !.pc = "outcome", !.outcome = outcome])

-----------------------------------------------------------------------------
(* The first attempt: its end *)

\* Mutant: a ticket already settled is not cleaned up.
FirstRejectedKeeping(t) ==
  /\ Resumes(t, "rejected")
  /\ ~InLoop(tk[t])
  /\ LET r == [tk[t] EXCEPT !.permit = FALSE] IN
     Become(t, IF Settled(r) THEN [r EXCEPT !.pc = "ended"] ELSE EndFirst(r, "failure"))

\* The catch of send: a settled ticket gets no event here.
FirstRejected(t) ==
  /\ Resumes(t, "rejected")
  /\ ~InLoop(tk[t])
  /\ LET r == [tk[t] EXCEPT !.permit = FALSE] IN
     Become(t, IF Settled(r) THEN [CleanUp(r) EXCEPT !.pc = "ended"]
               ELSE EndFirst(r, "failure"))

FirstSucceeds(t) ==
  /\ tk[t].outcome = "success"
  /\ Become(t, EndFirst([tk[t] EXCEPT !.permit = FALSE], "success"))

FirstAborts(t) ==
  /\ tk[t].outcome = "cancelled"
  /\ Become(t, EndFirst(tk[t], AbortEnding(t)))

\* No retries are configured, or the policy vetoes one, as it does for a
\* ConfigurationError.
FirstFails(t) ==
  /\ tk[t].outcome \in {"error", "unsendable"}
  /\ Become(t, EndFirst([tk[t] EXCEPT !.permit = FALSE], "failure"))

FirstRetries(t) ==
  /\ tk[t].outcome = "error"
  /\ MaxRetries > 0
  /\ Become(t, [MarkWaiting(tk[t], "queued") EXCEPT !.permit = FALSE, !.pc = "deciding"])

FirstResumes(t) ==
  /\ Resumes(t, "outcome")
  /\ ~InLoop(tk[t])
  /\ FirstSucceeds(t) \/ FirstAborts(t) \/ FirstFails(t) \/ FirstRetries(t)

-----------------------------------------------------------------------------
(* The retry loop *)

\* All retries ran.  This exit does not look at cancellation.
Exhausted(t) ==
  /\ tk[t].retries = MaxRetries
  /\ Become(t, EndRetry([tk[t] EXCEPT !.totalAttempts = 1 + MaxRetries],
                        "failure", 1 + MaxRetries))

CancelledAtTop(t) ==
  /\ tk[t].retries < MaxRetries
  /\ tk[t].status = "cancelled"
  /\ Become(t, EndRetry(tk[t], "cancelled", tk[t].totalAttempts))

RetryCircuitOpen(t) ==
  /\ tk[t].retries < MaxRetries
  /\ tk[t].status # "cancelled"
  /\ Become(t, EndRetry(tk[t], "failure", tk[t].totalAttempts))

RetryAdmitted(t) ==
  /\ tk[t].retries < MaxRetries
  /\ tk[t].status # "cancelled"
  /\ Become(t, [tk[t] EXCEPT !.permit = TRUE, !.pc = "weighing"])

Decide(t) ==
  /\ At(t, "deciding")
  /\ Exhausted(t) \/ CancelledAtTop(t) \/ RetryCircuitOpen(t) \/ RetryAdmitted(t)

\* The policy's veto, the refusal a pause makes certain, or no budget left.
RetryDenied(t) == Become(t, EndRetry(tk[t], "failure", tk[t].totalAttempts))

\* The policy lets the last error pass; a ConfigurationError it never does.
Retriable(t) == tk[t].outcome # "unsendable"

\* The delay runs past the deadline.
RetryTooLate(t) ==
  /\ t \in Bounded /\ Retriable(t)
  /\ Become(t, EndRetry(tk[t], "deadline", tk[t].totalAttempts))

RetryGranted(t) ==
  /\ Retriable(t)
  /\ Become(t, [MarkWaiting(tk[t], "retrying") EXCEPT !.withdrawn = @ + 1,
                                                      !.retries = @ + 1,
                                                      !.pc = "sleeping"])

Weigh(t) ==
  /\ At(t, "weighing")
  /\ RetryDenied(t) \/ RetryTooLate(t) \/ RetryGranted(t)

SleepElapses(t) ==
  /\ Resumes(t, "sleeping")
  /\ ~tk[t].aborted
  /\ Become(t, [tk[t] EXCEPT !.pc = "slept"])

SleepAborts(t) ==
  /\ Resumes(t, "sleeping")
  /\ tk[t].aborted
  /\ Become(t, EndRetry(tk[t], AbortEnding(t), tk[t].totalAttempts))

\* After the backoff: an attempt is counted before it is sent, and a token
\* that is too far off takes the count back.
WakeCancelled(t) ==
  /\ tk[t].status = "cancelled"
  /\ Become(t, EndRetry(tk[t], "cancelled", tk[t].totalAttempts))

WakeRateLimited(t) ==
  /\ tk[t].status # "cancelled"
  /\ Become(t, RejectRetry([tk[t] EXCEPT !.totalAttempts = @ + 1]))

WakeQueues(t) ==
  /\ tk[t].status # "cancelled"
  /\ Become(t, [tk[t] EXCEPT !.totalAttempts = @ + 1, !.pc = "queueing"])

Wake(t) ==
  /\ Resumes(t, "slept")
  /\ WakeCancelled(t) \/ WakeRateLimited(t) \/ WakeQueues(t)

RetryRejected(t) ==
  /\ Resumes(t, "rejected")
  /\ InLoop(tk[t])
  /\ Become(t, RejectRetry(tk[t]))

RetrySucceeds(t) ==
  /\ tk[t].outcome = "success"
  /\ Become(t, EndRetry([tk[t] EXCEPT !.permit = FALSE], "success", tk[t].totalAttempts))

RetryAborts(t) ==
  /\ tk[t].outcome = "cancelled"
  /\ Become(t, EndRetry(tk[t], AbortEnding(t), tk[t].totalAttempts))

RetryFails(t) ==
  /\ tk[t].outcome \in {"error", "unsendable"}
  /\ Become(t, [tk[t] EXCEPT !.permit = FALSE, !.pc = "deciding"])

RetryResumes(t) ==
  /\ Resumes(t, "outcome")
  /\ InLoop(tk[t])
  /\ RetrySucceeds(t) \/ RetryAborts(t) \/ RetryFails(t)

\* After the event's listeners: markDone, cleanup, permit.release().
Conclude(t) ==
  /\ At(t, "concluding")
  /\ Become(t, [CleanUp(MarkDone(tk[t], tk[t].verdict)) EXCEPT !.permit = FALSE,
                                                              !.pc = "ended"])

-----------------------------------------------------------------------------
(* The application, the deadline and the client's shutdown *)

Cancel(t) ==
  /\ Idle \/ ListenersCallBack
  /\ ~At(t, "unsent")
  /\ ~Settled(tk[t])
  /\ Become(t, Cancelled(tk[t]))

\* The timer only aborts the signal.
DeadlineFires(t) ==
  /\ Idle
  /\ "timer" \in tk[t].kept
  /\ Become(t, [tk[t] EXCEPT !.aborted = TRUE, !.kept = @ \ {"timer"}])

InFlight == {t \in Tickets : "inflight" \in tk[t].kept}

CancelInFlight ==
  tk' = [t \in Tickets |-> IF t \in InFlight THEN Cancelled(CleanUp(tk[t])) ELSE tk[t]]

CloseNow ==
  /\ Idle \/ ListenersCallBack
  /\ closing = "open"
  /\ closing' = "closed"
  /\ CancelInFlight

CloseDrain ==
  /\ Idle \/ ListenersCallBack
  /\ closing = "open"
  /\ InFlight # {}
  /\ closing' = "draining"
  /\ UNCHANGED tk

\* Every ticket settled, or timeoutMs passed.
DrainEnds ==
  /\ Idle
  /\ closing = "draining"
  /\ closing' = "closed"
  /\ CancelInFlight

-----------------------------------------------------------------------------

Init ==
  /\ tk = [t \in Tickets |-> Unsent]
  /\ closing = "open"

\* Steps the event loop takes by itself once a ticket stands there.
Continues(t) ==
  \/ Admit(t) \/ QueueAborts(t) \/ Start(t) \/ Bounce(t) \/ Requeue(t)
  \/ AttemptEnds(t)
  \/ FirstRejected(t) \/ FirstResumes(t)
  \/ Decide(t) \/ Weigh(t) \/ SleepElapses(t) \/ SleepAborts(t) \/ Wake(t)
  \/ RetryRejected(t) \/ RetryResumes(t) \/ Conclude(t)

\* Steps that depend on the host, on other tickets, or on the caller.
Happens(t) ==
  Send(t) \/ Granted(t) \/ QueueRefuses(t) \/ Cancel(t)

Next ==
  \/ \E t \in Tickets : Continues(t) \/ Happens(t) \/ DeadlineFires(t)
  \/ CloseNow \/ CloseDrain \/ DrainEnds

Spec == Init /\ [][Next]_vars

\* Promise continuations run and timers fire.  An attempt ends because its
\* attemptMs bounds it or its signal ends it.  Nothing is assumed of the
\* queues: a ticket may be kept waiting for a slot for ever.
Fairness ==
  /\ \A t \in Tickets : WF_vars(Continues(t)) /\ WF_vars(DeadlineFires(t))
  /\ WF_vars(DrainEnds)

FairSpec == Spec /\ Fairness

-----------------------------------------------------------------------------
(* Properties *)

EventKinds(t) == {tk[t].events[i].kind : i \in DOMAIN tk[t].events}

Ended(t) == At(t, "ended")

(* The shape of a ticket's record. *)
TypeOK ==
  /\ closing \in {"open", "draining", "closed"}
  /\ \A t \in Tickets :
       /\ tk[t].pc \in MidTurn \cup {"unsent", "queueing", "granted", "bounced",
                                     "rejected", "running", "outcome", "sleeping", "slept", "ended"}
       /\ tk[t].status \in {"pending", "queued", "retrying", "done", "cancelled"}
       /\ tk[t].result \in Endings \cup {"none"}
       /\ tk[t].verdict \in Endings \cup {"none"}
       /\ tk[t].outcome \in {"none", "success", "error", "unsendable", "cancelled"}
       /\ tk[t].aborted \in BOOLEAN
       /\ tk[t].kept \subseteq {"inflight", "timer", "listener", "holds"}
       /\ tk[t].permit \in BOOLEAN
       /\ tk[t].retries \in 0..MaxRetries
       /\ tk[t].totalAttempts \in 1..(1 + MaxRetries)
       /\ {tk[t].started, tk[t].sent} \subseteq 0..(1 + MaxRetries)

(* cancel() can take effect too late for the event: the ticket's code has  *)
(* already taken the branch that emits another one, or will take it        *)
(* without looking.  The first attempt's code looks less than the loop's.  *)
(* An attempt that the deadline ended can still be cancelled.              *)
TooLate(t) ==
  \/ tk[t].cancelledAt \in {"deciding", "weighing", "concluding"}
  \/ tk[t].cancelledAt = "outcome" /\ tk[t].outcome # "cancelled"
  \/ /\ ~InLoop(tk[t])
     /\ tk[t].cancelledAt \in {"fired", "granted", "bounced", "rejected"}

(* But for those moments, every ticket that ended emitted exactly one      *)
(* terminal event, and it names the result its promise resolved with.      *)
(* Even in those moments none emits two.  The event is missing if, and     *)
(* only if, cancel() came between a queue's refusal of the first attempt   *)
(* and the catch that would report it; and a ticket cancelled between its  *)
(* attempt's success and the code that awaits it always emits a success.   *)
(* A deadline is a failure and never a cancellation, in the event and in   *)
(* the result, although cancel() and the deadline fire the same signal     *)
(* (B7).                                                                   *)
EndingAgrees ==
  \A t \in Tickets :
    /\ (Ended(t) /\ ~TooLate(t))
         => /\ Len(tk[t].events) = 1
            /\ tk[t].events[1].kind = tk[t].result
    /\ Len(tk[t].events) <= 1
    /\ Ended(t) =>
         (tk[t].events = <<>> <=> tk[t].cancelledAt = "rejected" /\ ~InLoop(tk[t]))
    /\ "cancelled" \in EventKinds(t) \cup {tk[t].result}
         => tk[t].cancelledAt # "never"
    /\ (Ended(t) /\ tk[t].cancelledAt = "outcome" /\ tk[t].outcome = "success")
         => tk[t].result = "cancelled" /\ EventKinds(t) = {"success"}

(* However a ticket ended, its inflight entry, deadline timer, abort       *)
(* listener and registry holds are taken back and its breaker permit is    *)
(* settled (B1); and a closed client, once the turn that closed it is      *)
(* over, has settled every ticket it was given and tracks none of them.    *)
NothingLeftBehind ==
  /\ \A t \in Tickets : Ended(t) => tk[t].kept = {} /\ ~tk[t].permit
  /\ (closing = "closed" /\ Idle) =>
       /\ InFlight = {}
       /\ \A t \in Tickets : At(t, "unsent") \/ Settled(tk[t])

(* The terminal event counts the attempts that reached executeRequest: one *)
(* that left a queue, was refused by it, or got no token is taken out of   *)
(* the count, unless it is the first, which counts in any case. At most    *)
(* one of these attempts, the last, was not sent, and only if the signal   *)
(* fired between its permit and its start, or if its body factory threw.   *)
(* So a success counts what was sent, and so does the failure of a retry   *)
(* that the queue or the token bucket refused. And the budget is asked     *)
(* once for each retry, however often a pause bounces it: every attempt    *)
(* after the first was granted, and at most one grant, the last, is for an *)
(* attempt that has not begun.                                             *)
AttemptsReported ==
  \A t \in Tickets :
    LET r == tk[t]
    IN /\ r.started \in {r.withdrawn, r.withdrawn + 1}
       /\ \A i \in DOMAIN r.events :
            /\ r.events[i].attempts = IF r.started = 0 THEN 1 ELSE r.started
            /\ r.sent # r.started =>
                 /\ r.started = r.sent + 1
                 /\ r.outcome \in {"cancelled", "unsendable"}
                 /\ r.events[i].kind # "success"

(* A ticket with a deadline, and a ticket that was cancelled, gets out of  *)
(* the queues and sleeps it stands in and runs to its end.                 *)
EveryTicketLetsGo ==
  /\ \A t \in Bounded : ~At(t, "unsent") ~> Ended(t)
  /\ \A t \in Tickets : tk[t].status = "cancelled" ~> Ended(t)

(* "Every request ends with exactly one terminal event (success, failure   *)
(* or cancelled), and that event agrees with the ticket's result"          *)
(* (docs/book/11-rules-and-bugs.md, rule 1).                               *)
EndsWithItsEvent ==
  \A t \in Tickets : Ended(t) =>
    Len(tk[t].events) = 1 /\ tk[t].events[1].kind = tk[t].result

=============================================================================
