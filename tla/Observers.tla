----------------------------- MODULE Observers -----------------------------
(***************************************************************************)
(* Who watches a request: the ticket and its promise, its listeners and    *)
(* its subscribe() streams (src/ticket/ticket.ts), the client's listeners, *)
(* among them those of instrumentTracing (src/otel/index.ts), whose spans  *)
(* are the request's and its attempts', and the metrics and the in-flight  *)
(* gauge (src/core/client.ts).                                             *)
(*                                                                         *)
(* Listeners run synchronously inside the code that emits, and may call    *)
(* back into it: todo is the synchronous work that is left, innermost      *)
(* first, as on a call stack.  What is asynchronous (the request's own     *)
(* code, the streams' consumers, a caller who cancels or closes the        *)
(* client) has its turn when nothing is left to do.  Which way a request   *)
(* goes is abstract here; RequestLifecycle has it in detail.               *)
(***************************************************************************)
EXTENDS Naturals, FiniteSets, Sequences, SequencesExt

CONSTANTS
  Streams,            \* calls of subscribe()
  Users,              \* listeners of the caller's
  Tracer,             \* the listeners of instrumentTracing
  MaxRetries,         \* bound on the retries of the request
  MaxListeners        \* bound on the listeners the caller has at a time

\* Whoever listens is a function object of its own.
ASSUME ObserversAssumption ==
  /\ MaxRetries \in Nat /\ MaxListeners \in Nat
  /\ Streams \cap Users = {} /\ Tracer \notin Streams \cup Users

VARIABLES
  ticket,             \* its state and what its promise resolved with
  todo,               \* the synchronous work under way
  listeners,          \* Emitter.listeners, of the ticket and of the client
  stream,             \* the generators of subscribe()
  client,             \* where the request's own code stands, and its metrics
  tracer,             \* the span of the request
  hist                \* history, for the properties

vars == <<ticket, todo, listeners, stream, client, tracer, hist>>

TicketEvents == {"update", "done", "error"}

\* "end" is any of success, failure and cancelled.
ClientEvents == {"request", "retry", "end"}

Events == TicketEvents \cup ClientEvents

\* The ticket's states, which its updates are named for.
Pending == <<"pending", 0>>

Queued == <<"queued", 0>>

Retrying(n) == <<"retrying", n>>

Done == <<"done", 0>>

Failed == <<"done", 1>>

Gone == <<"cancelled", 0>>

Terminal == {Done, Failed, Gone}

States == Terminal \cup {Pending, Queued} \cup {Retrying(n) : n \in 1..MaxRetries}

\* Only asynchronous code that is not in the middle of something has its turn.
Idle == todo = <<>>

-----------------------------------------------------------------------------
(* Synchronous work *)

Work(what, of, arg) == [what |-> what, of |-> of, arg |-> arg]

Emit(event, arg) == Work("emit", event, arg)

\* What the ticket's controller can do, and cancel().
Mark(state) == Work("mark", "ticket", state)

Cancelling == Mark(Gone)

Cleanup == Work("cleanup", "client", Pending)

Measure(event) == Work("measure", event, Pending)

AtHand(what) == ~Idle /\ Head(todo).what = what

\* What the work at hand leads to comes before the rest.
Then(more) == todo' = more \o Tail(todo)

\* ALLOWED_TRANSITIONS
Allowed(from, to) ==
  /\ from \notin Terminal
  /\ to = Queued => from = Pending
  /\ to[1] = "retrying" => from # Pending

\* What follows a transition; a result that is an error has an event of its own.
Announce(state) ==
  <<Emit("update", state)>>
    \o (IF state \in Terminal THEN <<Emit("done", state)>> ELSE <<>>)
    \o (IF state \in Terminal \ {Done} THEN <<Emit("error", state)>> ELSE <<>>)
    \o (IF state \in Terminal THEN <<Work("resolve", "ticket", state)>> ELSE <<>>)

\* markQueued, markRetrying, markDone and cancel: a transition that is not
\* allowed is ignored, with all that would follow from it.
RunMark ==
  /\ AtHand("mark")
  /\ LET state == Head(todo).arg
     IN IF Allowed(ticket.state, state)
        THEN ticket' = [ticket EXCEPT !.state = state] /\ Then(Announce(state))
        ELSE UNCHANGED ticket /\ Then(<<>>)
  /\ UNCHANGED <<listeners, stream, client, tracer, hist>>

RunResolve ==
  /\ AtHand("resolve")
  /\ ticket' = [ticket EXCEPT !.promise = IF @ = Pending THEN Head(todo).arg ELSE @]
  /\ Then(<<>>)
  /\ UNCHANGED <<listeners, stream, client, tracer, hist>>

\* Emitter.emit goes through a copy of the list.
RunEmit ==
  /\ AtHand("emit")
  /\ LET event == Head(todo).of
         update == Head(todo).arg
         calls == [i \in DOMAIN listeners[event] |->
                     [what |-> "call", of |-> event, arg |-> update, to |-> listeners[event][i]]]
     IN /\ Then(calls \o IF event \in ClientEvents THEN <<Measure(event)>> ELSE <<>>)
        /\ hist' = [hist EXCEPT
                      !.emitted = IF event = "update" THEN Append(@, update) ELSE @,
                      !.dones = IF event = "done" THEN @ + 1 ELSE @,
                      !.ends = IF event = "end" THEN @ + 1 ELSE @]
  /\ UNCHANGED <<ticket, listeners, stream, client, tracer>>

\* emitMetrics, after the listeners: the counters of requests and retries, the
\* histogram of durations, and with a request the gauge.
Measured(event) ==
  [client EXCEPT !.measured[event] = @ + 1,
                 !.gauge = IF event = "request" THEN client.inflight ELSE @]

RunMeasure ==
  /\ AtHand("measure")
  /\ client' = Measured(Head(todo).of)
  /\ Then(<<>>)
  /\ UNCHANGED <<ticket, listeners, stream, tracer, hist>>

\* Emitter.off: the registration added last.
Without(event, l) ==
  [listeners EXCEPT ![event] =
     LET i == SelectLastInSeq(@, LAMBDA x : x = l) IN IF i = 0 THEN @ ELSE RemoveAt(@, i)]

\* Mutant: the entry leaves without a report.
CleanedQuietly == [client EXCEPT !.inflight = 0]

\* cleanup: the gauge is reported as the entry leaves the set (B15).
Cleaned ==
  IF client.inflight = 1 THEN [client EXCEPT !.inflight = 0, !.gauge = 0] ELSE client

RunCleanup ==
  /\ AtHand("cleanup")
  /\ client' = Cleaned
  /\ Then(<<>>)
  /\ UNCHANGED <<ticket, listeners, stream, tracer, hist>>

-----------------------------------------------------------------------------
(* Listeners *)

Called(listener) == AtHand("call") /\ Head(todo).to \in listener

\* Mutant: the waiting consumer is forgotten before it is woken.
OnUpdateForgetting(s, update) ==
  [s EXCEPT !.updates = Append(@, update), !.notify = FALSE, !.isDone = @ \/ update \in Terminal]

\* subscribe: onUpdate
OnUpdate(s, update) ==
  [s EXCEPT !.updates = Append(@, update),
            !.woken = @ \/ s.notify,
            !.notify = FALSE,
            !.isDone = @ \/ update \in Terminal]

CallStream ==
  /\ Called(Streams)
  /\ stream' = [stream EXCEPT ![Head(todo).to] = OnUpdate(@, Head(todo).arg)]
  /\ Then(<<>>)
  /\ UNCHANGED <<ticket, listeners, client, tracer, hist>>

\* end: the span leaves the map before it ends.
Ended(t) == IF t.span = "open" THEN [t EXCEPT !.span = "none", !.ended = @ + 1] ELSE t

CallTracer ==
  /\ Called({Tracer})
  /\ tracer' = CASE Head(todo).of = "request" -> [tracer EXCEPT !.span = "open", !.started = @ + 1]
                 [] Head(todo).of = "retry" -> tracer
                 [] Head(todo).of = "end" -> Ended(tracer)
  /\ Then(<<>>)
  /\ UNCHANGED <<ticket, listeners, stream, client, hist>>

\* The function instrumentTracing returns; the spans of attempts end by themselves.
StopTracing ==
  /\ tracer' = [Ended(tracer) EXCEPT !.active = FALSE]
  /\ listeners' = [e \in Events |->
                     IF e \in ClientEvents THEN Without(e, Tracer)[e] ELSE listeners[e]]

\* The tracer is still to be called for a request that is being announced.
TracerIsNext ==
  \E i \in DOMAIN todo :
    todo[i].what = "call" /\ todo[i].to = Tracer /\ todo[i].of = "request"

\* A throw is reported on a microtask of its own: the rest goes on (B2).
\* Mutant: it unwinds the code that emits.
ThrowUnwinds == todo' = <<>>

Throw == Then(<<>>)

\* What a listener of the caller's may do: return, throw, cancel the ticket or
\* close the client, take itself off, or stop the tracing.
CallUser ==
  /\ Called(Users)
  /\ \/ Then(<<>>) /\ UNCHANGED <<listeners, tracer, hist>>
     \/ Throw /\ UNCHANGED <<listeners, tracer, hist>>
     \/ /\ ticket.state \notin Terminal
        /\ Then(<<Cancelling>>) \/ Then(<<Cleanup, Cancelling>>)
        /\ hist' = [hist EXCEPT !.reentered = @ \/ Head(todo).of = "update"]
        /\ UNCHANGED <<listeners, tracer>>
     \/ /\ listeners' = Without(Head(todo).of, Head(todo).to)
        /\ Then(<<>>)
        /\ UNCHANGED <<tracer, hist>>
     \/ /\ tracer.active /\ StopTracing
        /\ hist' = [hist EXCEPT !.stoppedAhead = TracerIsNext]
        /\ Then(<<>>)
  /\ UNCHANGED <<ticket, stream, client>>

-----------------------------------------------------------------------------
(* The request's own code *)

Turn(pc, work) ==
  /\ Idle
  /\ client' = [client EXCEPT !.pc = pc, !.attempt = IF pc = client.pc THEN @ ELSE "none"]
  /\ todo' = work
  /\ UNCHANGED <<ticket, listeners, stream, tracer, hist>>

\* get(): cancelled before it began, refused at once, or on its way.
Request ==
  /\ Idle /\ client.pc = "new"
  /\ \E way \in {<<"over", <<Cancelling, Emit("end", Gone), Cleanup>>>>,
                 <<"over", <<Emit("end", Failed), Mark(Failed), Cleanup>>>>,
                 <<"first", <<Emit("request", Pending)>>>>} :
       /\ client' = [client EXCEPT !.pc = way[1], !.inflight = 1,
                                   !.attempt = IF way[1] = "first" THEN "due" ELSE "none"]
       /\ todo' = way[2]
  /\ UNCHANGED <<ticket, listeners, stream, tracer, hist>>

\* A cancelled ticket ends as such, unless its ending had been decided on.
Endings == IF ticket.state = Gone THEN Terminal ELSE {Done, Failed}

\* The first attempt ends the request, or leaves it to the retry loop; the
\* catch of a first attempt that was refused is silent about a settled ticket.
FirstAttempt ==
  /\ client.pc = "first"
  /\ \/ \E ending \in Endings : Turn("over", <<Emit("end", ending), Mark(ending), Cleanup>>)
     \/ ticket.state = Gone /\ Turn("over", <<Cleanup>>)
     \/ Turn("loop", <<Mark(Queued)>>)

\* runRetryLoop: another attempt, or the end.
RetryLoop ==
  /\ client.pc = "loop"
  /\ \/ /\ Idle /\ client.retries < MaxRetries /\ ticket.state # Gone
        /\ client.attempt # "due"
        /\ client' = [client EXCEPT !.retries = @ + 1, !.attempt = "due"]
        /\ LET retrying == Retrying(client.retries + 1)
           IN todo' = <<Emit("retry", retrying), Mark(retrying)>>
        /\ UNCHANGED <<ticket, listeners, stream, tracer, hist>>
     \/ \E ending \in Endings : Turn("over", <<Cleanup, Emit("end", ending), Mark(ending)>>)

\* The attempt has its slot and calls the middlewares, of which attemptSpans is
\* one: a span around the inner fetch, whose parent is the request's.  An attempt
\* whose ticket is aborted by then is not made.
AttemptBegins ==
  /\ Idle /\ client.attempt = "due" /\ ticket.state # Gone
  /\ client' = [client EXCEPT !.attempt = "begun"]
  /\ hist' = [hist EXCEPT !.orphaned = @ \/ (tracer.active /\ tracer.span = "none")]
  /\ UNCHANGED <<ticket, todo, listeners, stream, tracer>>

-----------------------------------------------------------------------------
(* Callers *)

\* cancel(), or close() without a drain; without effect when it comes too late.
Cancel ==
  /\ client.pc # "new"
  /\ \/ ticket.state \notin Terminal /\ Turn(client.pc, <<Cancelling>>)
     \/ client.inflight = 1 /\ Turn(client.pc, <<Cleanup, Cancelling>>)

\* What the caller has registered, bounded: each listener once for an event.
Registered == {r \in Users \X Events : Contains(listeners[r[2]], r[1])}

\* Emitter.on
On(u, event) ==
  /\ Idle
  /\ <<u, event>> \notin Registered /\ Cardinality(Registered) < MaxListeners
  /\ listeners' = [listeners EXCEPT ![event] = Append(@, u)]
  /\ UNCHANGED <<ticket, todo, stream, client, tracer, hist>>

\* The ticket's on() needs a ticket, the client's does not.
ListenToTicket(u) == client.pc # "new" /\ \E event \in TicketEvents : On(u, event)

ListenToClient(u) == \E event \in ClientEvents : On(u, event)

Stop ==
  /\ Idle /\ tracer.active /\ StopTracing
  /\ UNCHANGED <<ticket, todo, stream, client, hist>>

-----------------------------------------------------------------------------
(* subscribe() *)

\* Mutant: the end is the end, whatever is still in the list.
ContinueUntilDone(s) ==
  IF s.isDone THEN [s EXCEPT !.pc = "finished"]
  ELSE IF s.updates # <<>>
  THEN [s EXCEPT !.pc = "yielded", !.got = Append(@, Head(s.updates)), !.updates = Tail(@)]
  ELSE [s EXCEPT !.pc = "waiting", !.notify = TRUE, !.woken = FALSE]

\* The generator's loop, up to where it yields, waits or returns.
Continue(s) ==
  IF s.isDone /\ s.updates = <<>> THEN [s EXCEPT !.pc = "finished"]
  ELSE IF s.updates # <<>>
  THEN [s EXCEPT !.pc = "yielded", !.got = Append(@, Head(s.updates)), !.updates = Tail(@)]
  ELSE [s EXCEPT !.pc = "waiting", !.notify = TRUE, !.woken = FALSE]

\* Mutant: a stream that is over stays registered.
OnwardKept(s, next) ==
  /\ stream' = [stream EXCEPT ![s] = next]
  /\ UNCHANGED <<ticket, todo, listeners, client, tracer, hist>>

\* A generator that returns, or whose consumer breaks out, takes its listener off.
Onward(s, next) ==
  /\ stream' = [stream EXCEPT ![s] = next]
  /\ listeners' = IF next.pc = "finished" THEN Without("update", s) ELSE listeners
  /\ UNCHANGED <<ticket, todo, client, tracer, hist>>

\* The consumer asks for the first update: one who comes late gets the last.
Subscribe(s) ==
  /\ Idle /\ client.pc # "new" /\ stream[s].pc = "new"
  /\ IF ticket.state \in Terminal
     THEN stream' = [stream EXCEPT ![s].pc = "late", ![s].got = <<ticket.state>>] /\ UNCHANGED listeners
     ELSE /\ stream' = [stream EXCEPT ![s] = Continue([@ EXCEPT !.from = Len(hist.emitted)])]
          /\ listeners' = [listeners EXCEPT !["update"] = Append(@, s)]
  /\ UNCHANGED <<ticket, todo, client, tracer, hist>>

\* The consumer asks for more, or a promise it waits for has resolved.
Ask(s) == Idle /\ stream[s].pc = "yielded" /\ Onward(s, Continue(stream[s]))

Wake(s) ==
  Idle /\ stream[s].pc = "waiting" /\ stream[s].woken /\ Onward(s, Continue(stream[s]))

\* The consumer breaks out of its loop.
Leave(s) ==
  /\ Idle /\ stream[s].pc = "yielded"
  /\ Onward(s, [stream[s] EXCEPT !.pc = "finished", !.left = TRUE])

-----------------------------------------------------------------------------
Init ==
  /\ ticket = [state |-> Pending, promise |-> Pending]
  /\ todo = <<>>
  /\ \E before \in [ClientEvents -> {<<>>} \cup {<<u>> : u \in Users}] :
       listeners = [e \in Events |-> IF e \in ClientEvents THEN Append(before[e], Tracer) ELSE <<>>]
  /\ Cardinality(Registered) <= MaxListeners
  /\ stream = [s \in Streams |->
                 [pc |-> "new", updates |-> <<>>, notify |-> FALSE, woken |-> FALSE,
                  isDone |-> FALSE, got |-> <<>>, from |-> 0, left |-> FALSE]]
  /\ client = [pc |-> "new", retries |-> 0, attempt |-> "none", inflight |-> 0, gauge |-> 0,
               measured |-> [e \in ClientEvents |-> 0]]
  /\ tracer = [active |-> TRUE, span |-> "none", started |-> 0, ended |-> 0]
  /\ hist = [emitted |-> <<>>, dones |-> 0, ends |-> 0, reentered |-> FALSE,
             stoppedAhead |-> FALSE, orphaned |-> FALSE]

Run ==
  RunMark \/ RunResolve \/ RunEmit \/ RunMeasure \/ RunCleanup
    \/ CallStream \/ CallTracer \/ CallUser

Next ==
  \/ Run
  \/ Request \/ FirstAttempt \/ RetryLoop
  \/ AttemptBegins \/ Cancel \/ Stop \/ \E u \in Users : ListenToTicket(u) \/ ListenToClient(u)
  \/ \E s \in Streams : Subscribe(s) \/ Ask(s) \/ Wake(s) \/ Leave(s)

\* Synchronous code runs on and a resolved promise is resumed from; the host,
\* the callers and the consumers owe nothing.
Spec == Init /\ [][Next]_vars /\ WF_vars(Run) /\ \A s \in Streams : WF_vars(Wake(s))

-----------------------------------------------------------------------------
(* Properties *)

\* Every variable holds what the code can put there; a stream is registered
\* exactly while its generator is in its loop, a wait is for an empty list, and
\* the flag of a stream that is done is one its own updates have set.
TypeOK ==
  /\ ticket.state \in States /\ ticket.promise \in Terminal \cup {Pending}
  /\ client.pc \in {"new", "first", "loop", "over"} /\ client.inflight \in {0, 1}
  /\ client.attempt = "due" => client.pc \in {"first", "loop"}
  /\ \A s \in Streams :
       /\ stream[s].pc \in {"new", "late", "waiting", "yielded", "finished"}
       /\ Idle => (stream[s].pc \in {"waiting", "yielded"} <=> Contains(listeners["update"], s))
       /\ stream[s].isDone <=> \E u \in ToSet(stream[s].got \o stream[s].updates) :
                                   u \in Terminal /\ stream[s].pc # "late"

\* Whatever its listeners do (throw, cancel, close, leave), a ticket whose state
\* is terminal has resolved its promise with that very ending and told its
\* "done" listeners of it once; and none of this happened to any other (B2).
SettledOnce ==
  Idle =>
    /\ ticket.promise = IF ticket.state \in Terminal THEN ticket.state ELSE Pending
    /\ hist.dones = IF ticket.state \in Terminal THEN 1 ELSE 0

\* A stream has for its consumer each update since it began, once and in the
\* order of the ticket's states, however slow the consumer is; one that ended by
\* itself has delivered the ending.  A listener that cancels while an update
\* is being delivered changes the order (the ending overtakes the update), and
\* nothing else.
StreamsComplete ==
  Idle => \A s \in Streams :
    LET due == SubSeq(hist.emitted, stream[s].from + 1, Len(hist.emitted))
        seen == stream[s].got \o stream[s].updates
    IN stream[s].pc \in {"waiting", "yielded", "finished"} /\ ~stream[s].left =>
         /\ Len(seen) = Len(due) /\ ToSet(seen) = ToSet(due)
         /\ ~hist.reentered => seen = due
         /\ stream[s].pc = "finished" => stream[s].updates = <<>> /\ ToSet(seen) \cap Terminal # {}

\* What is exported of a request agrees with the request once nothing is under
\* way, in whichever order an exit cleans up and emits, and although a listener
\* closes the client or throws.  Its span ends once, with its ending or with
\* stop(), and none is left open behind them, but for the one that StopEndsSpans
\* is about: a listener of "request" called stop() before the copy of the list
\* reached the tracer.  The span of an attempt has the request's for its parent.
\* The retries and the ending are measured as often as they happened, and the
\* gauge is the number of requests in flight (B15).
TelemetryAgrees ==
  Idle =>
    /\ tracer.started <= 1 /\ tracer.ended <= tracer.started
    /\ tracer.span = "open" =>
         tracer.ended = 0 /\ (hist.stoppedAhead \/ (tracer.active /\ hist.ends = 0))
    /\ ~hist.orphaned
    /\ client.measured["retry"] = client.retries /\ client.measured["end"] = hist.ends
    /\ client.gauge = client.inflight

\* "`stop()` ends any open ticket spans and stops recording"
\* (docs/guide/observability.md): once it was called there is no open span, in
\* whatever turn it was called.
StopEndsSpans == (Idle /\ ~tracer.active) => tracer.span = "none"

\* No wake-up is lost: a consumer who waits is woken by the end of the request.
WaitEnds ==
  \A s \in Streams :
    (stream[s].pc = "waiting" /\ ticket.state \in Terminal) ~> stream[s].pc # "waiting"

=============================================================================
