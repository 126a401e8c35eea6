------------------------ MODULE RequestLifecycleProofs ------------------------
(***************************************************************************)
(* Proofs about RequestLifecycle, for any tickets, deadlines and number of *)
(* retries, with listeners that call back or without.  But for close(),    *)
(* no turn touches two tickets: the inductive invariant says of each       *)
(* ticket's record what may be in it at each place of the code (Sane), and *)
(* what a closed client has done to it (Shed).  Each turn is proved to     *)
(* leave its ticket with such a record (Keeps), and the many exits share   *)
(* one lemma on what must hold for an event to be the right one (Exits).   *)
(***************************************************************************)
EXTENDS RequestLifecycle, SequenceTheorems, TLAPS

Places == MidTurn \cup {"unsent", "queueing", "granted", "bounced", "rejected", "running",
                        "outcome", "sleeping", "slept", "ended"}

Records == [
  pc : Places,
  status : {"pending", "queued", "retrying", "done", "cancelled"},
  result : Endings \cup {"none"},
  aborted : BOOLEAN,
  kept : SUBSET {"inflight", "timer", "listener", "holds"},
  permit : BOOLEAN,
  retries : 0..MaxRetries,
  totalAttempts : 1..(1 + MaxRetries),
  outcome : {"none", "success", "error", "unsendable", "cancelled"},
  verdict : Endings \cup {"none"},
  events : Seq([kind : Endings, attempts : Nat]),
  started : 0..(1 + MaxRetries),
  sent : 0..(1 + MaxRetries),
  withdrawn : Nat,
  cancelledAt : Places \cup {"never"}]

\* Where an attempt is due that has not begun, and where the last one has.
BeforeSending == {"unsent", "fired", "queueing", "granted", "bounced", "rejected"}

AfterSending == {"running", "deciding", "weighing"}

(* How many attempts the ticket counted, began and was granted.            *)
Counts(r) ==
  /\ r.withdrawn = r.retries
  /\ r.started \in {r.retries, r.retries + 1}
  /\ r.pc \in {"unsent", "fired"} => r.retries = 0
  /\ r.pc = "weighing" => r.retries < MaxRetries
  /\ r.pc \in BeforeSending => r.started = r.retries /\ r.totalAttempts = r.retries + 1
  /\ r.pc \in AfterSending => r.started = r.retries + 1 /\ r.totalAttempts = r.started
  /\ r.pc = "outcome" =>
       \/ r.started = r.retries + 1 /\ r.totalAttempts = r.started
       \/ /\ r.outcome = "cancelled" /\ r.started = r.retries
          /\ r.totalAttempts = IF r.retries = 0 THEN 1 ELSE r.retries
  /\ r.pc \in {"sleeping", "slept"} =>
       r.retries > 0 /\ r.started = r.retries /\ r.totalAttempts = r.retries

(* Who fired the signal, and what is written down of it.                   *)
Signals(t, r) ==
  /\ "timer" \in r.kept => t \in Bounded
  /\ r.status = "cancelled" <=> r.cancelledAt # "never"
  /\ r.status = "cancelled" => r.aborted /\ r.result = "cancelled"
  /\ r.status = "done" => r.pc = "ended"
  /\ r.pc = "ended" => Settled(r)
  /\ r.result = "none" <=> ~Settled(r)
  /\ r.aborted /\ t \notin Bounded => r.status = "cancelled"
  /\ r.outcome = "cancelled" => r.aborted
  /\ r.pc = "unsent" => r.status = "pending"
  /\ r.result = "cancelled" => r.status = "cancelled"

(* The event a ticket emitted, from its emission on.                       *)
Events(r) ==
  /\ Len(r.events) <= 1
  /\ r.pc \notin {"concluding", "ended"} => r.events = <<>>
  /\ r.pc = "concluding" => Len(r.events) = 1 /\ r.events[1].kind = r.verdict
  /\ Len(r.events) = 1 =>
       /\ r.events[1].attempts = IF r.started = 0 THEN 1 ELSE r.started
       /\ r.events[1].kind = "cancelled" => r.status = "cancelled"
       /\ r.pc = "ended" => (r.status = "done" => r.events[1].kind = r.result)

Late(r) ==
  \/ r.cancelledAt \in {"deciding", "weighing", "concluding"}
  \/ r.cancelledAt = "outcome" /\ r.outcome # "cancelled"
  \/ /\ ~InLoop(r)
     /\ r.cancelledAt \in {"fired", "granted", "bounced", "rejected"}

(* Where the code of a ticket cancelled in time can stand.                 *)
InTime(r) ==
  /\ r.pc = "weighing" /\ r.status = "cancelled" => r.cancelledAt = "weighing"
  /\ r.pc = "rejected" /\ r.status = "cancelled" => r.cancelledAt = "rejected"
  /\ (r.pc = "ended" /\ r.events = <<>>) => r.cancelledAt = "rejected" /\ ~InLoop(r)
  /\ (r.cancelledAt = "rejected" /\ ~InLoop(r))
       => r.pc \in {"rejected", "ended"} /\ r.events = <<>>
  /\ (r.status = "cancelled" /\ ~Late(r)) =>
       /\ r.pc \notin {"unsent", "fired", "deciding", "weighing"}
       /\ r.pc \in {"granted", "bounced", "rejected"} => InLoop(r)
       /\ r.pc = "outcome" => r.outcome = "cancelled"
       /\ r.pc \in {"concluding", "ended"} => Len(r.events) = 1 /\ r.events[1].kind = "cancelled"

(* The attempt that was counted and not sent, and the success that         *)
(* overtook a cancellation.                                                *)
Reports(r) ==
  /\ r.sent # r.started =>
       /\ r.started = r.sent + 1
       /\ r.outcome \in {"cancelled", "unsendable"}
       /\ r.pc \in {"outcome", "deciding", "weighing", "concluding", "ended"}
       /\ r.pc \in {"deciding", "weighing"} => r.outcome = "unsendable"
       /\ Len(r.events) = 1 => r.events[1].kind # "success"
  /\ (r.cancelledAt = "outcome" /\ r.outcome = "success") =>
       /\ r.pc \in {"outcome", "concluding", "ended"}
       /\ r.pc # "outcome" => Len(r.events) = 1 /\ r.events[1].kind = "success"

(* What is still to be taken back.                                         *)
Kept(r) ==
  /\ r.pc = "ended" => r.kept = {} /\ ~r.permit
  /\ r.pc = "unsent" => r.kept = {}
  /\ (r.pc \notin {"unsent", "concluding", "ended"} /\ ~Settled(r)) => "inflight" \in r.kept

Sane(t, r) ==
  /\ r \in Records
  /\ Counts(r) /\ Signals(t, r) /\ Events(r) /\ InTime(r) /\ Reports(r) /\ Kept(r)

(* What a closed client has done with every ticket.                        *)
Shed(r) ==
  closing = "closed" =>
    /\ "inflight" \notin r.kept
    /\ r.pc \in {"unsent", "concluding"} \/ Settled(r)

Good(t, r) == Sane(t, r) /\ Shed(r)

IInv ==
  /\ tk \in [Tickets -> Records]
  /\ closing \in {"open", "draining", "closed"}
  /\ \A t \in Tickets : Good(t, tk[t])

-----------------------------------------------------------------------------
(* What a turn leaves alone *)

SameCounts(r, s) ==
  /\ r.retries = s.retries
  /\ r.totalAttempts = s.totalAttempts
  /\ r.started = s.started
  /\ r.sent = s.sent
  /\ r.withdrawn = s.withdrawn

SameSignal(r, s) ==
  /\ r.status = s.status
  /\ r.result = s.result
  /\ r.aborted = s.aborted
  /\ r.cancelledAt = s.cancelledAt

SameEvents(r, s) == r.events = s.events /\ r.verdict = s.verdict

SameHolds(r, s) == r.kept = s.kept /\ r.permit = s.permit

(* The ticket's turn leaves it with a good record, and no other ticket.    *)
Keeps(t) == \E r : Become(t, r) /\ Good(t, r)

-----------------------------------------------------------------------------
(* Exits *)

\* The ticket can leave with this event, its pc and its holds apart.
Exits(t, s, ending, attempts) ==
  /\ s \in Records
  /\ ending \in Endings
  /\ s.pc \notin {"concluding", "ended"}
  /\ Signals(t, s)
  /\ s.events = <<>>
  /\ s.withdrawn = s.retries
  /\ s.started \in {s.retries, s.retries + 1}
  /\ Reports(s)
  /\ s.sent # s.started => ending # "success"
  /\ attempts = IF s.started = 0 THEN 1 ELSE s.started
  /\ ending = "cancelled" => s.status = "cancelled"
  /\ (s.status = "cancelled" /\ ~Late(s)) => ending = "cancelled"
  /\ s.cancelledAt = "rejected" => InLoop(s)
  /\ (s.cancelledAt = "outcome" /\ s.outcome = "success") => ending = "success"
  /\ closing = "closed" => "inflight" \notin s.kept

(* The event leaves the ticket to be concluded.                            *)
LEMMA EmitGood ==
  ASSUME NEW t \in Tickets, NEW s, NEW ending, NEW attempts, Exits(t, s, ending, attempts)
  PROVE  Good(t, Emit(s, ending, attempts))
<1> DEFINE e == [kind |-> ending, attempts |-> attempts]
           r == Emit(s, ending, attempts)
<1>1. /\ s \in Records /\ ending \in Endings /\ s.events = <<>>
      /\ s.started \in Nat /\ attempts \in Nat
  BY DEF Exits, Records
<1>2. e \in [kind : Endings, attempts : Nat] /\ e.kind = ending /\ e.attempts = attempts
  BY <1>1
<1> HIDE DEF e
<1>3. Append(s.events, e) = <<e>> /\ <<e>> \in Seq([kind : Endings, attempts : Nat])
  BY <1>1, <1>2
<1>4. r = [s EXCEPT !.events = <<e>>, !.verdict = ending, !.pc = "concluding"]
  BY <1>3 DEF Emit, e
<1>5. /\ r \in Records
      /\ r.pc = "concluding" /\ r.outcome = s.outcome
      /\ SameCounts(r, s) /\ SameSignal(r, s)
      /\ r.events = <<e>> /\ r.verdict = ending
      /\ r.kept = s.kept /\ r.permit = s.permit
  <2>1. "concluding" \in Places
    BY DEF Places, MidTurn
  <2>2. r \in Records
    <3>1. s \in Records /\ ending \in Endings /\ <<e>> \in Seq([kind : Endings, attempts : Nat])
      BY <1>1, <1>3
    <3> HIDE DEF r
    <3> QED
      BY <1>4, <2>1, <3>1 DEF Records
  <2> QED
    BY <1>1, <1>4, <2>2 DEF Records, SameCounts, SameSignal
<1>6. Len(r.events) = 1 /\ r.events[1] = e
  BY <1>5
<1> HIDE DEF r
<1>7. Counts(r) /\ Signals(t, r) /\ Kept(r) /\ Shed(r)
  BY <1>1, <1>5 DEF Exits, Counts, Signals, Kept, Shed, Settled, BeforeSending, AfterSending,
                    SameCounts, SameSignal
<1>8. Events(r) /\ InTime(r) /\ Reports(r)
  BY <1>1, <1>2, <1>5, <1>6 DEF Exits, Events, InTime, Reports, Late, InLoop, Settled,
  SameCounts, SameSignal
<1> QED
  BY <1>5, <1>7, <1>8 DEF Good, Sane, r

(* So does the event of the retry loop, emitted after the cleanup.         *)
LEMMA EndRetryGood ==
  ASSUME NEW t \in Tickets, NEW s, NEW ending, NEW attempts, Exits(t, s, ending, attempts)
  PROVE  Good(t, EndRetry(s, ending, attempts))
<1> DEFINE r == CleanUp(s)
<1>1. /\ r \in Records
      /\ r.pc = s.pc /\ r.outcome = s.outcome
      /\ SameCounts(r, s) /\ SameSignal(r, s) /\ SameEvents(r, s)
      /\ r.kept = {}
  BY DEF Exits, CleanUp, Records, SameCounts, SameSignal, SameEvents
<1> HIDE DEF r
<1>2. Exits(t, r, ending, attempts)
  BY <1>1 DEF Exits, Signals, Reports, Late, InLoop, Settled, SameCounts, SameSignal, SameEvents
<1> QED
  BY <1>2, EmitGood DEF EndRetry, r

(* A breaker permit given back changes nothing of it.                      *)
LEMMA PermitExits ==
  ASSUME NEW t, NEW s, NEW ending, NEW attempts, NEW b \in BOOLEAN,
         Exits(t, s, ending, attempts)
  PROVE  Exits(t, [s EXCEPT !.permit = b], ending, attempts)
<1> DEFINE r == [s EXCEPT !.permit = b]
<1>1. /\ r \in Records
      /\ r.pc = s.pc /\ r.outcome = s.outcome /\ r.kept = s.kept
      /\ SameCounts(r, s) /\ SameSignal(r, s) /\ SameEvents(r, s)
  BY DEF Exits, Records, SameCounts, SameSignal, SameEvents
<1> HIDE DEF r
<1>2. Exits(t, r, ending, attempts)
  BY <1>1 DEF Exits, Signals, Reports, Late, InLoop, Settled, SameCounts, SameSignal, SameEvents
<1> QED
  BY <1>2 DEF r

(* The catch of the retry loop takes back the attempt it counted.          *)
LEMMA RejectRetryGood ==
  ASSUME NEW t \in Tickets, NEW s \in Records, InLoop(s), s.totalAttempts - 1 = s.started,
         s.started = s.retries, s.withdrawn = s.retries, Signals(t, s), Reports(s),
         s.events = <<>>, s.pc \in {"bounced", "rejected", "slept"},
         closing = "closed" => "inflight" \notin s.kept
  PROVE  Good(t, RejectRetry(s))
<1> DEFINE ending == IF s.status = "cancelled" THEN "cancelled" ELSE "failure"
<1>1. Exits(t, s, ending, s.totalAttempts - 1)
  BY DEF Exits, Endings, Reports, InLoop, Records
<1> QED
  BY <1>1, EndRetryGood DEF RejectRetry

-----------------------------------------------------------------------------
(* request() and the first attempt: one lemma for each turn *)

(* An unsent ticket's record.                                              *)
LEMMA UnsentFields ==
  /\ Unsent \in Records
  /\ Unsent.pc = "unsent" /\ Unsent.outcome = "none" /\ Unsent.kept = {}
  /\ Unsent.retries = 0 /\ Unsent.totalAttempts = 1 /\ Unsent.started = 0
  /\ Unsent.sent = 0 /\ Unsent.withdrawn = 0
  /\ Unsent.status = "pending" /\ Unsent.result = "none"
  /\ Unsent.aborted = FALSE /\ Unsent.cancelledAt = "never" /\ Unsent.events = <<>>
  /\ Unsent.verdict = "none" /\ Unsent.permit = FALSE
<1>1. <<>> \in Seq([kind : Endings, attempts : Nat])
  OBVIOUS
<1> QED
  BY <1>1, ConfigAssumption DEF Unsent, Records, Places

(* A tracked ticket has its entry in flight, and a timer for its deadline. *)
LEMMA TrackedFields ==
  ASSUME NEW t \in Tickets
  PROVE  LET s == Tracked(t)
         IN /\ s \in Records
            /\ s.pc = "unsent" /\ s.outcome = "none" /\ s.permit = FALSE
            /\ SameCounts(s, Unsent) /\ SameSignal(s, Unsent) /\ SameEvents(s, Unsent)
            /\ "inflight" \in s.kept
            /\ "timer" \in s.kept => t \in Bounded
<1> DEFINE K == {"inflight", "listener"} \cup IF t \in Bounded THEN {"timer"} ELSE {}
<1>1. K \subseteq {"inflight", "timer", "listener", "holds"} /\ "inflight" \in K
  OBVIOUS
<1>2. "timer" \in K => t \in Bounded
  OBVIOUS
<1>3. Tracked(t) = [Unsent EXCEPT !.kept = K]
  BY DEF Tracked
<1> HIDE DEF K
<1> QED
  BY <1>1, <1>2, <1>3, UnsentFields DEF Records, SameCounts, SameSignal, SameEvents

(* request() leaves with an event, or fires "request" (trackRequest).      *)
LEMMA SendKeeps ==
  ASSUME NEW t \in Tickets, Good(t, tk[t]), Send(t)
  PROVE  Keeps(t)
<1> DEFINE s == Tracked(t)
           r == [s EXCEPT !.pc = "fired"]
<1>1. closing = "open"
  BY DEF Send
<1>2. /\ s \in Records
      /\ s.pc = "unsent" /\ s.outcome = "none"
      /\ s.retries = 0 /\ s.totalAttempts = 1
      /\ s.started = 0 /\ s.sent = 0 /\ s.withdrawn = 0
      /\ s.status = "pending" /\ s.result = "none" /\ s.aborted = FALSE
      /\ s.cancelledAt = "never" /\ s.events = <<>>
      /\ "inflight" \in s.kept
      /\ "timer" \in s.kept => t \in Bounded
  BY TrackedFields, UnsentFields DEF SameCounts, SameSignal, SameEvents
<1> HIDE DEF s
<1>3. Exits(t, s, "failure", 1)
  BY <1>1, <1>2 DEF Exits, Endings, Signals, Reports, Settled
<1>4. /\ r \in Records
      /\ r.pc = "fired" /\ r.outcome = "none" /\ r.kept = s.kept
      /\ SameCounts(r, s) /\ SameSignal(r, s) /\ SameEvents(r, s)
  BY <1>2 DEF Records, Places, MidTurn, SameCounts, SameSignal, SameEvents
<1> HIDE DEF r
<1>5. Good(t, r)
  <2>1. Counts(r) /\ Events(r)
    BY <1>2, <1>4 DEF Counts, Events, BeforeSending, AfterSending, SameCounts, SameEvents
  <2>2. Signals(t, r) /\ InTime(r) /\ Reports(r) /\ Kept(r) /\ Shed(r)
    BY <1>1, <1>2, <1>4 DEF Signals, InTime, Reports, Kept, Shed, Settled, SameCounts,
    SameSignal
  <2> QED
    BY <1>4, <2>1, <2>2 DEF Good, Sane
<1>6. Exits(t, Cancelled(r), "cancelled", 1)
  <2> DEFINE c == Cancelled(r)
  <2>1. /\ c \in Records
        /\ c.pc = "fired" /\ c.outcome = r.outcome /\ c.kept = r.kept
        /\ SameCounts(c, r) /\ SameEvents(c, r)
        /\ c.status = "cancelled" /\ c.result = "cancelled" /\ c.aborted
        /\ c.cancelledAt = "fired"
    BY <1>2, <1>4
       DEF Cancelled, Settled, Records, Endings, Places, MidTurn, SameCounts, SameSignal,
           SameEvents
  <2> HIDE DEF c
  <2>2. Exits(t, c, "cancelled", 1)
    BY <1>1, <1>2, <1>4, <2>1
       DEF Exits, Endings, Signals, Reports, Settled, SameCounts, SameEvents
  <2> QED
    BY <2>2 DEF c
<1> QED
  BY <1>3, <1>5, <1>6, EmitGood
     DEF Send, SendAborted, SendInvalid, SendValid, EndFirst, Keeps, r, s

(* The admission refuses the attempt, or lets it queue (admit).            *)
LEMMA AdmitKeeps ==
  ASSUME NEW t \in Tickets, Good(t, tk[t]), Admit(t)
  PROVE  Keeps(t)
<1> DEFINE s == Retained(t)
           p == [s EXCEPT !.permit = TRUE]
           r == [s EXCEPT !.permit = TRUE, !.pc = "queueing"]
<1>1. tk[t].pc = "fired"
  BY DEF Admit, At
<1>2. /\ s \in Records
      /\ s.pc = "fired" /\ s.outcome = tk[t].outcome /\ s.kept = tk[t].kept \cup {"holds"}
      /\ SameCounts(s, tk[t]) /\ SameSignal(s, tk[t]) /\ SameEvents(s, tk[t])
  BY <1>1 DEF Retained, Good, Sane, Records, SameCounts, SameSignal, SameEvents
<1> HIDE DEF s
<1>3. \A ending \in {"failure", "deadline"} : Exits(t, s, ending, 1)
  BY <1>1, <1>2
     DEF Exits, Endings, Good, Sane, Shed, Counts, Signals, Events, InTime, Reports, Late,
         InLoop, Settled, BeforeSending, SameCounts, SameSignal, SameEvents
<1>4. Exits(t, p, "failure", 1)
  BY <1>3, PermitExits
<1>5. /\ r \in Records
      /\ r.pc = "queueing" /\ r.outcome = s.outcome /\ r.kept = s.kept
      /\ SameCounts(r, s) /\ SameSignal(r, s) /\ SameEvents(r, s)
  BY <1>2 DEF Records, Places, SameCounts, SameSignal, SameEvents
<1> HIDE DEF r
<1>6. Good(t, r)
  BY <1>1, <1>2, <1>5
     DEF Good, Sane, Shed, Counts, Signals, Events, InTime, Reports, Kept, Late, InLoop,
         Settled, BeforeSending, AfterSending, SameCounts, SameSignal, SameEvents
<1> QED
  BY <1>3, <1>4, <1>6, EmitGood
     DEF Admit, CircuitOpen, PausedTooLong, RateLimited, Admitted, EndFirst, Keeps, r, s

-----------------------------------------------------------------------------
(* Queues and attempts *)

(* A granted attempt is one whose signal has not fired (run).              *)
LEMMA GrantedKeeps ==
  ASSUME NEW t \in Tickets, Good(t, tk[t]), Granted(t)
  PROVE  Keeps(t)
<1> DEFINE s == tk[t]
           r == [s EXCEPT !.pc = "granted"]
<1>1. s.pc = "queueing" /\ ~s.aborted /\ Become(t, r)
  BY DEF Granted, Resumes, At
<1>2. /\ r \in Records
      /\ r.pc = "granted" /\ r.outcome = s.outcome
      /\ SameCounts(r, s) /\ SameSignal(r, s) /\ SameEvents(r, s) /\ SameHolds(r, s)
  BY <1>1 DEF Good, Sane, Records, Places, SameCounts, SameSignal, SameEvents, SameHolds
<1> HIDE DEF r
<1>3. Good(t, r)
  BY <1>1, <1>2 DEF Good, Sane, Shed, Counts, Signals, Events, InTime, Reports, Kept, Late,
                    InLoop, Settled, BeforeSending, AfterSending, SameCounts,
                    SameSignal, SameEvents, SameHolds
<1> QED
  BY <1>1, <1>3 DEF Keeps, r

(* An attempt begins once for each time it was counted (dispatch): it is   *)
(* sent, or its signal has fired, or its body factory throws.              *)
LEMMA StartKeeps ==
  ASSUME NEW t \in Tickets, Good(t, tk[t]), Start(t)
  PROVE  Keeps(t)
<1> DEFINE s == tk[t]
           b == Begun(t)
<1>1. /\ s.pc = "granted" /\ s \in Records
      /\ s.started = s.retries /\ s.totalAttempts = s.retries + 1 /\ s.withdrawn = s.retries
      /\ s.sent = s.started
  BY DEF Start, Resumes, At, Good, Sane, Counts, Reports, BeforeSending
<1>2. s.started + 1 \in 0..(1 + MaxRetries) /\ s.sent + 1 \in 0..(1 + MaxRetries)
  BY <1>1, ConfigAssumption DEF Records
<1>3. /\ b \in Records
      /\ b.pc = s.pc /\ b.outcome = s.outcome
      /\ b.started = s.started + 1 /\ b.sent = s.sent
      /\ b.retries = s.retries /\ b.totalAttempts = s.totalAttempts
      /\ b.withdrawn = s.withdrawn
      /\ SameSignal(b, s) /\ SameEvents(b, s) /\ SameHolds(b, s)
  BY <1>1, <1>2 DEF Begun, Records, SameSignal, SameEvents, SameHolds
<1> HIDE DEF b
<1>4. ASSUME NEW o \in {"cancelled", "unsendable"}, o = "cancelled" <=> s.aborted
      PROVE  Good(t, [b EXCEPT !.pc = "outcome", !.outcome = o])
  <2> DEFINE r == [b EXCEPT !.pc = "outcome", !.outcome = o]
  <2>1. /\ r \in Records
        /\ r.pc = "outcome" /\ r.outcome = o
        /\ SameCounts(r, b) /\ SameSignal(r, b) /\ SameEvents(r, b) /\ SameHolds(r, b)
    <3>1. "outcome" \in Places
      BY DEF Places
    <3>2. r \in Records
      BY <1>3, <3>1 DEF Records
    <3> QED
      BY <1>3, <3>2 DEF Records, SameCounts, SameSignal, SameEvents, SameHolds
  <2> HIDE DEF r
  <2>2. Good(t, r)
    BY <1>1, <1>3, <1>4, <2>1
       DEF Good, Sane, Shed, Counts, Signals, Events, InTime, Reports, Kept, Late, InLoop,
           Settled, Records, BeforeSending, AfterSending, SameCounts, SameSignal, SameEvents,
           SameHolds
  <2> QED
    BY <2>2 DEF r
<1>5. ASSUME ~s.aborted
      PROVE  Good(t, [b EXCEPT !.pc = "running", !.sent = @ + 1])
  <2> DEFINE r == [b EXCEPT !.pc = "running", !.sent = @ + 1]
  <2>1. /\ r \in Records
        /\ r.pc = "running" /\ r.outcome = b.outcome
        /\ r.started = b.started /\ r.sent = b.sent + 1
        /\ r.retries = b.retries /\ r.totalAttempts = b.totalAttempts
        /\ r.withdrawn = b.withdrawn
        /\ SameSignal(r, b) /\ SameEvents(r, b) /\ SameHolds(r, b)
    <3>1. "running" \in Places
      BY DEF Places
    <3>2. r \in Records
      BY <1>2, <1>3, <3>1 DEF Records
    <3> QED
      BY <1>3, <3>2 DEF Records, SameSignal, SameEvents, SameHolds
  <2> HIDE DEF r
  <2>2. Good(t, r)
    BY <1>1, <1>3, <1>5, <2>1
       DEF Good, Sane, Shed, Counts, Signals, Events, InTime, Reports, Kept, Late, InLoop,
           Settled, Records, BeforeSending, AfterSending, SameSignal, SameEvents, SameHolds
  <2> QED
    BY <2>2 DEF r
<1>6. \/ s.aborted /\ Become(t, [b EXCEPT !.pc = "outcome", !.outcome = "cancelled"])
      \/ ~s.aborted /\ Become(t, [b EXCEPT !.pc = "outcome", !.outcome = "unsendable"])
      \/ ~s.aborted /\ Become(t, [b EXCEPT !.pc = "running", !.sent = @ + 1])
  BY DEF Start, StartAborted, StartUnsendable, StartSending, b
<1> QED
  BY <1>1, <1>4, <1>5, <1>6 DEF Keeps, Records

(* A bounced attempt was not sent (the pause's guard).                     *)
LEMMA BounceKeeps ==
  ASSUME NEW t \in Tickets, Good(t, tk[t]), Bounce(t)
  PROVE  Keeps(t)
<1> DEFINE s == tk[t]
           r == [s EXCEPT !.pc = "bounced"]
<1>1. s.pc = "granted" /\ Become(t, r)
  BY DEF Bounce, Resumes, At
<1>2. /\ r \in Records
      /\ r.pc = "bounced" /\ r.outcome = s.outcome
      /\ SameCounts(r, s) /\ SameSignal(r, s) /\ SameEvents(r, s) /\ SameHolds(r, s)
  BY <1>1 DEF Good, Sane, Records, Places, SameCounts, SameSignal, SameEvents, SameHolds
<1> HIDE DEF r
<1>3. Good(t, r)
  BY <1>1, <1>2 DEF Good, Sane, Shed, Counts, Signals, Events, InTime, Reports, Kept, Late,
                    InLoop, Settled, BeforeSending, AfterSending, SameCounts,
                    SameSignal, SameEvents, SameHolds
<1> QED
  BY <1>1, <1>3 DEF Keeps, r

(* A refused attempt was not sent (QueueFullError).                        *)
LEMMA QueueRefusesKeeps ==
  ASSUME NEW t \in Tickets, Good(t, tk[t]), QueueRefuses(t)
  PROVE  Keeps(t)
<1> DEFINE s == tk[t]
           r == [s EXCEPT !.pc = "rejected"]
<1>1. s.pc = "queueing" /\ ~s.aborted /\ Become(t, r)
  BY DEF QueueRefuses, Resumes, At
<1>2. /\ r \in Records
      /\ r.pc = "rejected" /\ r.outcome = s.outcome
      /\ SameCounts(r, s) /\ SameSignal(r, s) /\ SameEvents(r, s) /\ SameHolds(r, s)
  BY <1>1 DEF Good, Sane, Records, Places, SameCounts, SameSignal, SameEvents, SameHolds
<1> HIDE DEF r
<1>3. Good(t, r)
  BY <1>1, <1>2 DEF Good, Sane, Shed, Counts, Signals, Events, InTime, Reports, Kept, Late,
                    InLoop, Settled, BeforeSending, AfterSending, SameCounts,
                    SameSignal, SameEvents, SameHolds
<1> QED
  BY <1>1, <1>3 DEF Keeps, r

(* An attempt that leaves its queue is taken out of the count again.       *)
LEMMA LeaveQueueGood ==
  ASSUME NEW t \in Tickets, Good(t, tk[t]), tk[t].pc \in {"queueing", "bounced"}, tk[t].aborted
  PROVE  Good(t, LeaveQueue(t))
<1> DEFINE s == tk[t]
<1>1. /\ s \in Records
      /\ (IF InLoop(s) THEN s.totalAttempts - 1 ELSE s.totalAttempts)
           = IF s.retries = 0 THEN 1 ELSE s.retries
  BY DEF Good, Sane, Records, Counts, BeforeSending, InLoop
<1>2. PICK n \in 1..(1 + MaxRetries) :
        n = IF InLoop(s) THEN s.totalAttempts - 1 ELSE s.totalAttempts
  BY <1>1, ConfigAssumption DEF Records
<1> DEFINE r == [s EXCEPT !.pc = "outcome", !.outcome = "cancelled", !.totalAttempts = n]
<1>3. LeaveQueue(t) = r
  BY <1>2 DEF LeaveQueue
<1>4. /\ r \in Records
      /\ r.pc = "outcome" /\ r.outcome = "cancelled" /\ r.totalAttempts = n
      /\ r.retries = s.retries /\ r.withdrawn = s.withdrawn
      /\ r.started = s.started /\ r.sent = s.sent
      /\ SameSignal(r, s) /\ SameEvents(r, s) /\ SameHolds(r, s)
  <2>1. "outcome" \in Places
    BY DEF Places
  <2>2. r \in Records
    BY <1>1, <2>1 DEF Records
  <2> QED
    BY <1>1, <2>2 DEF Records, SameSignal, SameEvents, SameHolds
<1> HIDE DEF r
<1>5. Good(t, r)
  BY <1>1, <1>2, <1>4
     DEF Good, Sane, Shed, Counts, Signals, Events, InTime, Reports, Kept, Late, InLoop,
         Settled, BeforeSending, AfterSending, SameSignal, SameEvents, SameHolds
<1> QED
  BY <1>3, <1>5

(* A signal that fires in a queue takes the attempt out of it (B9).        *)
LEMMA QueueAbortsKeeps ==
  ASSUME NEW t \in Tickets, Good(t, tk[t]), QueueAborts(t)
  PROVE  Keeps(t)
BY LeaveQueueGood DEF QueueAborts, Resumes, At, Keeps

(* A bounced attempt queues again, or gets no token and was not sent.      *)
LEMMA RequeueKeeps ==
  ASSUME NEW t \in Tickets, Good(t, tk[t]), Requeue(t)
  PROVE  Keeps(t)
<1> DEFINE s == tk[t]
           r == [s EXCEPT !.pc = "queueing"]
<1>1. s.pc = "bounced" /\ s \in Records
  BY DEF Requeue, Resumes, At, Good, Sane
<1>2. ASSUME RequeueRateLimited(t) PROVE Keeps(t)
  <2>1. CASE InLoop(s)
    <3>1. /\ s.totalAttempts - 1 = s.started /\ s.started = s.retries
          /\ s.withdrawn = s.retries
      BY <1>1 DEF Good, Sane, Counts, BeforeSending, Records
    <3>2. /\ Signals(t, s) /\ Reports(s) /\ s.events = <<>>
          /\ closing = "closed" => "inflight" \notin s.kept
      BY <1>1 DEF Good, Sane, Shed, Events
    <3>3. Good(t, RejectRetry(s))
      BY <1>1, <2>1, <3>1, <3>2, RejectRetryGood
    <3> QED
      BY <1>2, <2>1, <3>3 DEF RequeueRateLimited, Keeps
  <2>2. CASE ~InLoop(s)
    <3>1. Exits(t, s, "failure", 1)
      BY <1>1, <2>2
         DEF Exits, Endings, Good, Sane, Shed, Counts, Events, InTime, Reports,
             BeforeSending, InLoop,
             Records
    <3> QED
      BY <1>2, <2>2, <3>1, EmitGood DEF RequeueRateLimited, EndFirst, Keeps
  <2> QED
    BY <2>1, <2>2
<1>3. /\ r \in Records
      /\ r.pc = "queueing" /\ r.outcome = s.outcome
      /\ SameCounts(r, s) /\ SameSignal(r, s) /\ SameEvents(r, s) /\ SameHolds(r, s)
  BY <1>1 DEF Records, Places, SameCounts, SameSignal, SameEvents, SameHolds
<1> HIDE DEF r
<1>4. Good(t, r)
  BY <1>1, <1>3
     DEF Good, Sane, Shed, Counts, Signals, Events, InTime, Reports, Kept, Late, InLoop,
         Settled, BeforeSending, AfterSending, SameCounts, SameSignal, SameEvents, SameHolds
<1> QED
  BY <1>1, <1>2, <1>4, LeaveQueueGood DEF Requeue, Requeued, Keeps, r

(* An attempt ends as its signal says, or as the host does.                *)
LEMMA AttemptEndsKeeps ==
  ASSUME NEW t \in Tickets, Good(t, tk[t]), AttemptEnds(t)
  PROVE  Keeps(t)
<1> DEFINE s == tk[t]
<1>1. s.pc = "running" /\ s \in Records
  BY DEF AttemptEnds, Resumes, At, Good, Sane
<1>2. PICK o \in IF s.aborted THEN {"cancelled"} ELSE {"success", "error"} :
        Become(t, [s EXCEPT !.pc = "outcome", !.outcome = o])
  BY DEF AttemptEnds
<1> DEFINE r == [s EXCEPT !.pc = "outcome", !.outcome = o]
<1>3. o \in {"cancelled", "success", "error"} /\ (o = "cancelled" <=> s.aborted)
  BY <1>1, <1>2 DEF Records
<1>4. /\ r \in Records
      /\ r.pc = "outcome" /\ r.outcome = o
      /\ SameCounts(r, s) /\ SameSignal(r, s) /\ SameEvents(r, s) /\ SameHolds(r, s)
  <2>1. "outcome" \in Places
    BY DEF Places
  <2>2. r \in Records
    BY <1>1, <1>3, <2>1 DEF Records
  <2> QED
    BY <1>1, <2>2 DEF Records, SameCounts, SameSignal, SameEvents, SameHolds
<1> HIDE DEF r
<1>5. Good(t, r)
  BY <1>1, <1>3, <1>4
     DEF Good, Sane, Shed, Counts, Signals, Events, InTime, Reports, Kept, Late, InLoop,
         Settled, BeforeSending, AfterSending, SameCounts, SameSignal, SameEvents, SameHolds
<1> QED
  BY <1>2, <1>5 DEF Keeps, r

-----------------------------------------------------------------------------
(* The ends of the first attempt *)

(* A refused first attempt ends in silence when it was cancelled in its    *)
(* very turn, and in a failure otherwise; either way its permit is back.   *)
LEMMA FirstRejectedKeeps ==
  ASSUME NEW t \in Tickets, Good(t, tk[t]), FirstRejected(t)
  PROVE  Keeps(t)
<1> DEFINE s == tk[t]
           p == [s EXCEPT !.permit = FALSE]
           r == [CleanUp(p) EXCEPT !.pc = "ended"]
<1>1. s.pc = "rejected" /\ s \in Records /\ ~InLoop(s)
  BY DEF FirstRejected, Resumes, At, Good, Sane
<1>2. Settled(p) <=> Settled(s)
  BY <1>1 DEF Settled, Records
<1>3. CASE Settled(s)
  <2>1. /\ r \in Records
        /\ r.pc = "ended" /\ r.outcome = s.outcome /\ r.kept = {} /\ r.permit = FALSE
        /\ SameCounts(r, s) /\ SameSignal(r, s) /\ SameEvents(r, s)
    BY <1>1 DEF CleanUp, Records, Places, SameCounts, SameSignal, SameEvents
  <2> HIDE DEF r
  <2>2. Good(t, r)
    BY <1>1, <1>3, <2>1
       DEF Good, Sane, Shed, Counts, Signals, Events, InTime, Reports, Kept, Late, InLoop,
           Settled, BeforeSending, AfterSending, SameCounts, SameSignal, SameEvents
  <2>3. Become(t, r)
    BY <1>2, <1>3 DEF FirstRejected, r
  <2> QED
    BY <2>2, <2>3 DEF Keeps
<1>4. CASE ~Settled(s)
  <2>1. Exits(t, s, "failure", 1)
    BY <1>1, <1>4
       DEF Exits, Endings, Good, Sane, Shed, Counts, Signals, Events, Reports, BeforeSending,
           InLoop, Records, Settled
  <2>2. Exits(t, p, "failure", 1)
    BY <2>1, PermitExits
  <2> QED
    BY <1>2, <1>4, <2>2, EmitGood DEF FirstRejected, EndFirst, Keeps
<1> QED
  BY <1>3, <1>4

(* markQueued and markRetrying change a status that is not terminal.       *)
LEMMA WaitingFields ==
  ASSUME NEW s \in Records, NEW status \in {"queued", "retrying"}
  PROVE  LET w == MarkWaiting(s, status)
         IN /\ w \in Records
            /\ w.pc = s.pc /\ w.outcome = s.outcome /\ w.kept = s.kept
            /\ w.result = s.result /\ w.aborted = s.aborted /\ w.cancelledAt = s.cancelledAt
            /\ Settled(s) <=> Settled(w)
            /\ Settled(s) => w.status = s.status
            /\ SameCounts(w, s) /\ SameEvents(w, s)
<1>1. CASE Settled(s)
  BY <1>1 DEF MarkWaiting, SameCounts, SameEvents
<1>2. CASE ~Settled(s)
  <2> DEFINE w == [s EXCEPT !.status = status]
  <2>1. w \in Records
    BY DEF Records
  <2>2. /\ w.pc = s.pc /\ w.outcome = s.outcome /\ w.kept = s.kept
        /\ w.result = s.result /\ w.aborted = s.aborted /\ w.cancelledAt = s.cancelledAt
        /\ w.status = status
        /\ SameCounts(w, s) /\ SameEvents(w, s)
    BY DEF Records, SameCounts, SameEvents
  <2>3. MarkWaiting(s, status) = w
    BY <1>2 DEF MarkWaiting
  <2> HIDE DEF w
  <2> QED
    BY <1>2, <2>1, <2>2, <2>3 DEF Settled
<1> QED
  BY <1>1, <1>2

(* The deadline is a failure, and not a cancellation (B7).                 *)
LEMMA AbortExits ==
  ASSUME NEW t \in Tickets, Good(t, tk[t]), tk[t].aborted, tk[t].events = <<>>,
         tk[t].pc \notin {"concluding", "ended"}
  PROVE  /\ AbortEnding(t) \in Endings \ {"success"}
         /\ AbortEnding(t) = "cancelled" <=> tk[t].status = "cancelled"
BY DEF AbortEnding, Endings, Good, Sane, Signals

(* The first attempt's outcome ends the ticket or hands it to the loop.    *)
LEMMA FirstResumesKeeps ==
  ASSUME NEW t \in Tickets, Good(t, tk[t]), FirstResumes(t)
  PROVE  Keeps(t)
<1> DEFINE s == tk[t]
           p == [s EXCEPT !.permit = FALSE]
           w == MarkWaiting(s, "queued")
           r == [w EXCEPT !.permit = FALSE, !.pc = "deciding"]
<1>1. s.pc = "outcome" /\ s \in Records /\ s.retries = 0 /\ s.events = <<>>
  BY DEF FirstResumes, Resumes, At, Good, Sane, Events, InLoop, Records
<1>2. \A ending \in Endings :
        (/\ ending = "cancelled" => s.status = "cancelled"
         /\ (s.status = "cancelled" /\ ~Late(s)) => ending = "cancelled"
         /\ ending = "success" <=> s.outcome = "success")
          => Exits(t, s, ending, 1)
  BY <1>1
     DEF Exits, Good, Sane, Shed, Counts, Signals, InTime, Reports, InLoop, Records
<1>3. s.status = "cancelled" /\ ~Late(s) => s.outcome = "cancelled"
  BY <1>1 DEF Good, Sane, InTime
<1>4. ASSUME FirstSucceeds(t) PROVE Keeps(t)
  <2>1. Exits(t, p, "success", 1)
    BY <1>2, <1>3, <1>4, PermitExits DEF FirstSucceeds, Endings
  <2> QED
    BY <1>4, <2>1, EmitGood DEF FirstSucceeds, EndFirst, Keeps
<1>5. ASSUME FirstAborts(t) PROVE Keeps(t)
  <2>1. s.outcome = "cancelled" /\ s.aborted
    BY <1>5 DEF FirstAborts, Good, Sane, Signals
  <2>2. Exits(t, s, AbortEnding(t), 1)
    BY <1>1, <1>2, <2>1, AbortExits
  <2> QED
    BY <1>5, <2>2, EmitGood DEF FirstAborts, EndFirst, Keeps
<1>6. ASSUME FirstFails(t) PROVE Keeps(t)
  <2>1. Exits(t, p, "failure", 1)
    BY <1>2, <1>3, <1>6, PermitExits DEF FirstFails, Endings
  <2> QED
    BY <1>6, <2>1, EmitGood DEF FirstFails, EndFirst, Keeps
<1>7. ASSUME FirstRetries(t) PROVE Keeps(t)
  <2>1. /\ w \in Records
        /\ w.pc = s.pc /\ w.outcome = s.outcome /\ w.kept = s.kept
        /\ w.result = s.result /\ w.aborted = s.aborted /\ w.cancelledAt = s.cancelledAt
        /\ Settled(s) <=> Settled(w)
        /\ Settled(s) => w.status = s.status
        /\ SameCounts(w, s) /\ SameEvents(w, s)
    BY <1>1, WaitingFields
  <2> HIDE DEF w
  <2>2. /\ r \in Records
        /\ r.pc = "deciding" /\ r.outcome = w.outcome /\ r.kept = w.kept
        /\ SameCounts(r, w) /\ SameSignal(r, w) /\ SameEvents(r, w)
    <3>1. "deciding" \in Places
      BY DEF Places, MidTurn
    <3>2. r \in Records
      BY <2>1, <3>1 DEF Records
    <3> QED
      BY <2>1, <3>2 DEF Records, SameCounts, SameSignal, SameEvents
  <2>3. s.outcome = "error" /\ Become(t, r)
    BY <1>7 DEF FirstRetries, w
  <2> HIDE DEF r
  <2>4. Counts(r) /\ Events(r) /\ Kept(r) /\ Shed(r)
    BY <1>1, <2>1, <2>2, <2>3
       DEF Good, Sane, Shed, Counts, Events, Kept, Settled, BeforeSending, AfterSending,
           SameCounts, SameSignal, SameEvents
  <2>5. Signals(t, r) /\ InTime(r) /\ Reports(r)
    BY <1>1, <1>3, <2>1, <2>2, <2>3
       DEF Good, Sane, Signals, InTime, Reports, Late, InLoop, Settled, SameCounts,
           SameSignal, SameEvents
  <2> QED
    BY <2>2, <2>3, <2>4, <2>5 DEF Keeps, Good, Sane
<1> QED
  BY <1>4, <1>5, <1>6, <1>7 DEF FirstResumes

-----------------------------------------------------------------------------
(* The retry loop *)

(* At the top of an iteration: the exits, or a permit for a retry.         *)
LEMMA DecideKeeps ==
  ASSUME NEW t \in Tickets, Good(t, tk[t]), Decide(t)
  PROVE  Keeps(t)
<1> DEFINE s == tk[t]
           x == [s EXCEPT !.totalAttempts = 1 + MaxRetries]
           r == [s EXCEPT !.permit = TRUE, !.pc = "weighing"]
<1>1. /\ s.pc = "deciding" /\ s \in Records /\ s.events = <<>>
      /\ s.started = s.retries + 1 /\ s.totalAttempts = s.started
      /\ s.status = "cancelled" => Late(s)
  BY DEF Decide, At, Good, Sane, Events, Counts, AfterSending, InTime
<1>2. \A ending \in Endings :
        (/\ ending # "success"
         /\ ending = "cancelled" => s.status = "cancelled"
         /\ (s.status = "cancelled" /\ ~Late(s)) => ending = "cancelled")
          => Exits(t, s, ending, s.totalAttempts)
  BY <1>1 DEF Exits, Good, Sane, Shed, Counts, InTime, Reports, Records
<1>3. ASSUME Exhausted(t) PROVE Keeps(t)
  <2>1. /\ x \in Records
        /\ x.pc = s.pc /\ x.outcome = s.outcome /\ x.kept = s.kept
        /\ x.retries = s.retries /\ x.withdrawn = s.withdrawn
        /\ x.started = s.started /\ x.sent = s.sent
        /\ SameSignal(x, s) /\ SameEvents(x, s)
    <3>1. 1 + MaxRetries \in 1..(1 + MaxRetries)
      BY ConfigAssumption
    <3>2. x \in Records
      BY <1>1, <3>1 DEF Records
    <3> QED
      BY <1>1, <3>2 DEF Records, SameSignal, SameEvents
  <2>2. s.started = 1 + MaxRetries
    BY <1>1, <1>3, ConfigAssumption DEF Exhausted
  <2> HIDE DEF x
  <2>3. Exits(t, s, "failure", s.totalAttempts)
    BY <1>1, <1>2 DEF Endings
  <2>4. Exits(t, x, "failure", 1 + MaxRetries)
    BY <1>1, <2>1, <2>2, <2>3
       DEF Exits, Signals, Reports, Late, InLoop, Settled, SameSignal, SameEvents
  <2> QED
    BY <1>3, <2>4, EndRetryGood DEF Exhausted, Keeps, x
<1>4. ASSUME CancelledAtTop(t) \/ RetryCircuitOpen(t) PROVE Keeps(t)
  <2>1. CancelledAtTop(t) => Exits(t, s, "cancelled", s.totalAttempts)
    BY <1>2 DEF CancelledAtTop, Endings
  <2>2. RetryCircuitOpen(t) => Exits(t, s, "failure", s.totalAttempts)
    BY <1>2 DEF RetryCircuitOpen, Endings
  <2> QED
    BY <1>4, <2>1, <2>2, EndRetryGood DEF CancelledAtTop, RetryCircuitOpen, Keeps
<1>5. ASSUME RetryAdmitted(t) PROVE Keeps(t)
  <2>1. /\ r \in Records
        /\ r.pc = "weighing" /\ r.outcome = s.outcome /\ r.kept = s.kept
        /\ SameCounts(r, s) /\ SameSignal(r, s) /\ SameEvents(r, s)
    <3>1. {"deciding", "weighing"} \subseteq Places
      BY DEF Places, MidTurn
    <3>2. r \in Records
      BY <1>1, <3>1 DEF Records
    <3> QED
      BY <1>1, <3>2 DEF Records, SameCounts, SameSignal, SameEvents
  <2>2. s.retries < MaxRetries /\ s.status # "cancelled" /\ Become(t, r)
    BY <1>5 DEF RetryAdmitted
  <2> HIDE DEF r
  <2>3. Good(t, r)
    BY <1>1, <2>1, <2>2
       DEF Good, Sane, Shed, Counts, Signals, Events, InTime, Reports, Kept, Late, InLoop,
           Settled, BeforeSending, AfterSending, SameCounts, SameSignal, SameEvents
  <2> QED
    BY <2>2, <2>3 DEF Keeps
<1> QED
  BY <1>3, <1>4, <1>5 DEF Decide

(* In the gates: the exits, or a retry the budget granted.                 *)
LEMMA WeighKeeps ==
  ASSUME NEW t \in Tickets, Good(t, tk[t]), Weigh(t)
  PROVE  Keeps(t)
<1> DEFINE s == tk[t]
           w == MarkWaiting(s, "retrying")
<1>1. /\ s.pc = "weighing" /\ s \in Records /\ s.events = <<>> /\ s.retries < MaxRetries
      /\ s.started = s.retries + 1 /\ s.totalAttempts = s.started
      /\ s.status = "cancelled" => Late(s)
  BY DEF Weigh, At, Good, Sane, Events, Counts, AfterSending, InTime
<1>2. \A ending \in {"failure", "deadline"} : Exits(t, s, ending, s.totalAttempts)
  BY <1>1 DEF Exits, Endings, Good, Sane, Shed, Counts, InTime, Reports, Records
<1>3. ASSUME RetryGranted(t) PROVE Keeps(t)
  <2>1. /\ w \in Records
        /\ w.pc = s.pc /\ w.outcome = s.outcome /\ w.kept = s.kept
        /\ w.result = s.result /\ w.aborted = s.aborted /\ w.cancelledAt = s.cancelledAt
        /\ Settled(s) <=> Settled(w)
        /\ Settled(s) => w.status = s.status
        /\ SameCounts(w, s) /\ SameEvents(w, s)
    BY <1>1, WaitingFields
  <2> HIDE DEF w
  <2> DEFINE r == [w EXCEPT !.withdrawn = @ + 1, !.retries = @ + 1, !.pc = "sleeping"]
  <2>2. w.retries + 1 \in 0..MaxRetries /\ w.withdrawn + 1 \in Nat
    BY <1>1, <2>1, ConfigAssumption DEF Records, SameCounts
  <2>3. /\ r \in Records
        /\ r.pc = "sleeping" /\ r.outcome = w.outcome /\ r.kept = w.kept
        /\ r.withdrawn = w.withdrawn + 1 /\ r.retries = w.retries + 1
        /\ r.totalAttempts = w.totalAttempts
        /\ r.started = w.started /\ r.sent = w.sent
        /\ SameSignal(r, w) /\ SameEvents(r, w)
    <3>1. "sleeping" \in Places
      BY DEF Places
    <3>2. r \in Records
      BY <2>1, <2>2, <3>1 DEF Records
    <3> QED
      BY <2>1, <3>2 DEF Records, SameSignal, SameEvents
  <2>4. Become(t, r) /\ s.sent = s.started
    BY <1>1, <1>3 DEF RetryGranted, Retriable, Good, Sane, Reports, w
  <2> HIDE DEF r
  <2>5. Counts(r) /\ Events(r) /\ Kept(r) /\ Shed(r)
    BY <1>1, <2>1, <2>3
       DEF Good, Sane, Shed, Counts, Events, Kept, Settled, BeforeSending, AfterSending,
           Records, SameCounts, SameSignal, SameEvents
  <2>6. Signals(t, r) /\ InTime(r) /\ Reports(r)
    BY <1>1, <2>1, <2>3, <2>4
       DEF Good, Sane, Signals, InTime, Reports, Late, InLoop, Settled, Records, Counts,
           AfterSending, SameCounts, SameSignal, SameEvents
  <2> QED
    BY <2>3, <2>4, <2>5, <2>6 DEF Keeps, Good, Sane
<1> QED
  BY <1>2, <1>3, EndRetryGood DEF Weigh, RetryDenied, RetryTooLate, Keeps

(* The backoff runs out.                                                   *)
LEMMA SleepElapsesKeeps ==
  ASSUME NEW t \in Tickets, Good(t, tk[t]), SleepElapses(t)
  PROVE  Keeps(t)
<1> DEFINE s == tk[t]
           r == [s EXCEPT !.pc = "slept"]
<1>1. s.pc = "sleeping" /\ Become(t, r)
  BY DEF SleepElapses, Resumes, At
<1>2. /\ r \in Records
      /\ r.pc = "slept" /\ r.outcome = s.outcome
      /\ SameCounts(r, s) /\ SameSignal(r, s) /\ SameEvents(r, s) /\ SameHolds(r, s)
  BY DEF Good, Sane, Records, Places, SameCounts, SameSignal, SameEvents, SameHolds
<1> HIDE DEF r
<1>3. Good(t, r)
  BY <1>1, <1>2
     DEF Good, Sane, Shed, Counts, Signals, Events, InTime, Reports, Kept, Late, InLoop,
         Settled, BeforeSending, AfterSending, SameCounts, SameSignal, SameEvents, SameHolds
<1> QED
  BY <1>1, <1>3 DEF Keeps

(* The signal cuts the backoff short, and says why.                        *)
LEMMA SleepAbortsKeeps ==
  ASSUME NEW t \in Tickets, Good(t, tk[t]), SleepAborts(t)
  PROVE  Keeps(t)
<1> DEFINE s == tk[t]
<1>1. s.pc = "sleeping" /\ s.aborted /\ s.events = <<>>
  BY DEF SleepAborts, Resumes, At, Good, Sane, Events
<1>2. Exits(t, s, AbortEnding(t), s.totalAttempts)
  BY <1>1, AbortExits DEF Exits, Good, Sane, Shed, Counts, InTime, Reports, Records
<1> QED
  BY <1>2, EndRetryGood DEF SleepAborts, Keeps

(* A sleeper counts its attempt before it asks for a token, and takes the  *)
(* count back when it gets none.                                           *)
LEMMA WakeKeeps ==
  ASSUME NEW t \in Tickets, Good(t, tk[t]), Wake(t)
  PROVE  Keeps(t)
<1> DEFINE s == tk[t]
           c == [s EXCEPT !.totalAttempts = @ + 1]
           r == [s EXCEPT !.totalAttempts = @ + 1, !.pc = "queueing"]
<1>1. /\ s.pc = "slept" /\ s \in Records /\ s.events = <<>>
      /\ s.retries > 0 /\ s.started = s.retries /\ s.totalAttempts = s.retries
      /\ s.withdrawn = s.retries
  BY DEF Wake, Resumes, At, Good, Sane, Events, Counts
<1>2. s.totalAttempts + 1 \in 1..(1 + MaxRetries)
  BY <1>1, ConfigAssumption DEF Records
<1>3. ASSUME WakeCancelled(t) PROVE Keeps(t)
  <2>1. Exits(t, s, "cancelled", s.totalAttempts)
    BY <1>1, <1>3
       DEF WakeCancelled, Exits, Endings, Good, Sane, Shed, InTime, Reports, Records
  <2> QED
    BY <1>3, <2>1, EndRetryGood DEF WakeCancelled, Keeps
<1>4. ASSUME WakeRateLimited(t) PROVE Keeps(t)
  <2>1. /\ c \in Records
        /\ c.pc = s.pc /\ c.outcome = s.outcome /\ c.kept = s.kept
        /\ c.totalAttempts = s.totalAttempts + 1
        /\ c.retries = s.retries /\ c.withdrawn = s.withdrawn
        /\ c.started = s.started /\ c.sent = s.sent
        /\ SameSignal(c, s) /\ SameEvents(c, s)
    BY <1>1, <1>2 DEF Records, SameSignal, SameEvents
  <2> HIDE DEF c
  <2>2. c.totalAttempts - 1 = c.started /\ InLoop(c)
    BY <1>1, <2>1 DEF InLoop, Records
  <2>3. /\ Signals(t, c) /\ Reports(c) /\ c.events = <<>>
        /\ closing = "closed" => "inflight" \notin c.kept
    BY <1>1, <2>1 DEF Good, Sane, Shed, Signals, Reports, Settled, SameSignal, SameEvents
  <2>4. Good(t, RejectRetry(c))
    BY <1>1, <2>1, <2>2, <2>3, RejectRetryGood
  <2> QED
    BY <1>4, <2>4 DEF WakeRateLimited, Keeps, c
<1>5. ASSUME WakeQueues(t) PROVE Keeps(t)
  <2>1. /\ r \in Records
        /\ r.pc = "queueing" /\ r.outcome = s.outcome
        /\ r.totalAttempts = s.totalAttempts + 1
        /\ r.retries = s.retries /\ r.withdrawn = s.withdrawn
        /\ r.started = s.started /\ r.sent = s.sent
        /\ SameSignal(r, s) /\ SameEvents(r, s) /\ SameHolds(r, s)
    BY <1>1, <1>2 DEF Records, Places, SameSignal, SameEvents, SameHolds
  <2>2. Become(t, r)
    BY <1>5 DEF WakeQueues
  <2> HIDE DEF r
  <2>3. Good(t, r)
    BY <1>1, <2>1
       DEF Good, Sane, Shed, Counts, Signals, Events, InTime, Reports, Kept, Late, InLoop,
           Settled, BeforeSending, AfterSending, SameSignal, SameEvents, SameHolds
  <2> QED
    BY <2>2, <2>3 DEF Keeps
<1> QED
  BY <1>3, <1>4, <1>5 DEF Wake

(* A refused retry was not sent.                                           *)
LEMMA RetryRejectedKeeps ==
  ASSUME NEW t \in Tickets, Good(t, tk[t]), RetryRejected(t)
  PROVE  Keeps(t)
<1> DEFINE s == tk[t]
<1>1. s.pc = "rejected" /\ s \in Records /\ InLoop(s)
  BY DEF RetryRejected, Resumes, At, Good, Sane
<1>2. s.totalAttempts - 1 = s.started /\ s.started = s.retries /\ s.withdrawn = s.retries
  BY <1>1 DEF Good, Sane, Counts, BeforeSending, Records
<1>3. /\ Signals(t, s) /\ Reports(s) /\ s.events = <<>>
      /\ closing = "closed" => "inflight" \notin s.kept
  BY <1>1 DEF Good, Sane, Shed, Events
<1>4. Good(t, RejectRetry(s))
  BY <1>1, <1>2, <1>3, RejectRetryGood
<1> QED
  BY <1>4 DEF RetryRejected, Keeps

(* A retry's outcome ends the ticket or starts another iteration.          *)
LEMMA RetryResumesKeeps ==
  ASSUME NEW t \in Tickets, Good(t, tk[t]), RetryResumes(t)
  PROVE  Keeps(t)
<1> DEFINE s == tk[t]
           p == [s EXCEPT !.permit = FALSE]
           r == [s EXCEPT !.permit = FALSE, !.pc = "deciding"]
<1>1. s.pc = "outcome" /\ s \in Records /\ s.retries > 0 /\ s.events = <<>>
  BY DEF RetryResumes, Resumes, At, Good, Sane, Events, InLoop, Records
<1>2. \A ending \in Endings :
        (/\ ending = "cancelled" => s.status = "cancelled"
         /\ (s.status = "cancelled" /\ ~Late(s)) => ending = "cancelled"
         /\ ending = "success" <=> s.outcome = "success")
          => Exits(t, s, ending, s.totalAttempts)
  BY <1>1
     DEF Exits, Good, Sane, Shed, Counts, Signals, InTime, Reports, InLoop, Records
<1>3. s.status = "cancelled" /\ ~Late(s) => s.outcome = "cancelled"
  BY <1>1 DEF Good, Sane, InTime
<1>4. ASSUME RetrySucceeds(t) PROVE Keeps(t)
  <2>1. Exits(t, p, "success", s.totalAttempts)
    BY <1>2, <1>3, <1>4, PermitExits DEF RetrySucceeds, Endings
  <2> QED
    BY <1>4, <2>1, EndRetryGood DEF RetrySucceeds, Keeps
<1>5. ASSUME RetryAborts(t) PROVE Keeps(t)
  <2>1. s.outcome = "cancelled" /\ s.aborted
    BY <1>5 DEF RetryAborts, Good, Sane, Signals
  <2>2. Exits(t, s, AbortEnding(t), s.totalAttempts)
    BY <1>1, <1>2, <2>1, AbortExits
  <2> QED
    BY <1>5, <2>2, EndRetryGood DEF RetryAborts, Keeps
<1>6. ASSUME RetryFails(t) PROVE Keeps(t)
  <2>1. /\ r \in Records
        /\ r.pc = "deciding" /\ r.outcome = s.outcome /\ r.kept = s.kept
        /\ SameCounts(r, s) /\ SameSignal(r, s) /\ SameEvents(r, s)
    <3>1. {"deciding", "weighing"} \subseteq Places
      BY DEF Places, MidTurn
    <3>2. r \in Records
      BY <1>1, <3>1 DEF Records
    <3> QED
      BY <1>1, <3>2 DEF Records, SameCounts, SameSignal, SameEvents
  <2>2. s.outcome \in {"error", "unsendable"} /\ Become(t, r)
    BY <1>6 DEF RetryFails
  <2> HIDE DEF r
  <2>3. Good(t, r)
    BY <1>1, <1>3, <2>1, <2>2
       DEF Good, Sane, Shed, Counts, Signals, Events, InTime, Reports, Kept, Late, InLoop,
           Settled, BeforeSending, AfterSending, SameCounts, SameSignal, SameEvents
  <2> QED
    BY <2>2, <2>3 DEF Keeps
<1> QED
  BY <1>4, <1>5, <1>6 DEF RetryResumes

-----------------------------------------------------------------------------
(* The end, the application, the deadline and the shutdown *)

(* The ticket resolves with the ending its event named, unless it was      *)
(* settled before, and everything is taken back.                           *)
LEMMA ConcludeKeeps ==
  ASSUME NEW t \in Tickets, Good(t, tk[t]), Conclude(t)
  PROVE  Keeps(t)
<1> DEFINE s == tk[t]
           d == MarkDone(s, s.verdict)
           r == [CleanUp(d) EXCEPT !.permit = FALSE, !.pc = "ended"]
<1>1. /\ s.pc = "concluding" /\ s \in Records /\ Become(t, r)
      /\ Len(s.events) = 1 /\ s.events[1].kind = s.verdict
  BY DEF Conclude, At, Good, Sane, Events
<1>2. s.events \in Seq([kind : Endings, attempts : Nat]) /\ s.verdict \in Endings
  <2>1. s.events \in Seq([kind : Endings, attempts : Nat])
    BY <1>1 DEF Records
  <2> DEFINE e == s.events
             E == [kind : Endings, attempts : Nat]
  <2>2. e \in Seq(E) /\ Len(e) = 1
    BY <1>1, <2>1
  <2> HIDE DEF e, E
  <2>3. e[1] \in E
    BY <2>2
  <2>4. e[1].kind \in Endings
    BY <2>3 DEF E
  <2> QED
    BY <1>1, <2>1, <2>4 DEF e
<1>3. /\ d \in Records
      /\ d.outcome = s.outcome /\ d.cancelledAt = s.cancelledAt /\ d.aborted = s.aborted
      /\ SameCounts(d, s) /\ SameEvents(d, s)
      /\ Settled(s) => d.status = s.status /\ d.result = s.result
      /\ ~Settled(s) => d.status = "done" /\ d.result = s.verdict
  BY <1>1, <1>2 DEF MarkDone, Records, SameCounts, SameEvents
<1> HIDE DEF d
<1>4. /\ r \in Records
      /\ r.pc = "ended" /\ r.outcome = d.outcome /\ r.kept = {} /\ r.permit = FALSE
      /\ SameCounts(r, d) /\ SameSignal(r, d) /\ SameEvents(r, d)
  <2>1. "ended" \in Places
    BY DEF Places
  <2>2. r = [d EXCEPT !.kept = {}, !.permit = FALSE, !.pc = "ended"] /\ r \in Records
    BY <1>3, <2>1 DEF CleanUp, Records
  <2> HIDE DEF r
  <2> QED
    BY <1>3, <2>2 DEF Records, SameCounts, SameSignal, SameEvents
<1> HIDE DEF r
<1>5. Counts(r) /\ Kept(r) /\ Shed(r)
  BY <1>1, <1>3, <1>4
     DEF Good, Sane, Shed, Counts, Kept, Settled, BeforeSending, AfterSending, SameCounts,
         SameSignal, SameEvents
<1>6. Events(r)
  <2>1. Len(r.events) = 1 /\ r.pc = "ended" /\ r.events = s.events /\ r.started = s.started
    BY <1>1, <1>3, <1>4 DEF SameCounts, SameEvents
  <2>2. r.events[1].attempts = IF r.started = 0 THEN 1 ELSE r.started
    BY <1>1, <2>1 DEF Good, Sane, Events
  <2>3. s.events[1].kind = "cancelled" => s.status = "cancelled"
    BY <1>1 DEF Good, Sane, Events
  <2>4. s.status = "cancelled" => r.status = "cancelled"
    BY <1>1, <1>3, <1>4 DEF Settled, SameSignal
  <2>5. r.status = "done" => r.events[1].kind = r.result
    BY <1>1, <1>3, <1>4, <2>1 DEF Good, Sane, Signals, Settled, SameSignal
  <2> QED
    BY <2>1, <2>2, <2>3, <2>4, <2>5 DEF Events
<1>7. Signals(t, r) /\ InTime(r) /\ Reports(r)
  BY <1>1, <1>2, <1>3, <1>4
     DEF Good, Sane, Signals, Events, InTime, Reports, Late, InLoop, Settled, Endings,
         Records, SameCounts,
         SameSignal, SameEvents
<1> QED
  BY <1>1, <1>4, <1>5, <1>6, <1>7 DEF Keeps, Good, Sane

(* What cancel() does to a ticket that was sent and is not settled.        *)
LEMMA CancelledSane ==
  ASSUME NEW t \in Tickets, NEW s \in Records, Counts(s), Signals(t, s), Events(s),
         InTime(s), Reports(s),
         Settled(s) => Kept(s), s.pc # "unsent"
  PROVE  Sane(t, Cancelled(s)) /\ Settled(Cancelled(s)) /\ Cancelled(s).kept = s.kept
<1>1. CASE Settled(s)
  BY <1>1 DEF Cancelled, Sane
<1>2. CASE ~Settled(s)
  <2> DEFINE r == [s EXCEPT !.status = "cancelled", !.result = "cancelled",
                            !.aborted = TRUE, !.cancelledAt = s.pc]
  <2>1. Cancelled(s) = r
    BY <1>2 DEF Cancelled
  <2>2. s \in Records /\ s.pc \in Places
    BY DEF Records
  <2>3. /\ r \in Records
        /\ r.pc = s.pc /\ r.outcome = s.outcome
        /\ r.status = "cancelled" /\ r.result = "cancelled"
        /\ r.aborted = TRUE /\ r.cancelledAt = s.pc
        /\ SameCounts(r, s) /\ SameEvents(r, s) /\ SameHolds(r, s)
    BY <2>2 DEF Records, Endings, SameCounts, SameEvents, SameHolds
  <2> HIDE DEF r
  <2>4. s.pc # "ended" /\ s.status \notin {"done", "cancelled"} /\ s.pc # "never"
    BY <1>2, <2>2 DEF Sane, Signals, Settled, Places, MidTurn
  <2>5. Counts(r) /\ Kept(r) /\ Events(r)
    BY <2>3, <2>4
       DEF Sane, Counts, Events, Kept, Settled, BeforeSending, AfterSending, SameCounts,
           SameEvents, SameHolds
  <2>6. Signals(t, r)
    BY <2>3, <2>4 DEF Sane, Signals, Settled, SameHolds
  <2>7. InTime(r) /\ Reports(r)
    BY <2>2, <2>3, <2>4
       DEF Sane, Counts, Events, InTime, Reports, Late, InLoop, Places, MidTurn, SameCounts,
           SameEvents
  <2> QED
    BY <2>1, <2>3, <2>5, <2>6, <2>7 DEF Sane, Settled, SameHolds
<1> QED
  BY <1>1, <1>2

(* cancel() settles the ticket at once, wherever its code stands.          *)
LEMMA CancelKeeps ==
  ASSUME NEW t \in Tickets, Good(t, tk[t]), Cancel(t)
  PROVE  Keeps(t)
<1>1. Good(t, Cancelled(tk[t]))
  <2>1. Sane(t, Cancelled(tk[t]))
    BY CancelledSane DEF Cancel, At, Good, Sane
  <2>2. Shed(Cancelled(tk[t]))
    BY DEF Cancel, Good, Sane, Records, Shed, Cancelled, Settled
  <2> QED
    BY <2>1, <2>2 DEF Good
<1> QED
  BY <1>1 DEF Cancel, Keeps

(* The deadline's timer only fires the signal.                             *)
LEMMA DeadlineFiresKeeps ==
  ASSUME NEW t \in Tickets, Good(t, tk[t]), DeadlineFires(t)
  PROVE  Keeps(t)
<1> DEFINE s == tk[t]
           r == [s EXCEPT !.aborted = TRUE, !.kept = @ \ {"timer"}]
<1>1. "timer" \in s.kept /\ Become(t, r) /\ s \in Records
  BY DEF DeadlineFires, Good, Sane
<1>2. /\ r \in Records
      /\ r.pc = s.pc /\ r.outcome = s.outcome /\ r.aborted = TRUE
      /\ r.status = s.status /\ r.result = s.result /\ r.cancelledAt = s.cancelledAt
      /\ r.kept = s.kept \ {"timer"} /\ r.permit = s.permit
      /\ SameCounts(r, s) /\ SameEvents(r, s)
  BY <1>1 DEF Records, SameCounts, SameEvents
<1> HIDE DEF r
<1>3. Good(t, r)
  BY <1>1, <1>2
     DEF Good, Sane, Shed, Counts, Signals, Events, InTime, Reports, Kept, Late, InLoop,
         Settled, BeforeSending, AfterSending, SameCounts, SameEvents
<1> QED
  BY <1>1, <1>3 DEF Keeps

(* close() settles every ticket in flight; the others are unsent, settled, *)
(* or about to be.                                                         *)
LEMMA CancelInFlightKeeps ==
  ASSUME IInv, CancelInFlight, closing' = "closed"
  PROVE  IInv'
<1>1. ASSUME NEW t \in Tickets, t \in InFlight
      PROVE  /\ Sane(t, tk'[t]) /\ Settled(tk'[t]) /\ "inflight" \notin tk'[t].kept
  <2> DEFINE s == tk[t]
             c == CleanUp(s)
  <2>1. Good(t, s) /\ s \in Records /\ tk'[t] = Cancelled(c) /\ "inflight" \in s.kept
    BY <1>1 DEF IInv, Good, Sane, CancelInFlight, InFlight
  <2>2. s.pc # "unsent"
    BY <2>1 DEF Good, Sane, Kept
  <2>3. /\ c \in Records
        /\ c.pc = s.pc /\ c.outcome = s.outcome /\ c.kept = {} /\ c.permit = s.permit
        /\ SameCounts(c, s) /\ SameSignal(c, s) /\ SameEvents(c, s)
    BY <2>1 DEF CleanUp, Records, SameCounts, SameSignal, SameEvents
  <2> HIDE DEF c
  <2>4. Counts(c) /\ Events(c) /\ (Settled(c) => Kept(c))
    BY <2>1, <2>2, <2>3
       DEF Good, Sane, Counts, Events, Kept, Settled, BeforeSending, AfterSending, SameCounts,
           SameSignal, SameEvents
  <2>5. Signals(t, c) /\ InTime(c) /\ Reports(c)
    BY <2>1, <2>2, <2>3
       DEF Good, Sane, Signals, InTime, Reports, Late, InLoop, Settled, SameCounts,
           SameSignal, SameEvents
  <2>6. Sane(t, Cancelled(c)) /\ Settled(Cancelled(c)) /\ Cancelled(c).kept = {}
    BY <2>2, <2>3, <2>4, <2>5, CancelledSane
  <2> QED
    BY <2>1, <2>6
<1>2. ASSUME NEW t \in Tickets, t \notin InFlight
      PROVE  /\ Sane(t, tk'[t])
             /\ "inflight" \notin tk'[t].kept
             /\ tk'[t].pc \in {"unsent", "concluding"} \/ Settled(tk'[t])
  <2>1. tk'[t] = tk[t] /\ Good(t, tk[t])
    BY <1>2 DEF IInv, CancelInFlight
  <2>2. "inflight" \notin tk[t].kept
    BY <1>2 DEF InFlight
  <2>3. tk[t].pc \in {"unsent", "concluding"} \/ Settled(tk[t])
    BY <2>1, <2>2 DEF Good, Sane, Kept, Signals
  <2> QED
    BY <2>1, <2>2, <2>3 DEF Good
<1>3. /\ tk' = [t \in Tickets |-> tk'[t]]
      /\ \A t \in Tickets : Sane(t, tk'[t])
      /\ \A t \in Tickets : /\ "inflight" \notin tk'[t].kept
                            /\ tk'[t].pc \in {"unsent", "concluding"} \/ Settled(tk'[t])
  BY <1>1, <1>2 DEF CancelInFlight
<1> QED
  BY <1>3 DEF IInv, Good, Shed, Sane

(* A turn that keeps its own ticket keeps them all.                        *)
LEMMA KeepsIInv ==
  ASSUME IInv, NEW t \in Tickets, Keeps(t)
  PROVE  IInv'
<1>1. PICK r : tk' = [tk EXCEPT ![t] = r] /\ closing' = closing /\ Good(t, r)
  BY DEF Keeps, Become
<1>2. tk \in [Tickets -> Records] /\ r \in Records
  BY <1>1 DEF IInv, Good, Sane
<1>3. \A u \in Tickets : tk'[u] \in Records /\ Sane(u, tk'[u]) /\ Shed(tk'[u])
  BY <1>1, <1>2 DEF IInv, Good, Sane
<1>4. \A u \in Tickets : Shed(tk[u])'
  BY <1>1, <1>3 DEF Shed
<1> QED
  BY <1>1, <1>2, <1>3, <1>4 DEF IInv, Good

(* Every step of the event loop keeps the ticket it takes.                 *)
LEMMA ContinuesKeeps ==
  ASSUME NEW t \in Tickets, Good(t, tk[t]), Continues(t)
  PROVE  Keeps(t)
BY AdmitKeeps, QueueAbortsKeeps, StartKeeps, BounceKeeps, RequeueKeeps, AttemptEndsKeeps,
   FirstRejectedKeeps, FirstResumesKeeps, DecideKeeps, WeighKeeps, SleepElapsesKeeps,
   SleepAbortsKeeps, WakeKeeps, RetryRejectedKeeps, RetryResumesKeeps, ConcludeKeeps
   DEF Continues

(* And so does what the host, other tickets and the caller do.             *)
LEMMA HappensKeeps ==
  ASSUME NEW t \in Tickets, Good(t, tk[t]), Happens(t)
  PROVE  Keeps(t)
BY SendKeeps, GrantedKeeps, QueueRefusesKeeps, CancelKeeps DEF Happens

-----------------------------------------------------------------------------
(* The theorems *)

(* Nothing is sent at first.                                               *)
LEMMA InitIInv == Init => IInv
<1> SUFFICES ASSUME Init PROVE IInv
  OBVIOUS
<1>1. ASSUME NEW t \in Tickets PROVE Good(t, Unsent)
  <2>1. Counts(Unsent) /\ Events(Unsent)
    BY UnsentFields, ConfigAssumption DEF Counts, Events, BeforeSending, AfterSending
  <2>2. Signals(t, Unsent) /\ InTime(Unsent) /\ Reports(Unsent) /\ Kept(Unsent) /\ Shed(Unsent)
    BY UnsentFields DEF Signals, InTime, Reports, Kept, Shed, Settled, Init
  <2> QED
    BY <2>1, <2>2, UnsentFields DEF Good, Sane
<1> QED
  BY <1>1, UnsentFields DEF Init, IInv

(* The invariant is inductive.                                             *)
LEMMA NextIInv == IInv /\ [Next]_vars => IInv'
<1> SUFFICES ASSUME IInv, [Next]_vars PROVE IInv'
  OBVIOUS
<1>1. ASSUME NEW t \in Tickets, Continues(t) \/ Happens(t) \/ DeadlineFires(t)
      PROVE  IInv'
  <2>1. Good(t, tk[t])
    BY DEF IInv
  <2> QED
    BY <1>1, <2>1, ContinuesKeeps, HappensKeeps, DeadlineFiresKeeps, KeepsIInv
<1>2. CASE CloseNow \/ DrainEnds
  BY <1>2, CancelInFlightKeeps DEF CloseNow, DrainEnds
<1>3. CASE CloseDrain
  BY <1>3 DEF CloseDrain, IInv, Good, Sane, Shed
<1>4. CASE UNCHANGED vars
  BY <1>4 DEF vars, IInv, Good, Sane, Shed
<1> QED
  BY <1>1, <1>2, <1>3, <1>4 DEF Next

(* The invariant holds in every behaviour.                                 *)
LEMMA Invariance == Spec => []IInv
BY InitIInv, NextIInv, PTL DEF Spec

(* A ticket's events are none, or one.                                     *)
LEMMA OneEvent ==
  ASSUME NEW s \in Records, Events(s)
  PROVE  \/ s.events = <<>> /\ DOMAIN s.events = {}
         \/ Len(s.events) = 1 /\ DOMAIN s.events = {1}
<1> DEFINE e == s.events
           E == [kind : Endings, attempts : Nat]
<1>1. e \in Seq(E) /\ Len(e) <= 1
  BY DEF Records, Events
<1> HIDE DEF e, E
<1>2. Len(e) \in Nat /\ DOMAIN e = 1..Len(e)
  BY <1>1
<1>3. Len(e) = 0 \/ Len(e) = 1
  BY <1>1, <1>2
<1>4. Len(e) = 0 => e = <<>> /\ DOMAIN e = {}
  BY <1>1, <1>2, EmptySeq
<1>5. Len(e) = 1 => DOMAIN e = {1}
  BY <1>2
<1> QED
  BY <1>3, <1>4, <1>5 DEF e

(* A ticket's record is always one of the records the code can leave.      *)
THEOREM TypeCorrect == Spec => []TypeOK
<1>1. IInv => TypeOK
  <2> SUFFICES ASSUME IInv PROVE TypeOK
    OBVIOUS
  <2>1. closing \in {"open", "draining", "closed"} /\ \A t \in Tickets : tk[t] \in Records
    BY DEF IInv
  <2> QED
    BY <2>1 DEF TypeOK, Records, Places
<1> QED
  BY <1>1, Invariance, PTL

(* A ticket that ended emitted one terminal event that names its result,   *)
(* but for cancel() in the moments TooLate lists; no ticket emits two, one *)
(* emits none exactly when cancel() followed a queue's refusal of the      *)
(* first attempt, a success that cancel() came too late for is always      *)
(* reported, and a deadline never as a cancellation (B7).                  *)
THEOREM EndingsAgree == Spec => []EndingAgrees
<1>1. IInv => EndingAgrees
  <2> SUFFICES ASSUME IInv, NEW t \in Tickets
               PROVE  /\ (Ended(t) /\ ~TooLate(t))
                           => /\ Len(tk[t].events) = 1
                              /\ tk[t].events[1].kind = tk[t].result
                      /\ Len(tk[t].events) <= 1
                      /\ Ended(t) =>
                           (tk[t].events = <<>>
                              <=> tk[t].cancelledAt = "rejected" /\ ~InLoop(tk[t]))
                      /\ "cancelled" \in EventKinds(t) \cup {tk[t].result}
                           => tk[t].cancelledAt # "never"
                      /\ (Ended(t) /\ tk[t].cancelledAt = "outcome"
                                   /\ tk[t].outcome = "success")
                           => tk[t].result = "cancelled" /\ EventKinds(t) = {"success"}
    BY DEF EndingAgrees
  <2> DEFINE s == tk[t]
             e == s.events
  <2>1. s \in Records /\ Signals(t, s) /\ Events(s) /\ InTime(s) /\ Reports(s)
    BY DEF IInv, Good, Sane
  <2>2. (e = <<>> /\ DOMAIN e = {}) \/ (Len(e) = 1 /\ DOMAIN e = {1})
    BY <2>1, OneEvent
  <2>3. TooLate(t) <=> Late(s)
    BY DEF TooLate, Late
  <2>4. ASSUME Ended(t), ~TooLate(t) PROVE Len(e) = 1 /\ e[1].kind = s.result
    <3>1. s.pc = "ended" /\ ~Late(s) /\ s.status \in {"done", "cancelled"}
      BY <2>1, <2>3, <2>4 DEF Ended, At, Signals, Settled
    <3>2. Len(e) = 1
      BY <2>1, <2>2, <3>1 DEF InTime, Signals, Late
    <3> QED
      BY <2>1, <3>1, <3>2 DEF Events, InTime, Signals
  <2>5. \A k \in EventKinds(t) : Len(e) = 1 /\ k = e[1].kind
    BY <2>2 DEF EventKinds
  <2>6. "cancelled" \in EventKinds(t) \cup {s.result} => s.cancelledAt # "never"
    BY <2>1, <2>5 DEF Events, Signals
  <2>7. Len(e) = 1 => EventKinds(t) = {e[1].kind}
    BY <2>2 DEF EventKinds
  <2>8. ASSUME Ended(t), s.cancelledAt = "outcome", s.outcome = "success"
        PROVE  s.result = "cancelled" /\ EventKinds(t) = {"success"}
    BY <2>1, <2>7, <2>8 DEF Ended, At, Signals, Reports
  <2>9. Ended(t) => (e = <<>> <=> s.cancelledAt = "rejected" /\ ~InLoop(s))
    BY <2>1 DEF Ended, At, InTime
  <2> QED
    BY <2>1, <2>4, <2>6, <2>8, <2>9 DEF Events
<1> QED
  BY <1>1, Invariance, PTL

(* A ticket that ended holds nothing (B1), and a closed client has settled *)
(* every ticket it was given once the turn that closed it is over.         *)
THEOREM NothingKept == Spec => []NothingLeftBehind
<1>1. IInv => NothingLeftBehind
  BY DEF IInv, NothingLeftBehind, Good, Sane, Kept, Shed, Ended, At, InFlight, Idle, MidTurn
<1> QED
  BY <1>1, Invariance, PTL

(* The terminal event counts the attempts that reached executeRequest; all *)
(* but at most the last were sent, and in a success every one.  Each but   *)
(* the first was granted by the budget, and at most one grant is for an    *)
(* attempt that has not begun.                                             *)
THEOREM AttemptsCounted == Spec => []AttemptsReported
<1>1. IInv => AttemptsReported
  <2> SUFFICES ASSUME IInv, NEW t \in Tickets
               PROVE  /\ tk[t].started \in {tk[t].withdrawn, tk[t].withdrawn + 1}
                      /\ \A i \in DOMAIN tk[t].events :
                           /\ tk[t].events[i].attempts
                                = IF tk[t].started = 0 THEN 1 ELSE tk[t].started
                           /\ tk[t].sent # tk[t].started =>
                                /\ tk[t].started = tk[t].sent + 1
                                /\ tk[t].outcome \in {"cancelled", "unsendable"}
                                /\ tk[t].events[i].kind # "success"
    BY DEF AttemptsReported
  <2> DEFINE s == tk[t]
             e == s.events
  <2>1. s \in Records /\ Counts(s) /\ Events(s) /\ Reports(s)
    BY DEF IInv, Good, Sane
  <2>2. \A i \in DOMAIN e : i = 1 /\ Len(e) = 1
    BY <2>1, OneEvent
  <2>3. s.started \in {s.withdrawn, s.withdrawn + 1}
    BY <2>1 DEF Counts
  <2>4. ASSUME NEW i \in DOMAIN e
        PROVE  /\ e[i].attempts = IF s.started = 0 THEN 1 ELSE s.started
               /\ s.sent # s.started =>
                    /\ s.started = s.sent + 1
                    /\ s.outcome \in {"cancelled", "unsendable"}
                    /\ e[i].kind # "success"
    BY <2>1, <2>2 DEF Events, Reports
  <2> QED
    BY <2>3, <2>4
<1> QED
  BY <1>1, Invariance, PTL

=============================================================================
