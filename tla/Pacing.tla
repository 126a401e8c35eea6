------------------------------- MODULE Pacing -------------------------------
(***************************************************************************)
(* How one partition paces its attempts: the token bucket                  *)
(* (src/queue/rate-limiter.ts), the Retry-After pause (src/queue/pause.ts) *)
(* and the bulkhead's methods that join them: takeToken, guard,            *)
(* notePushback and refusalAfter (src/queue/bulkhead.ts).  Both a rate     *)
(* limit and a pause are configured.                                       *)
(*                                                                         *)
(* Time.  Every time is the number of milliseconds from now, so a tick     *)
(* lowers them.  The balance is in milliseconds of refill: a token is      *)
(* TokenTime of them, which makes the code's fractions of a token whole    *)
(* (tokensPerSec is taken to divide 1000).  Timers fire when they are due. *)
(*                                                                         *)
(* Two lazy computations are done when time passes or the pause moves, and *)
(* not when they are read: the refill, and the shift of a waiter's turn    *)
(* (dueAt + shiftMs - shift0).  Nothing reads them in between.             *)
(***************************************************************************)
EXTENDS Integers, SequencesExt

CONSTANTS
  Attempts,
  TokenTime,          \* 1000 / tokensPerSec
  Burst,              \* tokens the bucket holds
  MaxWait,            \* maxWaitMs
  MaxPause,           \* maxPauseMs
  RetryAfters         \* the delays the host may name

ASSUME AttemptsAssumption == IsFiniteSet(Attempts)

ASSUME LimitsAssumption ==
  /\ TokenTime \in Nat \ {0}
  /\ Burst \in Nat \ {0}
  /\ MaxWait \in Nat
  /\ MaxPause \in Nat
  /\ RetryAfters \subseteq Nat \ {0}

VARIABLES
  balance,            \* the bucket's tokens, when it is next refilled
  frozen,             \* time to `refilledAt`, 0 if that is past
  paused,             \* time to the end of the pause, 0 if that is past
  line,               \* the attempts asleep in takeToken, in order of arrival
  at,                 \* where each attempt stands
  credit,             \* history: time earned and not yet spent on attempts
  forecast            \* history: a refusal refusalAfter() has predicted

vars == <<balance, frozen, paused, line, at, credit, forecast>>

Larger(m, n) == IF m > n THEN m ELSE n

Smaller(m, n) == IF m < n THEN m ELSE n

Full == Burst * TokenTime

(***************************************************************************)
(*   idle      not admitted, or ended                                      *)
(*   asleep    in `line`                                                   *)
(*   admitted  has its token, on its way through the queues                *)
(*   bounced   came to the front of them during a pause                    *)
(*   sent      the request is under way                                    *)
(***************************************************************************)
Stages == {"idle", "asleep", "admitted", "bounced", "sent"}

-----------------------------------------------------------------------------
(* The bucket *)

\* The balance after refill(t), and what waitFrom(now, t) answers: the time
\* until a token reserved as of t may be used.
Refilled(t) ==
  IF t > frozen THEN Smaller(Full, balance + (t - frozen)) ELSE balance

WaitFrom(t) ==
  Larger(t, frozen)
    + IF Refilled(t) >= TokenTime THEN 0 ELSE TokenTime - Refilled(t)

\* reserve, as of the end of the pause; refused beyond maxWaitMs.
Wait == WaitFrom(paused)

Reserve ==
  /\ Wait <= MaxWait
  /\ balance' = Refilled(paused) - TokenTime
  /\ frozen' = Larger(paused, frozen)

\* Mutant: a token handed back during a pause is free when it ends.
RefundUncapped == balance' = Smaller(Full, balance + TokenTime)

Refund ==
  balance' = Smaller(IF frozen > 0 THEN 0 ELSE Full, balance + TokenTime)

\* Mutant: without the time the retry sleeps.
RefusedAtOnce(ms) == paused > ms /\ WaitFrom(paused) > MaxWait

\* What refusalAfter(ms) foresees: remaining + nextWaitMs(the pause's end).
RefusedAfter(ms) == paused > ms /\ WaitFrom(paused) - ms > MaxWait

-----------------------------------------------------------------------------
(* takeToken *)

Asleep(a) ==
  [who |-> a, due |-> Wait, sleep |-> Wait,
   refunded |-> FALSE]      \* history: has a token been handed back since?

TakeToken(a) ==
  /\ at[a] \in {"idle", "bounced"}
  /\ Reserve
  /\ \/ /\ Wait = 0
        /\ at' = [at EXCEPT ![a] = "admitted"]
        /\ credit' = credit - TokenTime
        /\ UNCHANGED line
     \/ /\ Wait > 0
        /\ at' = [at EXCEPT ![a] = "asleep"]
        /\ line' = Append(line, Asleep(a))
        /\ UNCHANGED credit
  /\ UNCHANGED <<paused, forecast>>

\* RateLimitedError.  A fresh attempt that is refused stays idle.
RefuseToken(a) ==
  /\ at[a] = "bounced"
  /\ Wait > MaxWait
  /\ at' = [at EXCEPT ![a] = "idle"]
  /\ UNCHANGED <<balance, frozen, paused, line, credit, forecast>>

\* Mutant: a turn that is due now is not due yet.
TurnAfter(i) == Larger(line[i].due, paused) + 1

\* The timer of the waiter in place i fires: its turn may have moved since.
TurnOf(i) == Larger(line[i].due, paused)

SleepOn(i) ==
  /\ TurnOf(i) > 0
  /\ line' = [line EXCEPT ![i].sleep = TurnOf(i)]
  /\ UNCHANGED <<at, credit>>

Awake(i) ==
  /\ TurnOf(i) = 0
  /\ line' = RemoveAt(line, i)
  /\ at' = [at EXCEPT ![line[i].who] = "admitted"]
  /\ credit' = credit - TokenTime

TimerFires(i) ==
  /\ line[i].sleep = 0
  /\ SleepOn(i) \/ Awake(i)
  /\ UNCHANGED <<balance, frozen, paused, forecast>>

\* The ticket's signal fires while it sleeps: the token goes back.
AbortSleep(i) ==
  /\ Refund
  /\ line' = [j \in 1..(Len(line) - 1) |-> [RemoveAt(line, i)[j] EXCEPT !.refunded = TRUE]]
  /\ at' = [at EXCEPT ![line[i].who] = "idle"]
  /\ credit' = IF paused > 0 THEN Smaller(credit, TokenTime * (Len(line) - 1)) ELSE credit
  /\ forecast' = [forecast EXCEPT !.sure = FALSE]
  /\ UNCHANGED <<frozen, paused>>

-----------------------------------------------------------------------------
(* guard and notePushback *)

\* The attempt comes to the front of the queues.
Start(a) ==
  /\ at[a] = "admitted"
  /\ at' = [at EXCEPT ![a] = IF paused > 0 THEN "bounced" ELSE "sent"]
  /\ UNCHANGED <<balance, frozen, paused, line, credit, forecast>>

\* It is aborted in a queue, or its answer pauses nothing.
End(a) ==
  /\ at[a] \in {"admitted", "bounced", "sent"}
  /\ at' = [at EXCEPT ![a] = "idle"]
  /\ UNCHANGED <<balance, frozen, paused, line, credit, forecast>>

\* freezeUntil, which moves everybody's turn by as much as the refill point.
\* Mutant: only the bucket moves.
FreezeBucketOnly(until) ==
  /\ balance' = Smaller(balance, 0)
  /\ frozen' = Larger(frozen, until)
  /\ UNCHANGED line

Freeze(until) ==
  /\ balance' = Smaller(balance, 0)
  /\ frozen' = Larger(frozen, until)
  /\ line' = [i \in DOMAIN line |-> [line[i] EXCEPT !.due = @ + Larger(0, until - frozen)]]

\* Mutant: a Retry-After is believed whatever it says.
Unclamped(ms) == Larger(paused, ms)

\* The end of the pause after extend(ms).
Extended(ms) == Larger(paused, Smaller(ms, MaxPause))

Pushback(a) ==
  /\ at[a] = "sent"
  /\ \E ms \in RetryAfters :
       /\ paused' = Extended(ms)
       /\ Freeze(Extended(ms))
  /\ at' = [at EXCEPT ![a] = "idle"]
  /\ credit' = Smaller(credit, TokenTime * Len(line))
  /\ UNCHANGED forecast

-----------------------------------------------------------------------------
(* The retry loop asks refusalAfter(ms), and its answer is written down to *)
(* be compared with what takeToken says ms later.                          *)

NoForecast == [in |-> -1, sure |-> FALSE]

Foresee(ms) ==
  /\ RefusedAfter(ms)
  /\ forecast = NoForecast
  /\ forecast' = [in |-> ms, sure |-> TRUE]
  /\ UNCHANGED <<balance, frozen, paused, line, at, credit>>

-----------------------------------------------------------------------------
(* Time *)

Sooner(t) == Larger(0, t - 1)

\* The reference bucket earns while the partition is not paused; the bound
\* is the burst and a token for every attempt that can wait at one time.
Earned ==
  IF paused > 0 THEN credit
  ELSE Smaller(Full + TokenTime * Cardinality(Attempts), credit + 1)

Tick ==
  /\ \A i \in DOMAIN line : line[i].sleep > 0
  /\ line' = [i \in DOMAIN line |-> [line[i] EXCEPT !.due = Sooner(@), !.sleep = @ - 1]]
  /\ balance' = IF frozen > 0 THEN balance ELSE Smaller(Full, balance + 1)
  /\ frozen' = Sooner(frozen)
  /\ paused' = Sooner(paused)
  /\ credit' = Earned
  /\ forecast' = IF forecast.in > 0 THEN [forecast EXCEPT !.in = @ - 1] ELSE NoForecast
  /\ UNCHANGED at

-----------------------------------------------------------------------------

Init ==
  /\ balance = Full
  /\ frozen = 0
  /\ paused = 0
  /\ line = <<>>
  /\ at = [a \in Attempts |-> "idle"]
  /\ credit = Full
  /\ forecast = NoForecast

Next ==
  \/ \E a \in Attempts :
       TakeToken(a) \/ RefuseToken(a) \/ Start(a) \/ End(a) \/ Pushback(a)
  \/ \E i \in DOMAIN line : TimerFires(i) \/ AbortSleep(i)
  \/ \E ms \in 0..MaxPause : Foresee(ms)
  \/ Tick

Spec == Init /\ [][Next]_vars

\* Time passes and timers fire; nobody is obliged to send, abort or answer.
FairSpec ==
  /\ Spec
  /\ WF_vars(Tick)
  /\ WF_vars(\E i \in DOMAIN line : TimerFires(i))

-----------------------------------------------------------------------------
(* Properties *)

(* The shape of the fields. *)
TypeOK ==
  /\ balance \in Int /\ balance <= Full
  /\ frozen \in 0..MaxPause
  /\ paused \in 0..MaxPause
  /\ line \in Seq([who : Attempts, due : Nat, sleep : Nat, refunded : BOOLEAN])
  /\ at \in [Attempts -> Stages]
  /\ credit \in Int
  /\ forecast \in [in : -1..MaxPause, sure : BOOLEAN]
  /\ {a \in Attempts : at[a] = "asleep"} = {line[i].who : i \in DOMAIN line}

(* The long-run rate is never exceeded, whatever is aborted or extended:   *)
(* every attempt admitted is paid for with TokenTime of its own, earned    *)
(* outside pauses.  A pause leaves no credit but what those who wait are   *)
(* owed, so traffic resumes at the rate and not in a burst (freezeUntil,   *)
(* refund).                                                                *)
WithinRate == credit >= 0

(* However the pause is extended under those who wait, a waiter's timer is *)
(* never set past its turn, and its turn is never before the end of the    *)
(* pause, nor a pause before the bucket's freeze: it wakes when it may go, *)
(* or early and sleeps on.  As long as no token is handed back, waiters    *)
(* keep their order and stand a token apart.                               *)
SpacingKept ==
  /\ paused <= frozen
  /\ \A i \in DOMAIN line :
       /\ line[i].sleep <= line[i].due
       /\ paused <= line[i].due
  /\ \A i, j \in DOMAIN line :
       (i < j /\ ~line[i].refunded) => line[i].due + TokenTime <= line[j].due

(* A refusal refusalAfter() predicts is what takeToken would answer after  *)
(* the sleep, unless a waiter handed back its token in the meantime.       *)
RefusalForeseen == (forecast.in = 0 /\ forecast.sure) => Wait > MaxWait

(* Unless the host pauses the partition again and again, whoever waits for *)
(* a token gets it or aborts.                                              *)
EveryWaiterGoes ==
  (<>[][\A a \in Attempts : ~Pushback(a)]_vars)
  => \A a \in Attempts : at[a] = "asleep" ~> at[a] # "asleep"

(* "Reservations are therefore served in arrival order" (TokenBucket's     *)
(* comment; docs/guide/resilience.md says the same of the waiters).        *)
ArrivalOrder ==
  \A i, j \in DOMAIN line : i < j => line[i].due <= line[j].due

=============================================================================
