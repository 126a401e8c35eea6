--------------------------- MODULE CircuitBreaker ---------------------------
(***************************************************************************)
(* The circuit breaker of one partition (src/queue/circuit-breaker.ts):    *)
(* CircuitBreaker, the permits tryAcquire() hands out, and the rolling     *)
(* window of recent outcomes.                                              *)
(*                                                                         *)
(* A caller holds at most one permit at a time; a caller whose permit is   *)
(* settled may ask for another one, so the set Callers bounds how many     *)
(* attempts are in flight together, not how many there are in all.         *)
(*                                                                         *)
(* Abstractions.                                                           *)
(*   - `age` is min(Date.now() - openedAt, ResetTimeout): the code only    *)
(*     asks whether resetTimeoutMs has elapsed.                            *)
(*   - The code's generation counter is only ever compared for equality    *)
(*     with the generation a permit remembers, so a new generation is any  *)
(*     value no outstanding permit remembers.  Generations is a finite     *)
(*     pool such values come from (its size is a bound of the model).      *)
(*   - `window` holds the outcomes of the live buckets, oldest first;      *)
(*     WindowCapacity bounds it (a full window forgets its oldest outcome, *)
(*     as the code does once that outcome's bucket expires).               *)
(*   - consecutiveFailures saturates at FailureThreshold, which only       *)
(*     matters in window mode, where the code never reads it.              *)
(***************************************************************************)
EXTENDS Naturals, Sequences, FiniteSets

CONSTANTS
  Callers,              \* the attempts that may hold a permit at one time
  Generations,          \* the pool half-open generations are drawn from
  FailureThreshold,     \* consecutive failures that trip the breaker
  MinimumRequests,      \* config.window.minimumRequests
  FailureRatePercent,   \* config.window.failureRatePercent
  WindowCapacity,       \* bound on the outcomes the window remembers
  ResetTimeout,         \* ticks an open breaker waits before a trial
  HalfOpenMaxAttempts   \* trial slots of a half-open episode

ASSUME CallersAssumption == IsFiniteSet(Callers)

ASSUME GenerationsAssumption == Generations \subseteq Nat \ {0}

ASSUME ConfigAssumption ==
  /\ FailureThreshold \in Nat \ {0}
  /\ MinimumRequests \in Nat \ {0}
  /\ FailureRatePercent \in 0..100
  /\ WindowCapacity \in Nat \ {0}
  /\ ResetTimeout \in Nat
  /\ HalfOpenMaxAttempts \in Nat \ {0}

VARIABLES
  windowMode,           \* the configuration: TRUE when config.window is set
  state,                \* "closed" | "open" | "half-open"
  consecutiveFailures,
  window,               \* the outcomes in the rolling window, TRUE = failure
  age,                  \* ticks since openedAt, up to ResetTimeout
  halfOpenInFlight,     \* trial slots taken in this half-open episode
  halfOpenGeneration,
  permit,               \* the permit each caller holds
  sinceClose            \* history: outcomes recorded since the last close

breaker == <<state, consecutiveFailures, window, age, halfOpenInFlight,
             halfOpenGeneration, sinceClose>>

vars == <<windowMode, breaker, permit>>

-----------------------------------------------------------------------------

NoTrial == 0            \* trialGeneration of a permit granted while closed

NoPermit == [live |-> FALSE, gen |-> NoTrial]

Permit == [live : BOOLEAN, gen : Generations \cup {NoTrial}]

\* Outcomes needed before a closed breaker may judge its host.
EvidenceNeeded == IF windowMode THEN MinimumRequests ELSE FailureThreshold

AtMost(bound, n) == IF n > bound THEN bound ELSE n

\* The trial slot the permit reserved belongs to the present episode.
IsCurrentTrial(c) ==
  /\ permit[c].gen # NoTrial
  /\ permit[c].gen = halfOpenGeneration

CurrentTrials == {c \in Callers : permit[c].live /\ IsCurrentTrial(c)}

\* Mutant: a permit of an earlier episode decides this one.
MayAlwaysRecord(c) == TRUE

MayRecord(c) == state # "half-open" \/ IsCurrentTrial(c)

\* Generations that no outstanding permit remembers.
FreshGenerations ==
  {g \in Generations : g # halfOpenGeneration
                         /\ \A c \in Callers : permit[c].gen # g}

-----------------------------------------------------------------------------
(* The rolling window *)

Remember(failed) ==
  IF ~windowMode THEN window
  ELSE IF Len(window) < WindowCapacity THEN Append(window, failed)
  ELSE Append(Tail(window), failed)

FailuresIn(w) == Cardinality({i \in DOMAIN w : w[i]})

\* evaluateTripCondition, on the counters after the failure is recorded.
TripCondition(failures, w) ==
  IF windowMode
  THEN /\ Len(w) >= MinimumRequests
       /\ FailuresIn(w) * 100 > FailureRatePercent * Len(w)
  ELSE failures >= FailureThreshold

-----------------------------------------------------------------------------
(* Recording outcomes *)

\* Math.max(0, this.halfOpenInFlight - 1)
OneSlotFewer == IF halfOpenInFlight > 0 THEN halfOpenInFlight - 1 ELSE 0

\* Mutant: closing forgets the counters and keeps the evidence.
ResetTrialsOnly ==
  /\ halfOpenInFlight' = 0
  /\ UNCHANGED <<consecutiveFailures, window>>

ResetCounters ==
  /\ consecutiveFailures' = 0
  /\ halfOpenInFlight' = 0
  /\ window' = <<>>

RecordSuccess ==
  \/ /\ state = "half-open"
     /\ state' = "closed"
     /\ ResetCounters
     /\ sinceClose' = 0
     /\ UNCHANGED <<age, halfOpenGeneration>>
  \/ /\ state = "closed"
     /\ consecutiveFailures' = 0
     /\ window' = Remember(FALSE)
     /\ sinceClose' = AtMost(EvidenceNeeded, sinceClose + 1)
     /\ UNCHANGED <<state, age, halfOpenInFlight, halfOpenGeneration>>
  \/ /\ state = "open"
     /\ UNCHANGED breaker

RecordClassifiedFailure ==
  \/ /\ state = "half-open"
     /\ state' = "open"
     /\ age' = 0
     /\ halfOpenInFlight' = OneSlotFewer
     /\ UNCHANGED <<consecutiveFailures, window, halfOpenGeneration, sinceClose>>
  \/ /\ state = "closed"
     /\ consecutiveFailures' = AtMost(FailureThreshold, consecutiveFailures + 1)
     /\ window' = Remember(TRUE)
     /\ sinceClose' = AtMost(EvidenceNeeded, sinceClose + 1)
     /\ IF TripCondition(consecutiveFailures', window')
        THEN state' = "open" /\ age' = 0
        ELSE UNCHANGED <<state, age>>
     /\ UNCHANGED <<halfOpenInFlight, halfOpenGeneration>>
  \/ /\ state = "open"
     /\ UNCHANGED breaker

\* An answered attempt the breaker does not count as a failure (a 404).
RecordNeutral == RecordSuccess

\* Mutant: a trial without an outcome leaks its slot (B1).
LeakTrialSlot(c) == UNCHANGED breaker

\* Mutant: a permit granted while closed frees a trial's slot.
FreeAnySlot(c) ==
  IF state = "half-open"
  THEN /\ halfOpenInFlight' = OneSlotFewer
       /\ UNCHANGED <<state, consecutiveFailures, window, age,
                      halfOpenGeneration, sinceClose>>
  ELSE UNCHANGED breaker

FreeTrialSlot(c) ==
  IF state = "half-open" /\ IsCurrentTrial(c)
  THEN /\ halfOpenInFlight' = OneSlotFewer
       /\ UNCHANGED <<state, consecutiveFailures, window, age,
                      halfOpenGeneration, sinceClose>>
  ELSE UNCHANGED breaker

-----------------------------------------------------------------------------
(* tryAcquire: the admissions.  A refusal (null) changes nothing. *)

Grant(c, generation) ==
  permit' = [permit EXCEPT ![c] = [live |-> TRUE, gen |-> generation]]

AdmitClosed(c) ==
  /\ state = "closed"
  /\ Grant(c, NoTrial)
  /\ UNCHANGED breaker

\* The lazy open -> half-open transition, with the first trial's slot.
AdmitFirstTrial(c) ==
  /\ state = "open"
  /\ age >= ResetTimeout
  /\ state' = "half-open"
  /\ halfOpenInFlight' = 1
  /\ FreshGenerations # {}
  /\ halfOpenGeneration' = CHOOSE g \in FreshGenerations : TRUE
  /\ Grant(c, halfOpenGeneration')
  /\ UNCHANGED <<consecutiveFailures, window, age, sinceClose>>

\* Mutant: one trial too many.
AdmitExtraTrial(c) ==
  /\ state = "half-open"
  /\ halfOpenInFlight <= HalfOpenMaxAttempts
  /\ halfOpenInFlight' = halfOpenInFlight + 1
  /\ Grant(c, halfOpenGeneration)
  /\ UNCHANGED <<state, consecutiveFailures, window, age,
                 halfOpenGeneration, sinceClose>>

AdmitTrial(c) ==
  /\ state = "half-open"
  /\ halfOpenInFlight < HalfOpenMaxAttempts
  /\ halfOpenInFlight' = halfOpenInFlight + 1
  /\ Grant(c, halfOpenGeneration)
  /\ UNCHANGED <<state, consecutiveFailures, window, age,
                 halfOpenGeneration, sinceClose>>

TryAcquire(c) ==
  /\ ~permit[c].live
  /\ UNCHANGED windowMode
  /\ AdmitClosed(c) \/ AdmitFirstTrial(c) \/ AdmitTrial(c)

-----------------------------------------------------------------------------
(* The permit's methods.  settle(): the first call counts, later ones are  *)
(* no-ops, so each action consumes the permit.                             *)

Settle(c) ==
  /\ permit[c].live
  /\ permit' = [permit EXCEPT ![c] = NoPermit]
  /\ UNCHANGED windowMode

Success(c) ==
  /\ Settle(c)
  /\ IF MayRecord(c) THEN RecordSuccess ELSE UNCHANGED breaker

\* failure(error) where the error counts against the host.
Failure(c) ==
  /\ Settle(c)
  /\ IF MayRecord(c) THEN RecordClassifiedFailure ELSE UNCHANGED breaker

\* failure(error) where the host answered and isFailure says no.
Neutral(c) ==
  /\ Settle(c)
  /\ IF MayRecord(c) THEN RecordNeutral ELSE UNCHANGED breaker

\* failure(error) where the attempt never reached the host, and release()
\* in the caller's finally: cancelled, vetoed, queue full, deadline.
Release(c) ==
  /\ Settle(c)
  /\ FreeTrialSlot(c)

-----------------------------------------------------------------------------
(* Time *)

Tick ==
  /\ state = "open"
  /\ age < ResetTimeout
  /\ age' = age + 1
  /\ UNCHANGED <<windowMode, state, consecutiveFailures, window, halfOpenInFlight,
                 halfOpenGeneration, sinceClose, permit>>

\* The oldest outcomes' bucket leaves the window.
Expire ==
  /\ window # <<>>
  /\ window' = Tail(window)
  /\ UNCHANGED <<windowMode, state, consecutiveFailures, age, halfOpenInFlight,
                 halfOpenGeneration, sinceClose, permit>>

-----------------------------------------------------------------------------

Init ==
  /\ windowMode \in BOOLEAN
  /\ state = "closed"
  /\ consecutiveFailures = 0
  /\ window = <<>>
  /\ age = 0
  /\ halfOpenInFlight = 0
  /\ halfOpenGeneration = 0
  /\ permit = [c \in Callers |-> NoPermit]
  /\ sinceClose = 0

SettleSomehow(c) == Success(c) \/ Failure(c) \/ Neutral(c) \/ Release(c)

Next ==
  \/ \E c \in Callers : TryAcquire(c) \/ SettleSomehow(c)
  \/ Tick
  \/ Expire

Spec == Init /\ [][Next]_vars

\* Every permit is settled (release() runs in a finally), and time passes.
Fairness ==
  /\ \A c \in Callers : WF_vars(SettleSomehow(c))
  /\ WF_vars(Tick)

FairSpec == Spec /\ Fairness

-----------------------------------------------------------------------------
(* Properties *)

(* The shape of the breaker's fields, with the trial slots in their limit. *)
TypeOK ==
  /\ windowMode \in BOOLEAN
  /\ state \in {"closed", "open", "half-open"}
  /\ consecutiveFailures \in 0..FailureThreshold
  /\ window \in Seq(BOOLEAN)
  /\ age \in 0..ResetTimeout
  /\ halfOpenInFlight \in 0..HalfOpenMaxAttempts
  /\ halfOpenGeneration \in Generations \cup {0}
  /\ permit \in [Callers -> Permit]
  /\ sinceClose \in 0..EvidenceNeeded

(* While half-open, the slots counted as taken are exactly the unsettled   *)
(* permits of this episode.  A slot that no permit will hand back wedges   *)
(* the breaker half-open for good (bug B1); a slot handed back twice, or   *)
(* by a permit of an earlier episode, admits too many trials.              *)
SlotAccounting ==
  state = "half-open" => halfOpenInFlight = Cardinality(CurrentTrials)

(* A breaker that closed (or was just made) trips only on what it has seen *)
(* since: at least minimumRequests outcomes in window mode, at least       *)
(* failureThreshold in consecutive mode (resetCounters' comment).          *)
TripsOnFreshEvidence ==
  [][(state = "closed" /\ state' = "open") => sinceClose' >= EvidenceNeeded]_vars

(* The counter and the generations implement a set of trials: only a       *)
(* permit of this episode may end it, and a permit from a closed spell or  *)
(* from an earlier episode neither decides it nor frees its slots.         *)
EpisodeTrials == IF state = "half-open" THEN CurrentTrials ELSE {}

Episodes == INSTANCE BreakerEpisodes WITH
  MaxTrials <- HalfOpenMaxAttempts,
  phase <- state,
  trials <- EpisodeTrials

ImplementsEpisodes == Episodes!Spec

(* Whatever happened before, a breaker whose callers keep coming and whose *)
(* attempts from some time on are all answered does not stay open or       *)
(* half-open.                                                              *)
Recovers ==
  ( /\ <>[][\A c \in Callers : ~Failure(c) /\ ~Release(c)]_vars
    /\ WF_vars(\E c \in Callers : TryAcquire(c)) )
  => <>[](state = "closed")

(* "concurrent trial requests allowed while half-open" (halfOpenMaxAttempts *)
(* in src/core/types.ts): the trial requests on their way while half-open   *)
(* never exceed it.                                                         *)
TrialsInFlightCapped ==
  state = "half-open" =>
    Cardinality({c \in Callers : permit[c].live /\ permit[c].gen # NoTrial})
      <= HalfOpenMaxAttempts

=============================================================================
