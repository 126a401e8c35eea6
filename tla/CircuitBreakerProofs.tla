------------------------ MODULE CircuitBreakerProofs ------------------------
(***************************************************************************)
(* Proofs about CircuitBreaker, for any callers, generations, thresholds   *)
(* and windows.  The inductive invariant is TypeOK together with           *)
(* SlotAccounting: the guard on AdmitTrial keeps the counter in its type   *)
(* only because the counter is the number of current trials, and freeing a *)
(* slot keeps the accounting only because the counter is not yet zero.     *)
(* GenerationGiven is the third part: a trial's generation is never the    *)
(* value that marks a permit without a slot.                               *)
(***************************************************************************)
EXTENDS CircuitBreaker, FiniteSetTheorems, TLAPS

(* A half-open episode has a generation of its own.                        *)
GenerationGiven == state = "half-open" => halfOpenGeneration \in Generations

IInv == TypeOK /\ SlotAccounting /\ GenerationGiven

-----------------------------------------------------------------------------
(* What the permit operations do to the set of current trials *)

(* The current trials are finitely many, so their number is a natural.     *)
LEMMA TrialsFinite ==
  /\ IsFiniteSet(CurrentTrials)
  /\ Cardinality(CurrentTrials) \in Nat
<1>1. CurrentTrials \in SUBSET Callers
  BY DEF CurrentTrials
<1>2. IsFiniteSet(CurrentTrials)
  BY <1>1, FS_Subset, CallersAssumption
<1> QED
  BY <1>2, FS_CardinalityType

(* Settling a permit takes its caller, and no other, off the trials.       *)
LEMMA SettleTrials ==
  ASSUME TypeOK, NEW c \in Callers, Settle(c),
         halfOpenGeneration' = halfOpenGeneration
  PROVE  CurrentTrials' = CurrentTrials \ {c}
<1>1. permit'[c] = NoPermit
  BY DEF Settle, TypeOK
<1>2. \A d \in Callers \ {c} : permit'[d] = permit[d]
  BY DEF Settle, TypeOK
<1> QED
  BY <1>1, <1>2 DEF CurrentTrials, IsCurrentTrial, NoPermit

(* Granting a permit of the present generation adds its caller.            *)
LEMMA GrantTrials ==
  ASSUME TypeOK, NEW c \in Callers,
         Grant(c, halfOpenGeneration), halfOpenGeneration # NoTrial,
         halfOpenGeneration' = halfOpenGeneration
  PROVE  CurrentTrials' = CurrentTrials \cup {c}
<1>1. permit'[c] = [live |-> TRUE, gen |-> halfOpenGeneration]
  BY DEF Grant, TypeOK
<1>2. \A d \in Callers \ {c} : permit'[d] = permit[d]
  BY DEF Grant, TypeOK
<1> QED
  BY <1>1, <1>2 DEF CurrentTrials, IsCurrentTrial

(* The first trial of an episode is its only one: no earlier permit        *)
(* remembers the new generation.                                           *)
LEMMA FirstTrial ==
  ASSUME TypeOK, NEW c \in Callers, AdmitFirstTrial(c)
  PROVE  /\ halfOpenGeneration' \in Generations
         /\ CurrentTrials' = {c}
<1>1. halfOpenGeneration' \in FreshGenerations
  BY DEF AdmitFirstTrial
<1>2. /\ halfOpenGeneration' \in Generations
      /\ halfOpenGeneration' # NoTrial
      /\ \A d \in Callers : permit[d].gen # halfOpenGeneration'
  BY <1>1, GenerationsAssumption DEF FreshGenerations, NoTrial
<1>3. permit'[c] = [live |-> TRUE, gen |-> halfOpenGeneration']
  BY DEF AdmitFirstTrial, Grant, TypeOK
<1>4. \A d \in Callers \ {c} : permit'[d] = permit[d]
  BY DEF AdmitFirstTrial, Grant, TypeOK
<1> QED
  BY <1>2, <1>3, <1>4 DEF CurrentTrials, IsCurrentTrial

-----------------------------------------------------------------------------
(* Type correctness *)

LEMMA PermitType ==
  ASSUME TypeOK, NEW c \in Callers
  PROVE  /\ Settle(c) => permit' \in [Callers -> Permit]
         /\ \A g \in Generations \cup {NoTrial} :
              Grant(c, g) => permit' \in [Callers -> Permit]
<1>1. NoPermit \in Permit
  BY DEF NoPermit, Permit
<1>2. \A g \in Generations \cup {NoTrial} : [live |-> TRUE, gen |-> g] \in Permit
  BY DEF Permit
<1> QED
  BY <1>1, <1>2 DEF TypeOK, Settle, Grant

LEMMA WindowType ==
  ASSUME TypeOK, NEW failed \in BOOLEAN
  PROVE  Remember(failed) \in Seq(BOOLEAN)
<1>1. CASE ~windowMode
  BY <1>1 DEF TypeOK, Remember
<1>2. CASE windowMode /\ Len(window) < WindowCapacity
  BY <1>2 DEF TypeOK, Remember
<1>3. CASE windowMode /\ ~(Len(window) < WindowCapacity)
  <2>1. window # <<>>
    BY <1>3, ConfigAssumption DEF TypeOK
  <2>2. Tail(window) \in Seq(BOOLEAN)
    BY <2>1 DEF TypeOK
  <2> QED
    BY <1>3, <2>2 DEF TypeOK, Remember
<1> QED
  BY <1>1, <1>2, <1>3

LEMMA EvidencePositive == EvidenceNeeded \in Nat \ {0}
  BY ConfigAssumption DEF EvidenceNeeded

(* No step touches the configuration.                                      *)
LEMMA ConfigKept ==
  ASSUME [Next]_vars
  PROVE  /\ windowMode' = windowMode
         /\ EvidenceNeeded' = EvidenceNeeded
<1>1. windowMode' = windowMode
  BY DEF Next, TryAcquire, SettleSomehow, Success, Failure, Neutral, Release,
         Settle, Tick, Expire, vars
<1> QED
  BY <1>1 DEF EvidenceNeeded

(* The fields keep their types when an outcome is recorded.                *)
LEMMA RecordType ==
  ASSUME TypeOK, RecordSuccess \/ RecordClassifiedFailure
  PROVE  /\ state' \in {"closed", "open", "half-open"}
         /\ consecutiveFailures' \in 0..FailureThreshold
         /\ window' \in Seq(BOOLEAN)
         /\ age' \in 0..ResetTimeout
         /\ halfOpenInFlight' \in 0..HalfOpenMaxAttempts
         /\ halfOpenGeneration' = halfOpenGeneration
         /\ sinceClose' \in 0..EvidenceNeeded
<1> USE EvidencePositive, ConfigAssumption
<1>1. /\ Remember(TRUE) \in Seq(BOOLEAN)
      /\ Remember(FALSE) \in Seq(BOOLEAN)
  BY WindowType
<1>2. /\ AtMost(FailureThreshold, consecutiveFailures + 1) \in 0..FailureThreshold
      /\ AtMost(EvidenceNeeded, sinceClose + 1) \in 0..EvidenceNeeded
      /\ OneSlotFewer \in 0..HalfOpenMaxAttempts
  BY DEF TypeOK, AtMost, OneSlotFewer
<1>3. CASE RecordSuccess
  <2>1. <<>> \in Seq(BOOLEAN)
    OBVIOUS
  <2>2. CASE state = "half-open"
    BY <1>3, <2>1, <2>2 DEF RecordSuccess, ResetCounters, TypeOK
  <2>3. CASE state = "closed"
    <3>1. /\ consecutiveFailures' = 0
          /\ window' = Remember(FALSE)
          /\ sinceClose' = AtMost(EvidenceNeeded, sinceClose + 1)
          /\ UNCHANGED <<state, age, halfOpenInFlight, halfOpenGeneration>>
      BY <1>3, <2>3 DEF RecordSuccess
    <3>2. consecutiveFailures' \in 0..FailureThreshold
      BY <3>1
    <3>3. window' \in Seq(BOOLEAN) /\ sinceClose' \in 0..EvidenceNeeded
      BY <1>1, <1>2, <3>1
    <3> QED
      BY <3>1, <3>2, <3>3 DEF TypeOK
  <2>4. CASE state = "open"
    BY <1>3, <2>4 DEF RecordSuccess, TypeOK, breaker
  <2> QED
    BY <2>2, <2>3, <2>4 DEF TypeOK
<1>4. CASE RecordClassifiedFailure
  <2>1. CASE state = "half-open"
    BY <1>2, <1>4, <2>1 DEF RecordClassifiedFailure, TypeOK
  <2>2. CASE state = "closed"
    <3>1. /\ consecutiveFailures' \in 0..FailureThreshold
          /\ window' \in Seq(BOOLEAN)
          /\ sinceClose' \in 0..EvidenceNeeded
          /\ UNCHANGED <<halfOpenInFlight, halfOpenGeneration>>
      BY <1>1, <1>2, <1>4, <2>2 DEF RecordClassifiedFailure
    <3>2. (state' = "open" /\ age' = 0) \/ UNCHANGED <<state, age>>
      BY <1>4, <2>2 DEF RecordClassifiedFailure
    <3> QED
      BY <3>1, <3>2 DEF TypeOK
  <2>3. CASE state = "open"
    BY <1>4, <2>3 DEF RecordClassifiedFailure, TypeOK, breaker
  <2> QED
    BY <2>1, <2>2, <2>3 DEF TypeOK
<1> QED
  BY <1>3, <1>4

(* Every settled permit either records its outcome or only gives a slot    *)
(* back.                                                                   *)
LEMMA SettleCases ==
  ASSUME NEW c \in Callers, SettleSomehow(c)
  PROVE  /\ Settle(c)
         /\ \/ MayRecord(c) /\ RecordSuccess
            \/ MayRecord(c) /\ RecordClassifiedFailure
            \/ ~MayRecord(c) /\ UNCHANGED breaker
            \/ FreeTrialSlot(c)
  BY DEF SettleSomehow, Success, Failure, Neutral, Release, RecordNeutral

LEMMA TypeStep ==
  ASSUME TypeOK, [Next]_vars
  PROVE  TypeOK'
<1> USE EvidencePositive, ConfigAssumption
<1>0. windowMode' = windowMode /\ EvidenceNeeded' = EvidenceNeeded
  BY ConfigKept
<1> USE <1>0
<1>1. ASSUME NEW c \in Callers, TryAcquire(c) PROVE TypeOK'
  <2>1. CASE AdmitClosed(c)
    BY <2>1, PermitType DEF AdmitClosed, TypeOK, breaker
  <2>2. CASE AdmitFirstTrial(c)
    <3>1. halfOpenGeneration' \in Generations
      BY <2>2, FirstTrial
    <3>2. permit' \in [Callers -> Permit]
      BY <2>2, <3>1, PermitType DEF AdmitFirstTrial
    <3> QED
      BY <2>2, <3>1, <3>2 DEF AdmitFirstTrial, TypeOK
  <2>3. CASE AdmitTrial(c)
    <3>1. permit' \in [Callers -> Permit]
      BY <2>3, PermitType DEF AdmitTrial, TypeOK, NoTrial
    <3> QED
      BY <2>3, <3>1 DEF AdmitTrial, TypeOK
  <2> QED
    BY <1>1, <2>1, <2>2, <2>3 DEF TryAcquire
<1>2. ASSUME NEW c \in Callers, SettleSomehow(c) PROVE TypeOK'
  <2>1. permit' \in [Callers -> Permit]
    BY <1>2, SettleCases, PermitType
  <2>2. CASE RecordSuccess \/ RecordClassifiedFailure
    BY <2>1, <2>2, RecordType DEF TypeOK
  <2>3. CASE UNCHANGED breaker
    BY <2>1, <2>3 DEF TypeOK, breaker
  <2>4. CASE FreeTrialSlot(c)
    BY <2>1, <2>4 DEF FreeTrialSlot, OneSlotFewer, TypeOK, breaker
  <2> QED
    BY <1>2, <2>2, <2>3, <2>4, SettleCases
<1>3. CASE Tick
  BY <1>3 DEF Tick, TypeOK
<1>4. CASE Expire
  BY <1>4 DEF Expire, TypeOK
<1>5. CASE UNCHANGED vars
  BY <1>5 DEF vars, breaker, TypeOK
<1> QED
  BY <1>1, <1>2, <1>3, <1>4, <1>5 DEF Next

(* TypeOK holds in every reachable state, for every configuration.         *)
THEOREM TypeCorrect == Spec => []TypeOK
<1>1. Init => TypeOK
  BY ConfigAssumption, EvidencePositive
  DEF Init, TypeOK, Permit, NoPermit
<1> QED
  BY <1>1, TypeStep, PTL DEF Spec

-----------------------------------------------------------------------------
(* Slot accounting *)

(* A permit that does not hold a slot of this episode leaves its trials.   *)
LEMMA OutsiderSettles ==
  ASSUME TypeOK, NEW c \in Callers, Settle(c), ~IsCurrentTrial(c),
         halfOpenGeneration' = halfOpenGeneration
  PROVE  CurrentTrials' = CurrentTrials
<1>1. c \notin CurrentTrials
  BY DEF CurrentTrials
<1> QED
  BY <1>1, SettleTrials

(* A trial that gives its slot back frees exactly one.                     *)
LEMMA TrialYields ==
  ASSUME IInv, NEW c \in Callers, Settle(c), FreeTrialSlot(c),
         state = "half-open", IsCurrentTrial(c)
  PROVE  /\ c \in CurrentTrials
         /\ CurrentTrials' = CurrentTrials \ {c}
         /\ halfOpenInFlight' = Cardinality(CurrentTrials')
         /\ state' = "half-open"
<1>1. /\ halfOpenInFlight' = OneSlotFewer
      /\ UNCHANGED <<state, halfOpenGeneration>>
  BY DEF FreeTrialSlot
<1>2. c \in CurrentTrials
  BY DEF CurrentTrials, Settle
<1>3. CurrentTrials' = CurrentTrials \ {c}
  BY <1>1, SettleTrials DEF IInv
<1>4. Cardinality(CurrentTrials \ {c}) = Cardinality(CurrentTrials) - 1
  BY <1>2, TrialsFinite, FS_RemoveElement
<1>5. Cardinality(CurrentTrials \ {c}) \in Nat
  BY TrialsFinite, FS_RemoveElement, FS_CardinalityType
<1>6. halfOpenInFlight = Cardinality(CurrentTrials)
  BY DEF IInv, SlotAccounting
<1>7. halfOpenInFlight' = halfOpenInFlight - 1
  BY <1>1, <1>4, <1>5, <1>6, TrialsFinite DEF OneSlotFewer
<1> QED
  BY <1>1, <1>2, <1>3, <1>4, <1>6, <1>7

(* Recording an outcome either ends the episode or happens outside one.    *)
LEMMA RecordEndsEpisode ==
  ASSUME RecordSuccess \/ RecordClassifiedFailure
  PROVE  /\ state' # "half-open"
         /\ state = "half-open" => state' \in {"closed", "open"}
         /\ state = "open" => state' = "open"
         /\ state = "closed" => state' \in {"closed", "open"}
  BY DEF RecordSuccess, RecordClassifiedFailure, breaker

LEMMA AccountingStep ==
  ASSUME IInv, [Next]_vars
  PROVE  SlotAccounting'
<1> USE DEF IInv
<1>1. ASSUME NEW c \in Callers, TryAcquire(c) PROVE SlotAccounting'
  <2>1. CASE AdmitClosed(c)
    BY <2>1 DEF AdmitClosed, SlotAccounting, breaker
  <2>2. CASE AdmitFirstTrial(c)
    <3>1. CurrentTrials' = {c} /\ halfOpenInFlight' = 1
      BY <2>2, FirstTrial DEF AdmitFirstTrial
    <3> QED
      BY <3>1, FS_Singleton DEF SlotAccounting
  <2>3. CASE AdmitTrial(c)
    <3>1. halfOpenGeneration # NoTrial
      BY <2>3, GenerationsAssumption DEF AdmitTrial, GenerationGiven, NoTrial
    <3>2. /\ Grant(c, halfOpenGeneration)
          /\ UNCHANGED <<state, halfOpenGeneration>>
          /\ state = "half-open"
          /\ halfOpenInFlight' = halfOpenInFlight + 1
      BY <2>3 DEF AdmitTrial
    <3>3. c \notin CurrentTrials
      BY <1>1 DEF TryAcquire, CurrentTrials
    <3>4. CurrentTrials' = CurrentTrials \cup {c}
      BY <3>1, <3>2, GrantTrials
    <3>5. Cardinality(CurrentTrials') = Cardinality(CurrentTrials) + 1
      BY <3>3, <3>4, TrialsFinite, FS_AddElement
    <3> QED
      BY <3>2, <3>5 DEF SlotAccounting
  <2> QED
    BY <1>1, <2>1, <2>2, <2>3 DEF TryAcquire
<1>2. ASSUME NEW c \in Callers, SettleSomehow(c) PROVE SlotAccounting'
  <2>1. Settle(c)
    BY <1>2, SettleCases
  <2>2. CASE RecordSuccess \/ RecordClassifiedFailure
    BY <2>2, RecordEndsEpisode DEF SlotAccounting
  <2>3. CASE ~MayRecord(c) /\ UNCHANGED breaker
    BY <2>1, <2>3, OutsiderSettles DEF MayRecord, SlotAccounting, breaker
  <2>4. CASE FreeTrialSlot(c)
    <3>1. CASE state = "half-open" /\ IsCurrentTrial(c)
      BY <2>1, <2>4, <3>1, TrialYields DEF SlotAccounting
    <3>2. CASE ~(state = "half-open" /\ IsCurrentTrial(c))
      <4>1. UNCHANGED breaker
        BY <2>4, <3>2 DEF FreeTrialSlot
      <4> QED
        BY <2>1, <3>2, <4>1, OutsiderSettles DEF SlotAccounting, breaker
    <3> QED
      BY <3>1, <3>2
  <2> QED
    BY <1>2, <2>2, <2>3, <2>4, SettleCases
<1>3. CASE Tick
  BY <1>3 DEF Tick, SlotAccounting
<1>4. CASE Expire
  BY <1>4 DEF Expire, SlotAccounting, CurrentTrials, IsCurrentTrial
<1>5. CASE UNCHANGED vars
  BY <1>5 DEF vars, breaker, SlotAccounting, CurrentTrials, IsCurrentTrial
<1> QED
  BY <1>1, <1>2, <1>3, <1>4, <1>5 DEF Next

LEMMA GenerationStep ==
  ASSUME IInv, [Next]_vars
  PROVE  GenerationGiven'
<1> USE DEF IInv, GenerationGiven
<1>1. ASSUME NEW c \in Callers, TryAcquire(c) PROVE GenerationGiven'
  <2>1. CASE AdmitClosed(c)
    BY <2>1 DEF AdmitClosed, breaker
  <2>2. CASE AdmitFirstTrial(c)
    BY <2>2, FirstTrial
  <2>3. CASE AdmitTrial(c)
    BY <2>3 DEF AdmitTrial
  <2> QED
    BY <1>1, <2>1, <2>2, <2>3 DEF TryAcquire
<1>2. ASSUME NEW c \in Callers, SettleSomehow(c) PROVE GenerationGiven'
  <2>1. CASE RecordSuccess \/ RecordClassifiedFailure
    BY <2>1, RecordEndsEpisode
  <2>2. CASE UNCHANGED breaker
    BY <2>2 DEF breaker
  <2>3. CASE FreeTrialSlot(c)
    BY <2>3 DEF FreeTrialSlot, breaker
  <2> QED
    BY <1>2, <2>1, <2>2, <2>3, SettleCases
<1>3. CASE Tick \/ Expire
  BY <1>3 DEF Tick, Expire
<1>4. CASE UNCHANGED vars
  BY <1>4 DEF vars, breaker
<1> QED
  BY <1>1, <1>2, <1>3, <1>4 DEF Next

LEMMA Inductive == Spec => []IInv
<1>1. Init => IInv
  BY ConfigAssumption, EvidencePositive
  DEF Init, IInv, TypeOK, SlotAccounting, GenerationGiven, Permit, NoPermit
<1>2. IInv /\ [Next]_vars => IInv'
  BY TypeStep, AccountingStep, GenerationStep DEF IInv
<1> QED
  BY <1>1, <1>2, PTL DEF Spec

(* No trial slot is ever leaked, freed twice or freed by a permit of       *)
(* another episode, however many callers there are.                        *)
THEOREM SlotsAccounted == Spec => []SlotAccounting
<1>1. IInv => SlotAccounting
  BY DEF IInv
<1> QED
  BY <1>1, Inductive, PTL

-----------------------------------------------------------------------------
(* The counter and the generations implement the abstract episodes *)

(* Outside half-open there are no trials; inside, the mapping is the       *)
(* identity.                                                               *)
LEMMA TrialsInEpisode ==
  /\ state = "half-open" => EpisodeTrials = CurrentTrials
  /\ state # "half-open" => EpisodeTrials = {}
  /\ state' = "half-open" => EpisodeTrials' = CurrentTrials'
  /\ state' # "half-open" => EpisodeTrials' = {}
  BY DEF EpisodeTrials

(* The abstract module counts a set as this one does.                      *)
LEMMA SameCardinality ==
  ASSUME NEW S
  PROVE  Episodes!Cardinality(S) = Cardinality(S)
  BY DEF Episodes!Cardinality, Cardinality

LEMMA EpisodeStep ==
  ASSUME IInv, [Next]_vars
  PROVE  [Episodes!Next]_(Episodes!vars)
<1> USE DEF Episodes!Next, Episodes!vars
<1>1. ASSUME NEW c \in Callers, TryAcquire(c)
      PROVE  [Episodes!Next]_(Episodes!vars)
  <2>1. CASE AdmitClosed(c)
    BY <2>1, TrialsInEpisode DEF AdmitClosed, breaker
  <2>2. CASE AdmitFirstTrial(c)
    <3>1. Episodes!Probe(c)
      BY <2>2, FirstTrial, TrialsInEpisode
      DEF IInv, AdmitFirstTrial, Episodes!Probe
    <3> QED
      BY <3>1
  <2>3. CASE AdmitTrial(c)
    <3>1. halfOpenGeneration # NoTrial
      BY <2>3, GenerationsAssumption DEF IInv, AdmitTrial, GenerationGiven, NoTrial
    <3>2. CurrentTrials' = CurrentTrials \cup {c}
      BY <2>3, <3>1, GrantTrials DEF IInv, AdmitTrial
    <3>3. c \notin CurrentTrials
      BY <1>1 DEF TryAcquire, CurrentTrials
    <3>4. Cardinality(CurrentTrials) < HalfOpenMaxAttempts
      BY <2>3 DEF IInv, SlotAccounting, AdmitTrial
    <3>5. Episodes!Join(c)
      BY <2>3, <3>2, <3>3, <3>4, TrialsInEpisode, SameCardinality
      DEF AdmitTrial, Episodes!Join
    <3> QED
      BY <3>5
  <2> QED
    BY <1>1, <2>1, <2>2, <2>3 DEF TryAcquire
<1>2. ASSUME NEW c \in Callers, SettleSomehow(c)
      PROVE  [Episodes!Next]_(Episodes!vars)
  <2>1. Settle(c)
    BY <1>2, SettleCases
  <2>2. CASE MayRecord(c) /\ (RecordSuccess \/ RecordClassifiedFailure)
    <3>1. CASE state = "half-open"
      <4>1. c \in CurrentTrials
        BY <2>1, <2>2, <3>1 DEF MayRecord, CurrentTrials, Settle
      <4>2. Episodes!Decide(c)
        BY <2>2, <3>1, <4>1, RecordEndsEpisode, TrialsInEpisode
        DEF Episodes!Decide
      <4> QED
        BY <4>2
    <3>2. CASE state = "closed"
      <4>1. state' = "open" => Episodes!Trip
        BY <3>2, TrialsInEpisode DEF Episodes!Trip
      <4>2. state' = "closed" => UNCHANGED Episodes!vars
        BY <3>2, TrialsInEpisode
      <4> QED
        BY <2>2, <3>2, <4>1, <4>2, RecordEndsEpisode
    <3>3. CASE state = "open"
      BY <2>2, <3>3, RecordEndsEpisode, TrialsInEpisode
    <3> QED
      BY <3>1, <3>2, <3>3 DEF IInv, TypeOK
  <2>3. CASE ~MayRecord(c) /\ UNCHANGED breaker
    BY <2>1, <2>3, OutsiderSettles, TrialsInEpisode DEF IInv, MayRecord, breaker
  <2>4. CASE FreeTrialSlot(c)
    <3>1. CASE state = "half-open" /\ IsCurrentTrial(c)
      <4>1. Episodes!Yield(c)
        BY <2>1, <2>4, <3>1, TrialYields, TrialsInEpisode DEF Episodes!Yield
      <4> QED
        BY <4>1
    <3>2. CASE ~(state = "half-open" /\ IsCurrentTrial(c))
      <4>1. UNCHANGED <<state, halfOpenGeneration>>
        BY <2>4, <3>2 DEF FreeTrialSlot, breaker
      <4>2. state = "half-open" => CurrentTrials' = CurrentTrials
        BY <2>1, <3>2, <4>1, OutsiderSettles DEF IInv
      <4> QED
        BY <4>1, <4>2, TrialsInEpisode
    <3> QED
      BY <3>1, <3>2
  <2> QED
    BY <1>2, <2>2, <2>3, <2>4, SettleCases
<1>3. CASE Tick
  BY <1>3, TrialsInEpisode DEF Tick
<1>4. CASE Expire
  BY <1>4, TrialsInEpisode DEF Expire, CurrentTrials, IsCurrentTrial
<1>5. CASE UNCHANGED vars
  BY <1>5, TrialsInEpisode DEF vars, breaker, CurrentTrials, IsCurrentTrial
<1> QED
  BY <1>1, <1>2, <1>3, <1>4, <1>5 DEF Next

(* Every behaviour of the breaker is a behaviour of BreakerEpisodes: an    *)
(* episode is ended, joined and left by its own trials alone.              *)
THEOREM EpisodesImplemented == Spec => ImplementsEpisodes
<1>1. Init => Episodes!Init
  BY DEF Init, Episodes!Init, EpisodeTrials
<1>2. IInv /\ [Next]_vars => [Episodes!Next]_(Episodes!vars)
  BY EpisodeStep
<1> QED
  BY <1>1, <1>2, Inductive, PTL DEF Spec, ImplementsEpisodes, Episodes!Spec

-----------------------------------------------------------------------------
(* A closed breaker trips on fresh evidence only *)

(* What counts against the host was recorded since the breaker closed.     *)
EvidenceIsFresh ==
  (state = "closed" /\ sinceClose < EvidenceNeeded) =>
    IF windowMode THEN Len(window) <= sinceClose
                  ELSE consecutiveFailures <= sinceClose

(* An outcome lengthens the window by at most one.                         *)
LEMMA RememberLength ==
  ASSUME TypeOK, NEW failed \in BOOLEAN
  PROVE  Len(Remember(failed)) <= Len(window) + 1
<1>1. CASE ~windowMode
  BY <1>1 DEF TypeOK, Remember
<1>2. CASE windowMode /\ Len(window) < WindowCapacity
  BY <1>2 DEF TypeOK, Remember
<1>3. CASE windowMode /\ ~(Len(window) < WindowCapacity)
  <2>1. window # <<>> /\ Len(window) \in Nat
    BY <1>3, ConfigAssumption DEF TypeOK
  <2>2. Tail(window) \in Seq(BOOLEAN) /\ Len(Tail(window)) = Len(window) - 1
    BY <2>1 DEF TypeOK
  <2>3. Len(Append(Tail(window), failed)) = Len(window)
    BY <2>1, <2>2
  <2> QED
    BY <1>3, <2>1, <2>3 DEF Remember
<1> QED
  BY <1>1, <1>2, <1>3

(* Recording one more outcome keeps the evidence fresh, before and after   *)
(* the breaker judges it.                                                  *)
LEMMA RecordKeepsFresh ==
  ASSUME TypeOK, EvidenceIsFresh, state = "closed",
         RecordSuccess \/ RecordClassifiedFailure,
         sinceClose' < EvidenceNeeded
  PROVE  IF windowMode THEN Len(window') <= sinceClose'
                       ELSE consecutiveFailures' <= sinceClose'
<1> USE EvidencePositive, ConfigAssumption
<1>1. /\ sinceClose' = AtMost(EvidenceNeeded, sinceClose + 1)
      /\ \/ /\ window' = Remember(FALSE)
            /\ consecutiveFailures' = 0
         \/ /\ window' = Remember(TRUE)
            /\ consecutiveFailures' = AtMost(FailureThreshold, consecutiveFailures + 1)
  BY DEF RecordSuccess, RecordClassifiedFailure
<1>2. /\ sinceClose \in Nat
      /\ consecutiveFailures \in Nat
      /\ Len(window) \in Nat
  BY DEF TypeOK
<1>3. /\ sinceClose' = sinceClose + 1
      /\ sinceClose < EvidenceNeeded
  BY <1>1, <1>2 DEF AtMost
<1>4. CASE windowMode
  <2>1. Len(window') <= Len(window) + 1 /\ Len(window') \in Nat
    <3>1. PICK failed \in BOOLEAN : window' = Remember(failed)
      BY <1>1
    <3>2. Remember(failed) \in Seq(BOOLEAN) /\ Len(Remember(failed)) <= Len(window) + 1
      BY RememberLength, WindowType
    <3> QED
      BY <3>1, <3>2
  <2>2. Len(window) <= sinceClose
    BY <1>3, <1>4 DEF EvidenceIsFresh
  <2> QED
    BY <1>2, <1>3, <1>4, <2>1, <2>2
<1>5. CASE ~windowMode
  <2>1. consecutiveFailures <= sinceClose
    BY <1>3, <1>5 DEF EvidenceIsFresh
  <2>2. consecutiveFailures' \in Nat /\ consecutiveFailures' <= consecutiveFailures + 1
    <3>1. CASE consecutiveFailures' = 0
      BY <1>2, <3>1
    <3>2. CASE consecutiveFailures' = AtMost(FailureThreshold, consecutiveFailures + 1)
      BY <1>2, <3>2 DEF AtMost
    <3> QED
      BY <1>1, <3>1, <3>2
  <2> QED
    BY <1>2, <1>3, <1>5, <2>1, <2>2
<1> QED
  BY <1>4, <1>5

LEMMA FreshStep ==
  ASSUME TypeOK, EvidenceIsFresh, [Next]_vars
  PROVE  EvidenceIsFresh'
<1> USE EvidencePositive
<1>0. windowMode' = windowMode /\ EvidenceNeeded' = EvidenceNeeded
  BY ConfigKept
<1> USE <1>0
<1>1. ASSUME NEW c \in Callers, TryAcquire(c) PROVE EvidenceIsFresh'
  <2>1. CASE AdmitClosed(c)
    BY <2>1 DEF AdmitClosed, EvidenceIsFresh, breaker
  <2>2. CASE AdmitFirstTrial(c) \/ AdmitTrial(c)
    BY <2>2 DEF AdmitFirstTrial, AdmitTrial, EvidenceIsFresh
  <2> QED
    BY <1>1, <2>1, <2>2 DEF TryAcquire
<1>2. ASSUME NEW c \in Callers, SettleSomehow(c) PROVE EvidenceIsFresh'
  <2>1. CASE RecordSuccess \/ RecordClassifiedFailure
    <3>1. CASE state = "closed"
      BY <2>1, <3>1, RecordKeepsFresh DEF EvidenceIsFresh
    <3>2. CASE state = "half-open"
      BY <2>1, <3>2
      DEF RecordSuccess, RecordClassifiedFailure, ResetCounters, EvidenceIsFresh
    <3>3. CASE state = "open"
      BY <2>1, <3>3, RecordEndsEpisode DEF EvidenceIsFresh
    <3> QED
      BY <3>1, <3>2, <3>3 DEF TypeOK
  <2>2. CASE UNCHANGED breaker
    BY <2>2 DEF breaker, EvidenceIsFresh
  <2>3. CASE FreeTrialSlot(c)
    BY <2>3 DEF FreeTrialSlot, breaker, EvidenceIsFresh
  <2> QED
    BY <1>2, <2>1, <2>2, <2>3, SettleCases
<1>3. CASE Tick
  BY <1>3 DEF Tick, EvidenceIsFresh
<1>4. CASE Expire
  <2>1. Len(window') = Len(window) - 1 /\ Len(window) \in Nat
    BY <1>4 DEF Expire, TypeOK
  <2>2. UNCHANGED <<state, sinceClose, consecutiveFailures>>
    BY <1>4 DEF Expire
  <2> QED
    BY <2>1, <2>2 DEF EvidenceIsFresh, TypeOK
<1>5. CASE UNCHANGED vars
  BY <1>5 DEF vars, breaker, EvidenceIsFresh
<1> QED
  BY <1>1, <1>2, <1>3, <1>4, <1>5 DEF Next

(* A closed breaker opens only by recording a failure that trips it.       *)
LEMMA OnlyFailuresTrip ==
  ASSUME TypeOK, [Next]_vars, state = "closed", state' = "open"
  PROVE  /\ RecordClassifiedFailure
         /\ TripCondition(consecutiveFailures', window')
<1>1. ASSUME NEW c \in Callers PROVE ~TryAcquire(c)
  BY DEF TryAcquire, AdmitClosed, AdmitFirstTrial, AdmitTrial, breaker
<1>2. ~Tick /\ ~Expire /\ ~UNCHANGED vars
  BY DEF Tick, Expire, vars, breaker
<1>3. PICK c \in Callers : SettleSomehow(c)
  BY <1>1, <1>2 DEF Next
<1>4. RecordClassifiedFailure
  BY <1>3, SettleCases DEF FreeTrialSlot, RecordSuccess, breaker
<1> QED
  BY <1>4 DEF RecordClassifiedFailure

(* A breaker that has closed does not reopen before it has recorded as     *)
(* many outcomes as its trip condition asks for, in either mode.           *)
THEOREM FreshEvidence == Spec => TripsOnFreshEvidence
<1> DEFINE Judged == (state = "closed" /\ state' = "open") => sinceClose' >= EvidenceNeeded
<1>1. Init => EvidenceIsFresh
  BY ConfigAssumption DEF Init, EvidenceIsFresh
<1>2. TypeOK /\ EvidenceIsFresh /\ [Next]_vars => EvidenceIsFresh'
  BY FreshStep
<1>3. TypeOK /\ TypeOK' /\ EvidenceIsFresh /\ [Next]_vars => Judged
  <2> SUFFICES ASSUME TypeOK, TypeOK', EvidenceIsFresh, [Next]_vars,
                      state = "closed", state' = "open",
                      ~(sinceClose' >= EvidenceNeeded)
               PROVE  FALSE
    OBVIOUS
  <2>0. EvidenceNeeded' = EvidenceNeeded
    BY ConfigKept
  <2>1. /\ RecordClassifiedFailure
        /\ TripCondition(consecutiveFailures', window')
    BY OnlyFailuresTrip
  <2>2. sinceClose' \in Nat /\ sinceClose' < EvidenceNeeded
    BY <2>0, EvidencePositive DEF TypeOK
  <2>3. IF windowMode THEN Len(window') <= sinceClose'
                      ELSE consecutiveFailures' <= sinceClose'
    BY <2>1, <2>2, RecordKeepsFresh
  <2>4. /\ Len(window') \in Nat
        /\ consecutiveFailures' \in Nat
    BY ConfigAssumption DEF TypeOK
  <2> QED
    BY <2>1, <2>2, <2>3, <2>4, ConfigAssumption DEF TripCondition, EvidenceNeeded
<1>4. TypeOK /\ TypeOK' /\ EvidenceIsFresh /\ [Next]_vars => [Judged]_vars
  BY <1>3
<1> QED
  BY <1>1, <1>2, <1>4, TypeCorrect, PTL DEF Spec, TripsOnFreshEvidence

=============================================================================
