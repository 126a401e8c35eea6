-------------------------- MODULE AttemptsProofs ---------------------------
(***************************************************************************)
(* Proofs about Configuration and Attempts, for every client, partition    *)
(* and request that may be configured, every host and every bound.         *)
(*                                                                         *)
(* That a configuration is usable once it was accepted needs no state: the *)
(* merged settings come, field by field, from layers that were validated.  *)
(* The rest is about one run of the attempts.  The inductive invariant has *)
(* a part for each question: what the settings allow (Settings), which     *)
(* attempts were made (Fresh), how often and with which key the request    *)
(* went out (Repeats), what the signal has done to the await (Signals),    *)
(* that no timer is overdue (Punctual), and where the bodies are (Bodies). *)
(***************************************************************************)
EXTENDS Attempts, FiniteSetTheorems, TLAPS

-----------------------------------------------------------------------------
(* What was accepted is usable *)

(* What a spread object has under a key comes from one of its two sides.   *)
LEMMA SpreadGet ==
  ASSUME NEW under, NEW over, NEW key
  PROVE  Get(Spread(under, over), key) \in {Get(under, key), Get(over, key)}
BY DEF Get, Spread

(* The empty object has no keys.                                           *)
LEMMA NothingThere ==
  ASSUME NEW key
  PROVE  Get(<<>>, key) = Undefined
BY DEF Get

(* What the three layers make of a group's setting is what one of them     *)
(* says.                                                                   *)
LEMMA LayeredGet ==
  ASSUME NEW l, NEW group, NEW key
  PROVE  Get(Layered(l, group), key) \in {Get(Sub(l.client, group), key),
                                          Get(Sub(PartitionOf(l), group), key),
                                          Get(Sub(l.request, group), key)}
BY SpreadGet DEF Layered

(* A nested group is the one of a layer, or absent.                        *)
LEMMA LayeredSub ==
  ASSUME NEW l, NEW group, NEW key
  PROVE  Sub(Layered(l, group), key) \in {Sub(Sub(l.client, group), key),
                                          Sub(Sub(PartitionOf(l), group), key),
                                          Sub(Sub(l.request, group), key), <<>>}
BY DEF Layered, Sub, Spread

(* Both the listed and the fallback partition are validated.               *)
LEMMA PartitionAccepted ==
  ASSUME NEW l, AcceptedBy(l)
  PROVE  ValidPartition(PartitionOf(l))
BY DEF AcceptedBy, PartitionOf

(* A merged timer is one setTimeout can hold.                              *)
LEMMA TimersAccepted ==
  ASSUME NEW l, AcceptedBy(l), ValidRequest(l.request)
  PROVE  TimersFit(Timeouts(l))
<1> DEFINE Fits(ms) == ms \in {Undefined, Infinity, Half} \cup 1..MaxTimer
<1>1. ASSUME NEW o, ValidTimeout(o)
      PROVE  Fits(Get(o, "attemptMs")) /\ Fits(Get(o, "totalMs"))
  BY <1>1, MaxTimerAssumption DEF ValidTimeout, Unless, ValidTimer, Positive, Get
<1>2. /\ ValidTimeout(Sub(l.client, "timeout"))
      /\ ValidTimeout(Sub(PartitionOf(l), "timeout"))
      /\ ValidTimeout(Sub(l.request, "timeout"))
  BY PartitionAccepted
  DEF AcceptedBy, ValidClient, ValidPartition, ValidGroups, ValidRequest, Unless, Optional
<1>3. \A key \in {"attemptMs", "totalMs"} : Fits(Get(Layered(l, "timeout"), key))
  <2> TAKE key \in {"attemptMs", "totalMs"}
  <2>1. /\ Fits(Get(Sub(l.client, "timeout"), key))
        /\ Fits(Get(Sub(PartitionOf(l), "timeout"), key))
        /\ Fits(Get(Sub(l.request, "timeout"), key))
    BY <1>1, <1>2
  <2> QED
    BY <2>1, LayeredGet
<1> QED
  BY <1>3 DEF TimersFit, Timeouts

(* Merged retries can be counted, and their delays are numbers.            *)
LEMMA RetriesAccepted ==
  ASSUME NEW l, AcceptedBy(l), ValidRequest(l.request)
  PROVE  RetriesUsable(Retries(l))
<1>1. /\ ValidRetry(Sub(l.client, "retry"))
      /\ ValidRetry(Sub(PartitionOf(l), "retry"))
      /\ ValidRetry(Sub(l.request, "retry"))
  BY PartitionAccepted
  DEF AcceptedBy, ValidClient, ValidPartition, ValidGroups, ValidRequest, Unless, Optional
<1>2. OrElse(Get(Retries(l), "maxRetries"), 3) \in Nat
  <2>1. ASSUME NEW o, ValidRetry(o)
        PROVE  Get(o, "maxRetries") \in Nat \cup {Undefined}
    BY <2>1 DEF ValidRetry, Unless, Get
  <2>2. Get(Retries(l), "maxRetries") \in Nat \cup {Undefined}
    BY <1>1, <2>1, LayeredGet DEF Retries
  <2> QED
    BY <2>2 DEF OrElse
<1>3. NaN \notin {Get(Sub(Retries(l), "backoff"), "baseDelayMs"),
                  Get(Sub(Retries(l), "backoff"), "maxDelayMs")}
  <2>1. ASSUME NEW o, ValidBackoff(o), NEW key \in {"baseDelayMs", "maxDelayMs"}
        PROVE  Get(o, key) # NaN
    <3>1. /\ Get(o, "baseDelayMs") = Undefined \/ NonNegative(Get(o, "baseDelayMs"))
          /\ Get(o, "maxDelayMs") = Undefined \/ NonNegative(Get(o, "maxDelayMs"))
      BY <2>1 DEF ValidBackoff, Unless, Get
    <3>2. \A x : NonNegative(x) => x # NaN
      BY ValuesAssumption DEF NonNegative
    <3> QED
      BY <2>1, <3>1, <3>2, ValuesAssumption
  <2>2. \A key \in {"baseDelayMs", "maxDelayMs"} : Get(<<>>, key) # NaN
    BY NothingThere, ValuesAssumption
  <2>3. Sub(Retries(l), "backoff") = <<>> \/ ValidBackoff(Sub(Retries(l), "backoff"))
    BY <1>1, LayeredSub DEF Retries, ValidRetry
  <2> QED
    BY <2>1, <2>2, <2>3
<1> QED
  BY <1>2, <1>3 DEF RetriesUsable

(* A merged breaker can trip, and leave open and half-open.                *)
LEMMA BreakerAccepted ==
  ASSUME NEW l, AcceptedBy(l)
  PROVE  BreakerUsable(Breaker(l))
<1> DEFINE o == Breaker(l)
           IsWindow(w) == w # Undefined => Finite(w.sizeMs) /\ Positive(w.sizeMs)
<1>1. ASSUME NEW b, ValidBreaker(b)
      PROVE  /\ Get(b, "failureThreshold") \in (Nat \ {0}) \cup {Undefined}
             /\ Get(b, "halfOpenMaxAttempts") \in (Nat \ {0}) \cup {Undefined}
             /\ LET reset == Get(b, "resetTimeoutMs")
                IN reset = Undefined \/ (Finite(reset) /\ Positive(reset))
             /\ IsWindow(Get(b, "window"))
  <2>1. ASSUME NEW w, ValidWindow(w) PROVE Finite(w.sizeMs) /\ Positive(w.sizeMs)
    BY <2>1, ValuesAssumption DEF ValidWindow, Finite, Get
  <2>2. IsWindow(Get(b, "window"))
    BY <1>1, <2>1 DEF ValidBreaker, Unless, Get
  <2> QED
    BY <1>1, <2>2 DEF ValidBreaker, Unless, PositiveInteger, Get
<1>2. /\ ValidBreaker(Sub(l.client, "circuitBreaker"))
      /\ ValidBreaker(Sub(PartitionOf(l), "circuitBreaker"))
  BY PartitionAccepted DEF AcceptedBy, ValidClient, ValidPartition, ValidGroups, Unless, Optional
<1>3. \A key : Get(o, key) \in {Get(Sub(l.client, "circuitBreaker"), key),
                                Get(Sub(PartitionOf(l), "circuitBreaker"), key)}
  BY SpreadGet DEF Breaker
<1>4. /\ OrElse(Get(o, "failureThreshold"), 5) \in Nat \ {0}
      /\ OrElse(Get(o, "halfOpenMaxAttempts"), 1) \in Nat \ {0}
  <2>1. /\ Get(o, "failureThreshold") \in (Nat \ {0}) \cup {Undefined}
        /\ Get(o, "halfOpenMaxAttempts") \in (Nat \ {0}) \cup {Undefined}
    BY <1>1, <1>2, <1>3
  <2> QED
    BY <2>1 DEF OrElse
<1>5. LET reset == OrElse(Get(o, "resetTimeoutMs"), 30) IN Finite(reset) /\ Positive(reset)
  <2>1. LET reset == Get(o, "resetTimeoutMs")
        IN reset = Undefined \/ (Finite(reset) /\ Positive(reset))
    BY <1>1, <1>2, <1>3
  <2>2. Finite(30) /\ Positive(30)
    BY DEF Finite, Positive
  <2> QED
    BY <2>1, <2>2 DEF OrElse
<1>6. IsWindow(Get(o, "window"))
  BY <1>1, <1>2, <1>3
<1>7. Get(o, "window") # Undefined => o["window"] = Get(o, "window")
  BY DEF Get
<1> QED
  BY <1>4, <1>5, <1>6, <1>7 DEF BreakerUsable

(* A merged optional group is undefined, or the spread of two that are     *)
(* each absent or valid, and not both absent.                              *)
LEMMA OptionalGroups ==
  ASSUME NEW g, NEW p, MergeOptional(g, p) # Undefined
  PROVE  /\ g # Off /\ p # Off /\ ~(g = Undefined /\ p = Undefined)
         /\ MergeOptional(g, p) = Spread(OrElse(g, <<>>), OrElse(p, <<>>))
BY DEF MergeOptional

(* A merged budget has a window with a length.                             *)
LEMMA BudgetAccepted ==
  ASSUME NEW l, AcceptedBy(l)
  PROVE  BudgetUsable(Both(l, "retryBudget"))
<1> DEFINE g == Get(l.client, "retryBudget")
           p == Get(PartitionOf(l), "retryBudget")
           o == MergeOptional(g, p)
           Good(b) == "windowMs" \in DOMAIN b /\ Finite(b["windowMs"]) /\ Positive(b["windowMs"])
<1> SUFFICES ASSUME o # Undefined
             PROVE  Finite(o["windowMs"]) /\ Positive(o["windowMs"])
  BY DEF BudgetUsable, Both
<1>1. ASSUME NEW b, ValidBudget(b) PROVE Good(b)
  BY <1>1, ValuesAssumption DEF ValidBudget, Finite, Get
<1>2. /\ g \in {Undefined, Off} \/ ValidBudget(g)
      /\ p \in {Undefined, Off} \/ ValidBudget(p)
  BY PartitionAccepted
  DEF AcceptedBy, ValidClient, ValidPartition, ValidGroups, Unless, Optional, Get
<1>3. /\ g = Undefined \/ Good(g)
      /\ p = Undefined \/ Good(p)
      /\ ~(g = Undefined /\ p = Undefined)
      /\ o = Spread(OrElse(g, <<>>), OrElse(p, <<>>))
  BY <1>1, <1>2, OptionalGroups
<1> HIDE DEF g, p, o
<1> QED
  BY <1>3 DEF Spread, OrElse

(* A merged rate fills a bucket that holds a token.                        *)
LEMMA RateAccepted ==
  ASSUME NEW l, AcceptedBy(l)
  PROVE  RateUsable(Both(l, "rateLimit"))
<1> DEFINE g == Get(l.client, "rateLimit")
           p == Get(PartitionOf(l), "rateLimit")
           o == MergeOptional(g, p)
           Rate(b) == /\ "tokensPerSec" \in DOMAIN b
                      /\ Finite(b["tokensPerSec"]) /\ Positive(b["tokensPerSec"])
           Burst(b) == Get(b, "burst") \in (Nat \ {0}) \cup {Undefined}
<1> SUFFICES ASSUME o # Undefined
             PROVE  /\ Finite(o["tokensPerSec"]) /\ Positive(o["tokensPerSec"])
                    /\ Get(o, "burst") # Undefined => o["burst"] \in Nat \ {0}
  BY DEF RateUsable, Both
<1>1. ASSUME NEW b, ValidRateLimit(b) PROVE Rate(b) /\ Burst(b)
  <2>1. Rate(b)
    BY <1>1, ValuesAssumption DEF ValidRateLimit, Finite, Get
  <2>2. Burst(b)
    BY <1>1 DEF ValidRateLimit, Unless, AtLeastOne, Get
  <2> QED
    BY <2>1, <2>2
<1>2. /\ g \in {Undefined, Off} \/ ValidRateLimit(g)
      /\ p \in {Undefined, Off} \/ ValidRateLimit(p)
  BY PartitionAccepted
  DEF AcceptedBy, ValidClient, ValidPartition, ValidGroups, Unless, Optional, Get
<1>3. /\ g = Undefined \/ (Rate(g) /\ Burst(g))
      /\ p = Undefined \/ (Rate(p) /\ Burst(p))
      /\ ~(g = Undefined /\ p = Undefined)
      /\ o = Spread(OrElse(g, <<>>), OrElse(p, <<>>))
  BY <1>1, <1>2, OptionalGroups
<1>4. Finite(o["tokensPerSec"]) /\ Positive(o["tokensPerSec"])
  <2> HIDE DEF g, p, o
  <2> QED
    BY <1>3 DEF Spread, OrElse
<1>5. Burst(o)
  <2>1. Burst(<<>>)
    BY NothingThere
  <2> HIDE DEF g, p, o
  <2>2. Burst(OrElse(g, <<>>)) /\ Burst(OrElse(p, <<>>))
    BY <1>3, <2>1 DEF OrElse
  <2> QED
    BY <1>3, <2>2, SpreadGet
<1>6. Get(o, "burst") # Undefined => o["burst"] = Get(o, "burst")
  BY DEF Get
<1> QED
  BY <1>4, <1>5, <1>6

(* There is a slot and a permit to give.                                   *)
LEMMA LimitsAccepted ==
  ASSUME NEW l, AcceptedBy(l)
  PROVE  LimitsUsable(Limits(l), GlobalLimits(l))
<1>1. /\ Get(PartitionOf(l), "concurrency") \in (Nat \ {0}) \cup {Undefined}
      /\ Get(PartitionOf(l), "maxQueueSize") \in (Nat \ {0}) \cup {Undefined}
  BY PartitionAccepted DEF ValidPartition, ValidGroups, Unless, Optional, PositiveInteger, Get
<1>2. /\ Get(l.client, "concurrency") \in (Nat \ {0}) \cup {Undefined}
      /\ Get(l.client, "maxQueueSize") \in Nat \cup {Undefined}
  BY DEF AcceptedBy, ValidClient, ValidGroups, Unless, Optional, PositiveInteger, Get
<1> QED
  BY <1>1, <1>2 DEF LimitsUsable, Limits, GlobalLimits, OrElse

(* Whatever was accepted layer by layer is usable once merged.             *)
THEOREM MergedIsUsable ==
  ASSUME NEW l, AcceptedBy(l), ValidRequest(l.request)
  PROVE  Usable(l)
<1>1. OffIsOff(l)
  BY DEF OffIsOff, Both, MergeOptional
<1> QED
  BY <1>1, TimersAccepted, RetriesAccepted, BreakerAccepted, BudgetAccepted, RateAccepted,
     LimitsAccepted
  DEF Usable

-----------------------------------------------------------------------------
(* The inductive invariant *)

Kinds == ErrorKinds \cup {"none", "success", "timeout", "cancelled"}

Keys == {"own", "generated", "none"}

Runs == [
  pc : Stages, n : Attempt, start : Nat, await : Awaits, kind : Kinds,
  status : {"none", "ok", "bad", "retryable"}, after : Nat \cup {Undefined},
  aborted : SUBSET Aborts, result : Kinds \cup {"deadline", "max_retries"},
  bodyDue : Nat, reason : {"none", "attempt", "total"}]

Sleepers == [for : {"none", "latency", "backoff"}, rest : Nat, due : Nat]

Hists == [
  first : Aborts \cup {"none"}, keys : SUBSET Keys, sends : Nat, kinds : SUBSET Kinds, wake : Nat]

HostStates == {"idle", "latency", "hang", "inner", "settled"}

BodyStates == {"none", "open", "read", "dead", "cancelled", "handed", "aborted"}

Typed ==
  /\ now \in 0..MaxNow
  /\ run \in Runs
  /\ host \in [Attempt -> HostStates]
  /\ body \in [Attempt -> BodyStates]
  /\ sleeper \in Sleepers
  /\ hist \in Hists

Made == run.pc \notin {"layers", "refused"}

(* The settings of a request that was made; the timers are usable because  *)
(* the configuration was accepted.                                         *)
Settings ==
  /\ run.pc = "layers" => now = 0
  /\ ~Made => run.n = 0 /\ run.aborted = {} /\ hist.sends = 0
  /\ Made =>
       /\ job.maxRetries \in 0..MaxRetries /\ job.cap \in Nat /\ job.key \in Keys
       /\ Bounded(AttemptMs) => AttemptMs \in Nat \ {0}
       /\ Bounded(TotalMs) => TotalMs \in Nat \ {0}
       /\ run.n <= job.maxRetries
       /\ run.pc = "backoff" => run.n < job.maxRetries

(* An attempt that has not been made has no call and no body.              *)
Fresh ==
  \A m \in Attempt :
    m > run.n \/ (m = run.n /\ run.pc \in {"layers", "refused", "ready"}) =>
      host[m] = "idle" /\ body[m] = "none"

MayRepeat == job.safe \/ job.idempotent \/ job.key # "none"

(* How often the request went out, and with which key.                     *)
Repeats ==
  /\ hist.sends <= IF run.pc = "ready" THEN run.n ELSE run.n + 1
  /\ run.n > 0 \/ run.pc = "backoff" => MayRepeat
  /\ hist.keys = IF hist.sends = 0 THEN {} ELSE {job.key}
  /\ hist.kinds \subseteq RetriableKinds

(* What has fired the attempt's signal, and that it has settled what was   *)
(* awaited.                                                                *)
Signals ==
  /\ run.pc = "ready" => run.aborted \subseteq {"cancel"}
  /\ InAttempt =>
       /\ run.await = "pending" => run.aborted = {}
       /\ run.aborted = {} => hist.first = "none"
       /\ "timer" \in run.aborted => hist.first = "timer"

(* No timer is overdue.                                                    *)
Punctual ==
  /\ InAttempt => now <= AttemptBound
  /\ Live => now <= TotalBound

(* Where a body can be, and what bounds it in the caller's hands.          *)
Bodies ==
  /\ \A m \in Attempt :
       /\ body[m] # "none" => host[m] = "settled"
       /\ body[m] = "handed" => m = run.n
       /\ body[m] = "open" =>
            /\ m = run.n
            /\ \/ run.pc = "fetch" /\ run.await = "fulfilled"
               \/ run.pc = "read" /\ run.await = "pending"
  /\ run.pc \in {"read", "parse"} \/ (run.pc = "fetch" /\ run.await = "fulfilled") =>
       host[run.n] = "settled"
  /\ body[run.n] \in {"handed", "aborted"} =>
       /\ run.pc \in {"over", "ended"} /\ run.kind \in {"success", "http"}
       /\ run.bodyDue = Smaller(AttemptBound, TotalBound)
       /\ run.reason = IF AttemptBound <= TotalBound THEN "attempt" ELSE "total"
  /\ body[run.n] = "handed" => now <= run.bodyDue
  /\ body[run.n] = "aborted" => now >= run.bodyDue

IInv ==
  /\ Typed /\ Settings /\ Fresh /\ Repeats /\ Signals /\ Punctual /\ Bodies /\ SleepKept

(* What only depends on the settings and the start of an attempt.          *)
LEMMA SameJob ==
  ASSUME UNCHANGED job
  PROVE  /\ AttemptMs' = AttemptMs /\ TotalMs' = TotalMs
         /\ Bounded(AttemptMs)' = Bounded(AttemptMs) /\ Bounded(TotalMs)' = Bounded(TotalMs)
         /\ TotalBound' = TotalBound /\ MayRepeat' = MayRepeat
         /\ run'.start = run.start => AttemptBound' = AttemptBound
BY DEF AttemptMs, TotalMs, Bounded, TotalBound, AttemptBound, MayRepeat

(* The times at which an attempt and a ticket run out are times.           *)
LEMMA BoundsAreTimes ==
  ASSUME Typed, Settings, Made
  PROVE  /\ AttemptBound \in Nat /\ TotalBound \in Nat
         /\ now < Never /\ Never \in Nat
BY AttemptsAssumption DEF Typed, Settings, Runs, AttemptBound, TotalBound, Never

-----------------------------------------------------------------------------
(* The timers *)

(* A piece of a long wait is over, and the next one is armed.              *)
LEMMA SleepOnKeeps ==
  ASSUME IInv, SleepOn
  PROVE  IInv'
<1>1. /\ Typed /\ Settings /\ Fresh /\ Repeats /\ Signals /\ Punctual /\ Bodies
      /\ SleepKept
  BY DEF IInv
<1>2. Typed'
  <2>1. sleeper' \in Sleepers
    BY <1>1, MaxTimerAssumption DEF Typed, Sleepers, Arm, Smaller, SleepOn
  <2> QED
    BY <1>1, <2>1 DEF Typed, SleepOn
<1>3. SleepKept'
  BY <1>1, MaxTimerAssumption DEF SleepKept, Typed, Sleepers, Hists, SleepOn, Arm, Smaller
<1>4. Settings' /\ Fresh' /\ Repeats' /\ Signals' /\ Punctual' /\ Bodies'
  BY <1>1, SameJob
  DEF Settings, Made, Fresh, Attempt, Repeats, Signals, InAttempt, Punctual, Live, Bodies,
    SleepOn
<1> QED
  BY <1>2, <1>3, <1>4 DEF IInv

(* The call that was held up goes to the host.                             *)
LEMMA LatencyOverKeeps ==
  ASSUME IInv, LatencyOver
  PROVE  IInv'
<1>1. /\ Typed /\ Settings /\ Fresh /\ Repeats /\ Signals /\ Punctual /\ Bodies
      /\ SleepKept
  BY DEF IInv
<1>2. /\ run.pc = "fetch" /\ run.await = "pending" /\ host[run.n] = "latency"
      /\ run.n \in Attempt
  BY <1>1 DEF LatencyOver, Awake, SleepKept, Typed, Runs
<1>3. /\ host' = [host EXCEPT ![run.n] = "inner"] /\ sleeper' = NoSleep
      /\ UNCHANGED <<now, job, run, body, hist>>
  BY DEF LatencyOver
<1>4. Typed'
  <2>1. NoSleep \in Sleepers
    BY AttemptsAssumption DEF NoSleep, Never, Sleepers
  <2> QED
    BY <1>1, <1>3, <2>1 DEF Typed, HostStates
<1>5. Settings' /\ Repeats' /\ Signals' /\ Punctual' /\ SleepKept'
  BY <1>1, <1>3, SameJob
  DEF Settings, Made, Repeats, Signals, Punctual, InAttempt, Live, SleepKept, NoSleep
<1>6. Fresh'
  BY <1>1, <1>2, <1>3, AttemptsAssumption DEF Fresh, Attempt, Typed
<1>7. Bodies'
  <2>1. body[run.n] = "none"
    BY <1>1, <1>2 DEF Bodies
  <2>2. \A m \in Attempt : host'[m] = IF m = run.n THEN "inner" ELSE host[m]
    BY <1>1, <1>3 DEF Typed
  <2> QED
    BY <1>1, <1>2, <1>3, <2>1, <2>2, SameJob DEF Bodies
<1> QED
  BY <1>4, <1>5, <1>6, <1>7 DEF IInv

(* The next attempt begins with nothing of the last one.                   *)
LEMMA RetryNowKeeps ==
  ASSUME IInv, RetryNow
  PROVE  IInv'
<1>1. /\ Typed /\ Settings /\ Fresh /\ Repeats /\ Signals /\ Punctual /\ Bodies
      /\ SleepKept
  BY DEF IInv
<1>2. /\ run.pc = "backoff" /\ run'.pc = "ready"
      /\ run.n \in Nat /\ run.n + 1 \in Attempt /\ run'.n = run.n + 1
      /\ run'.aborted = {} /\ sleeper'.for = "none"
      /\ UNCHANGED <<now, job, host, body, hist>>
  <2>1. run.pc = "backoff"
    BY <1>1 DEF RetryNow, Awake, SleepKept
  <2>2. run.n \in Nat /\ run.n + 1 \in Attempt
    BY <1>1, <2>1, AttemptsAssumption DEF Typed, Runs, Settings, Made, Attempt
  <2> QED
    BY <1>1, <2>1, <2>2 DEF RetryNow, NoSleep, Typed, Runs
<1>3. Typed'
  <2>1. /\ "ready" \in Stages /\ "none" \in Kinds /\ "pending" \in Awaits
        /\ {} \in SUBSET Aborts
    BY DEF Stages, Kinds, Awaits
  <2>2. run' \in Runs
    BY <1>1, <1>2, <2>1 DEF Typed, Runs, RetryNow
  <2>3. sleeper' \in Sleepers
    BY AttemptsAssumption DEF RetryNow, NoSleep, Never, Sleepers
  <2> QED
    BY <1>1, <1>2, <2>2, <2>3 DEF Typed
<1>4. Settings'
  BY <1>1, <1>2, SameJob DEF Settings, Made
<1>5. Fresh'
  BY <1>1, <1>2, AttemptsAssumption DEF Fresh, Attempt
<1>6. Repeats'
  BY <1>1, <1>2, SameJob DEF Repeats, Typed, Hists
<1>7. Signals' /\ Punctual' /\ SleepKept'
  BY <1>1, <1>2, SameJob DEF Signals, Punctual, SleepKept, InAttempt, Live
<1>8. Bodies'
  BY <1>1, <1>2, SameJob, AttemptsAssumption DEF Bodies, Fresh, Attempt
<1> QED
  BY <1>3, <1>4, <1>5, <1>6, <1>7, <1>8 DEF IInv

(* The timer of a body the caller holds.                                   *)
LEMMA BodyTimeoutKeeps ==
  ASSUME IInv, BodyTimeout
  PROVE  IInv'
<1>1. /\ Typed /\ Settings /\ Fresh /\ Repeats /\ Signals /\ Punctual /\ Bodies
      /\ SleepKept
  BY DEF IInv
<1>2. Typed'
  <2>1. body' \in [Attempt -> BodyStates]
    BY <1>1 DEF Typed, BodyStates, BodyTimeout
  <2> QED
    BY <1>1, <2>1 DEF Typed, BodyTimeout
<1>3. Fresh'
  BY <1>1, AttemptsAssumption DEF Fresh, Attempt, Typed, Runs, BodyTimeout
<1>4. Bodies'
  BY <1>1, SameJob, AttemptsAssumption DEF Bodies, Attempt, Typed, Runs, BodyTimeout
<1>5. Settings' /\ Repeats' /\ Signals' /\ Punctual' /\ SleepKept'
  BY <1>1, SameJob
  DEF Settings, Made, Repeats, Signals, InAttempt, Punctual, Live, SleepKept, BodyTimeout
<1> QED
  BY <1>2, <1>3, <1>4, <1>5 DEF IInv

(* The clock moves on only past no timer that is due.                      *)
LEMMA TickKeeps ==
  ASSUME IInv, Tick
  PROVE  IInv'
<1>1. /\ Typed /\ Settings /\ Fresh /\ Repeats /\ Signals /\ Punctual /\ Bodies
      /\ SleepKept
  BY DEF IInv
<1>2. Typed'
  <2> QED
    BY <1>1, AttemptsAssumption DEF Typed, Tick
<1>3. Settings'
  BY <1>1, SameJob DEF Settings, Made, Typed, Runs, Tick
<1>4. Punctual'
  <2>1. Live => Made
    BY DEF Live, Made
  <2>2. InAttempt => Live
    BY DEF InAttempt, Live
  <2> QED
    BY <1>1, <2>1, <2>2, SameJob, BoundsAreTimes
    DEF Punctual, Tick, NoTimerIsDue, Typed, InAttempt, Live
<1>5. Bodies'
  <2>1. now' = now + 1 /\ UNCHANGED <<job, run, host, body>>
    BY DEF Tick
  <2>2. /\ now \in Nat /\ run.bodyDue \in Nat
        /\ body[run.n] = "handed" => now < run.bodyDue
    BY <1>1 DEF Tick, NoTimerIsDue, Typed, Runs
  <2> QED
    BY <1>1, <2>1, <2>2, SameJob DEF Bodies
<1>6. SleepKept'
  BY <1>1 DEF SleepKept, Tick, NoTimerIsDue, Typed, Sleepers
<1>7. Fresh' /\ Repeats' /\ Signals'
  BY <1>1, SameJob DEF Fresh, Attempt, Repeats, Signals, InAttempt, Tick
<1> QED
  BY <1>2, <1>3, <1>4, <1>5, <1>6, <1>7 DEF IInv

(* An abort settles what is awaited; only cancel() comes outside of an     *)
(* attempt, and never during a backoff.                                    *)
LEMMA AbortKeeps ==
  ASSUME IInv, NEW source \in Aborts, Abort(source), UNCHANGED <<now, job>>,
         Live /\ run.pc # "backoff",
         source # "cancel" => InAttempt /\ run.await = "pending"
  PROVE  IInv'
<1>1. /\ Typed /\ Settings /\ Fresh /\ Repeats /\ Signals /\ Punctual /\ Bodies
      /\ SleepKept
  BY DEF IInv
<1>2. /\ run' = [run EXCEPT !.aborted = @ \cup {source},
                            !.await = IF InAttempt /\ @ = "pending" THEN "threw" ELSE @]
      /\ run' \in Runs
  <2>1. run' = [run EXCEPT !.aborted = @ \cup {source},
                           !.await = IF InAttempt /\ @ = "pending" THEN "threw" ELSE @]
    BY <1>1 DEF Abort, Interrupted, Typed, Runs
  <2>2. run.aborted \cup {source} \in SUBSET Aborts /\ "threw" \in Awaits
    BY <1>1 DEF Typed, Runs, Awaits
  <2> QED
    BY <1>1, <2>1, <2>2 DEF Typed, Runs
<1>3. /\ run'.pc = run.pc /\ run'.n = run.n /\ run'.start = run.start /\ run'.kind = run.kind
      /\ run'.bodyDue = run.bodyDue /\ run'.reason = run.reason
      /\ run'.aborted = run.aborted \cup {source}
      /\ run'.await = IF InAttempt /\ run.await = "pending" THEN "threw" ELSE run.await
      /\ InAttempt' = InAttempt /\ run.n \in Attempt
  BY <1>1, <1>2 DEF Typed, Runs, InAttempt
<1>4. /\ \A m \in Attempt :
           host'[m] = IF m = run.n /\ InAttempt /\ Rejects(m) THEN "settled" ELSE host[m]
      /\ host' \in [Attempt -> HostStates]
  BY <1>1 DEF Abort, Typed, HostStates
<1>5. /\ \A m \in Attempt :
           body'[m] = IF m = run.n /\ run.pc = "read" /\ run.await = "pending"
                      THEN "cancelled" ELSE body[m]
      /\ body' \in [Attempt -> BodyStates]
  BY <1>1 DEF Abort, Typed, BodyStates
<1>6. /\ hist' \in Hists
      /\ hist'.first = IF hist.first = "none" THEN source ELSE hist.first
      /\ hist'.keys = hist.keys /\ hist'.sends = hist.sends /\ hist'.kinds = hist.kinds
      /\ hist'.wake = hist.wake
  BY <1>1 DEF Abort, Typed, Hists
<1>7. Typed'
  <2>1. sleeper' \in Sleepers
    BY <1>1, AttemptsAssumption DEF Abort, Abandon, NoSleep, Never, Typed, Sleepers
  <2> QED
    BY <1>1, <1>2, <1>4, <1>5, <1>6, <2>1 DEF Typed
<1>8. Settings'
  BY <1>1, <1>3, <1>6, SameJob DEF Settings, Made, Live
<1>9. Fresh'
  BY <1>1, <1>3, <1>4, <1>5, AttemptsAssumption DEF Fresh, Attempt, InAttempt
<1>10. Repeats'
  BY <1>1, <1>3, <1>6, SameJob DEF Repeats
<1>11. Signals'
  BY <1>1, <1>3, <1>6 DEF Signals, Aborts, InAttempt
<1>12. Punctual'
  BY <1>1, <1>3, SameJob DEF Punctual, Live
<1>13. Bodies'
  BY <1>1, <1>3, <1>4, <1>5, SameJob DEF Bodies, InAttempt
<1>14. SleepKept'
  BY <1>1, <1>3, <1>6 DEF SleepKept, Abort, Abandon, NoSleep, Typed, Sleepers, InAttempt
<1> QED
  BY <1>7, <1>8, <1>9, <1>10, <1>11, <1>12, <1>13, <1>14 DEF IInv

(* The attempt's timer finds an await that nothing has settled.            *)
LEMMA AttemptTimeoutKeeps ==
  ASSUME IInv, AttemptTimeout
  PROVE  IInv'
BY AbortKeeps DEF AttemptTimeout, Busy, Resuming, InAttempt, Live, Aborts

(* So does the ticket's.                                                   *)
LEMMA DeadlineKeeps ==
  ASSUME IInv, Deadline
  PROVE  IInv'
BY AbortKeeps DEF Deadline, Busy, Resuming, InAttempt, Live, Aborts

-----------------------------------------------------------------------------
(* The caller and the host *)

(* A configuration or request that is refused.                             *)
LEMMA RefuseKeeps ==
  ASSUME IInv, Refuse
  PROVE  IInv'
<1>1. /\ Typed /\ Settings /\ Fresh /\ Repeats /\ Signals /\ Punctual /\ Bodies
      /\ SleepKept
  BY DEF IInv
<1>2. Typed'
  <2>1. run' \in Runs
    BY <1>1 DEF Typed, Runs, Stages, Kinds, ErrorKinds, Refuse
  <2> QED
    BY <1>1, <2>1 DEF Typed, Refuse
<1>3. Settings'
  BY <1>1, SameJob DEF Settings, Made, Typed, Runs, Refuse
<1>4. Fresh'
  BY <1>1, AttemptsAssumption DEF Fresh, Attempt, Typed, Runs, Refuse
<1>5. Repeats'
  BY <1>1, SameJob DEF Repeats, Typed, Runs, Refuse
<1>6. Signals'
  BY <1>1 DEF Signals, InAttempt, Typed, Runs, Refuse
<1>7. Punctual'
  BY <1>1, SameJob DEF Punctual, InAttempt, Live, Typed, Runs, Refuse
<1>8. Bodies'
  BY <1>1, SameJob, AttemptsAssumption DEF Bodies, Attempt, Typed, Runs, Refuse
<1>9. SleepKept'
  BY <1>1 DEF SleepKept, Typed, Runs, Refuse
<1> QED
  BY <1>2, <1>3, <1>4, <1>5, <1>6, <1>7, <1>8, <1>9 DEF IInv

(* What was accepted is usable, so the request's timers and limits are.    *)
LEMMA AcceptKeeps ==
  ASSUME IInv, Accept
  PROVE  IInv'
<1>1. /\ Typed /\ Settings /\ Fresh /\ Repeats /\ Signals /\ Punctual /\ Bodies
      /\ SleepKept
  BY DEF IInv
<1>2. PICK method \in AnyMethod, own, parse, honours \in BOOLEAN, type \in {"raw", "none", "json"} :
        Request(method \in IdempotentMethods, own, parse, honours, type)
  BY DEF Accept
<1>3. Usable(job) /\ run.pc = "layers"
  BY MergedIsUsable DEF Accept, Rejected
<1> DEFINE retry == Retries(job)
<1>4. /\ job'.timeout = Timeouts(job)
      /\ Half \notin {Get(Timeouts(job), "attemptMs"), Get(Timeouts(job), "totalMs")}
      /\ job'.maxRetries = OrElse(Get(retry, "maxRetries"), 3) /\ job'.maxRetries <= MaxRetries
      /\ job'.cap \in 0..MaxNow
      /\ job'.key = KeyFor(method \in IdempotentMethods, own, Get(retry, "idempotencyKey"))
      /\ run' = [run EXCEPT !.pc = "ready"]
      /\ UNCHANGED <<now, host, body, sleeper, hist>>
  BY <1>2 DEF Request
<1>5. /\ run' \in Runs /\ run'.pc = "ready" /\ run'.n = run.n /\ run'.start = run.start
      /\ run'.aborted = run.aborted
  <2>1. "ready" \in Stages
    BY DEF Stages
  <2> QED
    BY <1>1, <1>4, <2>1 DEF Typed, Runs
<1>6. /\ job'.maxRetries \in 0..MaxRetries /\ job'.cap \in Nat /\ job'.key \in Keys
  BY <1>3, <1>4, AttemptsAssumption DEF Usable, RetriesUsable, KeyFor, Keys
<1>7. /\ AttemptMs' \in {Undefined, Infinity} \cup 1..MaxTimer
      /\ TotalMs' \in {Undefined, Infinity} \cup 1..MaxTimer
  BY <1>3, <1>4 DEF Usable, TimersFit, AttemptMs, TotalMs
<1>8. /\ Bounded(AttemptMs)' => AttemptMs' \in Nat \ {0}
      /\ Bounded(TotalMs)' => TotalMs' \in Nat \ {0}
  BY <1>7, ValuesAssumption, MaxTimerAssumption DEF Bounded, Finite
<1>9. /\ now = 0 /\ run.n = 0 /\ run.aborted = {} /\ hist.sends = 0 /\ hist.keys = {}
  BY <1>1, <1>3 DEF Settings, Made, Repeats
<1>10. Typed'
  BY <1>1, <1>4, <1>5 DEF Typed
<1>11. Settings'
  BY <1>4, <1>5, <1>6, <1>8, <1>9 DEF Settings, Made
<1>12. Fresh' /\ Signals' /\ SleepKept'
  BY <1>1, <1>3, <1>4, <1>5, <1>9 DEF Fresh, Signals, SleepKept, InAttempt
<1>13. Repeats'
  BY <1>1, <1>4, <1>5, <1>9 DEF Repeats
<1>14. Punctual'
  <2>1. TotalBound' \in Nat
    BY <1>8, AttemptsAssumption DEF TotalBound, Never
  <2> QED
    BY <1>4, <1>5, <1>9, <2>1 DEF Punctual, InAttempt
<1>15. Bodies'
  BY <1>1, <1>3, <1>4, <1>5 DEF Bodies
<1> QED
  BY <1>10, <1>11, <1>12, <1>13, <1>14, <1>15 DEF IInv

(* cancel() during an attempt, between two steps of it, or in the backoff. *)
LEMMA CancelKeeps ==
  ASSUME IInv, Cancel
  PROVE  IInv'
<1>1. /\ Typed /\ Settings /\ Fresh /\ Repeats /\ Signals /\ Punctual /\ Bodies
      /\ SleepKept
  BY DEF IInv
<1>2. CASE run.pc # "backoff"
  BY <1>2, AbortKeeps DEF Cancel, Aborts
<1>3. CASE run.pc = "backoff"
  <2>1. /\ run' = [run EXCEPT !.pc = "ended", !.result = "cancelled"]
        /\ sleeper' = Abandon("backoff")
        /\ UNCHANGED <<now, job, host, body, hist>>
    BY <1>3 DEF Cancel, WakeUp
  <2>2. Typed'
    <3>1. "ended" \in Stages /\ "cancelled" \in Kinds
      BY DEF Stages, Kinds
    <3>2. run' \in Runs
      BY <1>1, <2>1, <3>1 DEF Typed, Runs
    <3>3. sleeper' \in Sleepers
      BY <1>1, <2>1, AttemptsAssumption DEF Abandon, NoSleep, Never, Typed, Sleepers
    <3> QED
      BY <1>1, <2>1, <3>2, <3>3 DEF Typed
  <2>3. /\ run'.pc = "ended" /\ run'.n = run.n /\ run'.start = run.start
        /\ sleeper'.for = "none" /\ run'.kind = run.kind
        /\ run'.bodyDue = run.bodyDue /\ run'.reason = run.reason
    BY <1>1, <1>3, <2>1 DEF Typed, Runs, Abandon, NoSleep, SleepKept, Sleepers
  <2>4. Settings' /\ Fresh' /\ Repeats' /\ Signals' /\ Punctual' /\ SleepKept'
    BY <1>1, <1>3, <2>1, <2>3, SameJob
    DEF Settings, Made, Fresh, Repeats, Signals, Punctual, SleepKept, InAttempt, Live
  <2>5. Bodies'
    BY <1>1, <1>3, <2>1, <2>3, SameJob DEF Bodies
  <2> QED
    BY <2>2, <2>4, <2>5 DEF IInv
<1> QED
  BY <1>2, <1>3

(* The caller reads the body it was handed.                                *)
LEMMA CallerReadsKeeps ==
  ASSUME IInv, CallerReads
  PROVE  IInv'
<1>1. /\ Typed /\ Settings /\ Fresh /\ Repeats /\ Signals /\ Punctual /\ Bodies
      /\ SleepKept
  BY DEF IInv
<1>2. Typed'
  <2>1. body' \in [Attempt -> BodyStates]
    BY <1>1 DEF Typed, BodyStates, CallerReads
  <2> QED
    BY <1>1, <2>1 DEF Typed, CallerReads
<1>3. Fresh'
  BY <1>1, AttemptsAssumption DEF Fresh, Attempt, Typed, Runs, CallerReads
<1>4. Bodies'
  BY <1>1, SameJob, AttemptsAssumption DEF Bodies, Attempt, Typed, Runs, CallerReads
<1>5. Settings' /\ Repeats' /\ Signals' /\ Punctual' /\ SleepKept'
  BY <1>1, SameJob
  DEF Settings, Made, Repeats, Signals, InAttempt, Punctual, Live, SleepKept, CallerReads
<1> QED
  BY <1>2, <1>3, <1>4, <1>5 DEF IInv

(* A response or an error, for the attempt that waits or for one that has  *)
(* been given up.                                                          *)
LEMMA HostSettlesKeeps ==
  ASSUME IInv, NEW n \in Attempt, HostSettles(n)
  PROVE  IInv'
<1>1. /\ Typed /\ Settings /\ Fresh /\ Repeats /\ Signals /\ Punctual /\ Bodies
      /\ SleepKept
  BY DEF IInv
<1> DEFINE Awaited == n = run.n /\ run.pc = "fetch" /\ run.await = "pending"
<1>2. /\ host[n] = "inner" /\ body[n] = "none"
      /\ host' \in [Attempt -> HostStates]
      /\ \A m \in Attempt : host'[m] = IF m = n THEN "settled" ELSE host[m]
      /\ UNCHANGED <<now, job, sleeper, hist>>
  BY <1>1 DEF HostSettles, Typed, HostStates, Bodies
<1>3. /\ run' \in Runs /\ body' \in [Attempt -> BodyStates]
      /\ run'.pc = run.pc /\ run'.n = run.n /\ run'.start = run.start /\ run'.kind = run.kind
      /\ run'.bodyDue = run.bodyDue /\ run'.reason = run.reason /\ run'.aborted = run.aborted
      /\ \/ ~Awaited /\ run'.await = run.await
         \/ Awaited /\ run'.await \in {"fulfilled", "threw"}
      /\ \A m \in Attempt \ {n} : body'[m] = body[m]
      /\ \/ body'[n] \in {"none", "cancelled"}
         \/ Awaited /\ run'.await = "fulfilled" /\ body'[n] = "open"
  <2>1. {"fulfilled", "threw"} \subseteq Awaits
    BY DEF Awaits
  <2>2. CASE Fails(n)
    <3>1. /\ run' = (IF Awaited THEN [run EXCEPT !.await = "threw"] ELSE run)
          /\ UNCHANGED body
      BY <2>2 DEF Fails
    <3>2. run' \in Runs
      BY <1>1, <2>1, <3>1 DEF Typed, Runs
    <3> QED
      BY <1>1, <1>2, <3>1, <3>2 DEF Typed, Runs
  <2>3. CASE Replies(n)
    <3>1. PICK status \in Statuses, header \in RetryAfters \cup {NoHeader} :
            Arrive(n, status, After(status, header))
      BY <2>3 DEF Replies
    <3> DEFINE after == After(status, header)
    <3>2. after \in Nat \cup {Undefined}
      <4>1. IsHeader(header)
        BY HeadersAssumption DEF IsHeader, NoHeader
      <4> QED
        BY <1>1, <4>1, AttemptsAssumption DEF After, ParseRetryAfter, IsHeader, Typed
    <3> HIDE DEF after
    <3>3. /\ run' = IF Awaited
                    THEN [run EXCEPT !.await = "fulfilled", !.status = status, !.after = after]
                    ELSE run
          /\ body' = [body EXCEPT ![n] = IF Awaited THEN "open" ELSE "cancelled"]
      BY <3>1 DEF Arrive, after
    <3>4. run' \in Runs /\ body' \in [Attempt -> BodyStates]
      BY <1>1, <2>1, <3>2, <3>3 DEF Typed, Runs, BodyStates, Statuses
    <3> QED
      BY <1>1, <1>2, <3>3, <3>4 DEF Typed, Runs
  <2> QED
    BY <2>2, <2>3 DEF HostSettles
<1>4. Typed'
  BY <1>1, <1>2, <1>3 DEF Typed
<1>5. Settings' /\ Repeats' /\ Punctual'
  BY <1>1, <1>2, <1>3, SameJob DEF Settings, Made, Repeats, Punctual, InAttempt, Live
<1>6. Fresh'
  <2>1. ~(n > run.n) /\ (n = run.n => run.pc \notin {"layers", "refused", "ready"})
    BY <1>1, <1>2 DEF Fresh
  <2> QED
    BY <1>1, <1>2, <1>3, <2>1 DEF Fresh
<1>7. Signals'
  BY <1>1, <1>2, <1>3 DEF Signals, InAttempt
<1>8. Bodies'
  BY <1>1, <1>2, <1>3, SameJob DEF Bodies, Typed, Runs
<1>9. SleepKept'
  BY <1>1, <1>2, <1>3 DEF SleepKept, Typed, Runs
<1> QED
  BY <1>4, <1>5, <1>6, <1>7, <1>8, <1>9 DEF IInv

(* The read of the body comes to an end.                                   *)
LEMMA BodySettlesKeeps ==
  ASSUME IInv, BodySettles
  PROVE  IInv'
<1>1. /\ Typed /\ Settings /\ Fresh /\ Repeats /\ Signals /\ Punctual /\ Bodies
      /\ SleepKept
  BY DEF IInv
<1>2. Typed'
  <2>1. run' \in Runs
    BY <1>1 DEF Typed, Runs, Awaits, BodySettles
  <2>2. body' \in [Attempt -> BodyStates]
    BY <1>1 DEF Typed, BodyStates, BodySettles
  <2> QED
    BY <1>1, <2>1, <2>2 DEF Typed, BodySettles
<1>3. Settings'
  BY <1>1, SameJob DEF Settings, Made, Typed, Runs, BodySettles
<1>4. Fresh'
  BY <1>1, AttemptsAssumption DEF Fresh, Attempt, Typed, Runs, BodySettles
<1>5. Repeats'
  BY <1>1, SameJob DEF Repeats, Typed, Runs, BodySettles
<1>6. Signals'
  BY <1>1 DEF Signals, InAttempt, Typed, Runs, BodySettles
<1>7. Punctual'
  BY <1>1, SameJob DEF Punctual, InAttempt, Live, Typed, Runs, BodySettles
<1>8. Bodies'
  BY <1>1, SameJob, AttemptsAssumption DEF Bodies, Attempt, Typed, Runs, BodySettles
<1>9. SleepKept'
  BY <1>1 DEF SleepKept, Typed, Runs, BodySettles
<1> QED
  BY <1>2, <1>3, <1>4, <1>5, <1>6, <1>7, <1>8, <1>9 DEF IInv

(* So does the caller's parse.                                             *)
LEMMA ParseSettlesKeeps ==
  ASSUME IInv, ParseSettles
  PROVE  IInv'
<1>1. /\ Typed /\ Settings /\ Fresh /\ Repeats /\ Signals /\ Punctual /\ Bodies
      /\ SleepKept
  BY DEF IInv
<1>2. Typed'
  <2>1. run' \in Runs
    BY <1>1 DEF Typed, Runs, Awaits, ParseSettles
  <2> QED
    BY <1>1, <2>1 DEF Typed, ParseSettles
<1>3. Settings'
  BY <1>1, SameJob DEF Settings, Made, Typed, Runs, ParseSettles
<1>4. Fresh'
  BY <1>1, AttemptsAssumption DEF Fresh, Attempt, Typed, Runs, ParseSettles
<1>5. Repeats'
  BY <1>1, SameJob DEF Repeats, Typed, Runs, ParseSettles
<1>6. Signals'
  BY <1>1 DEF Signals, InAttempt, Typed, Runs, ParseSettles
<1>7. Punctual'
  BY <1>1, SameJob DEF Punctual, InAttempt, Live, Typed, Runs, ParseSettles
<1>8. Bodies'
  BY <1>1, SameJob, AttemptsAssumption DEF Bodies, Attempt, Typed, Runs, ParseSettles
<1>9. SleepKept'
  BY <1>1 DEF SleepKept, Typed, Runs, ParseSettles
<1> QED
  BY <1>2, <1>3, <1>4, <1>5, <1>6, <1>7, <1>8, <1>9 DEF IInv

-----------------------------------------------------------------------------
(* The code of the attempt *)

(* The request goes out: for the first time, or it may be repeated; and    *)
(* the attempt has all of its time.                                        *)
LEMMA Sending ==
  ASSUME IInv, run.pc = "ready", run.aborted = {}, NEW wake \in Nat, Sent(wake),
         UNCHANGED <<now, job>>, run' \in Runs,
         run'.pc = "fetch", run'.n = run.n, run'.start = now, run'.aborted = {}
  PROVE  /\ hist' \in Hists /\ hist'.wake = wake
         /\ Settings' /\ Repeats' /\ Signals' /\ Punctual'
<1>1. /\ Typed /\ Settings /\ Fresh /\ Repeats /\ Signals /\ Punctual /\ Bodies
      /\ SleepKept
  BY DEF IInv
<1>2. /\ hist' = [hist EXCEPT !.keys = @ \cup {job.key}, !.sends = @ + 1,
                              !.first = "none", !.wake = wake]
      /\ Made
  BY DEF Sent, KeySent, Made
<1>3. hist' \in Hists /\ hist'.wake = wake /\ hist'.sends = hist.sends + 1
      /\ hist'.first = "none" /\ hist'.keys = hist.keys \cup {job.key} /\ hist'.kinds = hist.kinds
  <2>1. job.key \in Keys /\ hist \in Hists
    BY <1>1, <1>2 DEF Settings, Typed
  <2>2. hist.keys \cup {job.key} \in SUBSET Keys /\ hist.sends + 1 \in Nat
    BY <2>1 DEF Hists
  <2> QED
    BY <1>2, <2>1, <2>2 DEF Hists
<1>4. Settings'
  BY <1>1, <1>2, <1>3, SameJob DEF Settings, Made
<1>5. Repeats'
  <2>1. hist.sends \in Nat /\ hist.sends + 1 # 0 /\ run.n \in Nat
    BY <1>1 DEF Typed, Hists, Runs, Attempt
  <2>2. hist.sends + 1 <= run.n + 1
    BY <1>1, <2>1 DEF Repeats
  <2>3. hist.keys \cup {job.key} = {job.key}
    BY <1>1 DEF Repeats
  <2> QED
    BY <1>1, <1>3, <2>1, <2>2, <2>3, SameJob DEF Repeats
<1>6. Signals'
  BY <1>3 DEF Signals, InAttempt
<1>7. Punctual'
  <2>1. now <= AttemptBound'
    BY <1>1, <1>2, SameJob, AttemptsAssumption
    DEF AttemptBound, Settings, Typed, Never, Bounded, AttemptMs
  <2> QED
    BY <1>1, <2>1, SameJob DEF Punctual, Live
<1> QED
  BY <1>3, <1>4, <1>5, <1>6, <1>7

(* The call is made and does not settle at once.                           *)
LEMMA CallKeeps ==
  ASSUME IInv, run.pc = "ready", run.aborted = {}, NEW became \in {"inner", "latency", "hang"},
         NEW ms \in Nat, Call(became, IF became = "latency" THEN Arm("latency", ms) ELSE sleeper),
         UNCHANGED <<now, job>>
  PROVE  IInv'
<1>1. /\ Typed /\ Settings /\ Fresh /\ Repeats /\ Signals /\ Punctual /\ Bodies
      /\ SleepKept
  BY DEF IInv
<1> DEFINE armed == Arm("latency", ms)
           wait == IF became = "latency" THEN armed ELSE sleeper
           wake == IF became = "latency" THEN wait.due + wait.rest ELSE Never
<1>2. /\ armed \in Sleepers /\ armed.for = "latency" /\ armed.due >= now
      /\ armed.due + armed.rest \in Nat
  BY <1>1, MaxTimerAssumption DEF Arm, Smaller, Sleepers, Typed
<1>3. wait \in Sleepers /\ sleeper.for = "none"
  BY <1>1, <1>2 DEF Typed, SleepKept, Sleepers
<1>4. wake \in Nat
  BY <1>2, AttemptsAssumption DEF Never
<1>5. /\ host' = [host EXCEPT ![run.n] = became]
      /\ run' = [run EXCEPT !.pc = "fetch", !.await = "pending", !.start = now]
      /\ sleeper' = wait /\ Sent(wake) /\ UNCHANGED body
  BY DEF Call, Awaiting
<1> HIDE DEF wait, wake
<1>6. /\ run' \in Runs /\ run'.pc = "fetch" /\ run'.n = run.n /\ run'.start = now
      /\ run'.aborted = {} /\ run'.await = "pending" /\ run.n \in Attempt
  <2>1. "fetch" \in Stages /\ "pending" \in Awaits
    BY DEF Stages, Awaits
  <2>2. run \in Runs /\ now \in Nat
    BY <1>1 DEF Typed
  <2> QED
    BY <1>5, <2>1, <2>2 DEF Runs
<1>7. /\ hist' \in Hists /\ hist'.wake = wake
      /\ Settings' /\ Repeats' /\ Signals' /\ Punctual'
  BY <1>4, <1>5, <1>6, Sending
<1>8. /\ host' \in [Attempt -> HostStates]
      /\ \A m \in Attempt : host'[m] = IF m = run.n THEN became ELSE host[m]
  BY <1>1, <1>5 DEF Typed, HostStates
<1>9. Typed'
  BY <1>1, <1>3, <1>5, <1>6, <1>7, <1>8 DEF Typed
<1>10. Fresh'
  BY <1>1, <1>5, <1>6, <1>8, AttemptsAssumption DEF Fresh, Attempt
<1>11. Bodies'
  <2>1. body[run.n] = "none"
    BY <1>1, <1>6 DEF Fresh
  <2> QED
    BY <1>1, <1>5, <1>6, <1>8, <2>1 DEF Bodies
<1>12. SleepKept'
  BY <1>2, <1>3, <1>5, <1>6, <1>7, <1>8 DEF SleepKept, wait, wake
<1> QED
  BY <1>7, <1>9, <1>10, <1>11, <1>12 DEF IInv

(* The call settles in the turn it is made: it is answered, or it fails.    *)
LEMMA CallSettledKeeps ==
  ASSUME IInv, run.pc = "ready", run.aborted = {}, UNCHANGED <<now, job>>,
         \/ CallFails
         \/ \E status \in Statuses, after \in Nat \cup {Undefined} :
              CallAnswered(status, after)
  PROVE  IInv'
<1>1. /\ Typed /\ Settings /\ Fresh /\ Repeats /\ Signals /\ Punctual /\ Bodies
      /\ SleepKept
  BY DEF IInv
<1>2. sleeper.for = "none" /\ run.n \in Attempt
  BY <1>1 DEF Typed, SleepKept, Sleepers, Runs
<1>3. /\ run' \in Runs /\ run'.pc = "fetch" /\ run'.n = run.n /\ run'.start = now
      /\ run'.aborted = {}
      /\ \/ run'.await = "threw" /\ UNCHANGED body
         \/ run'.await = "fulfilled" /\ body' = [body EXCEPT ![run.n] = "open"]
  <2>1. /\ "fetch" \in Stages /\ "threw" \in Awaits /\ "fulfilled" \in Awaits
        /\ run \in Runs /\ now \in Nat
    BY <1>1 DEF Stages, Awaits, Typed
  <2>2. CASE CallFails
    <3>1. /\ run' = [run EXCEPT !.pc = "fetch", !.await = "threw", !.start = now]
          /\ UNCHANGED body
      BY <1>1, <2>2 DEF CallFails, Awaiting, Typed, Runs
    <3> QED
      BY <2>1, <3>1 DEF Runs, Statuses
  <2>3. ASSUME NEW status \in Statuses, NEW after \in Nat \cup {Undefined},
               CallAnswered(status, after)
        PROVE  <1>3!:
    <3> DEFINE r == [Awaiting EXCEPT !.await = "fulfilled", !.status = status,
                                     !.after = after]
    <3>1. run' = r /\ body' = [body EXCEPT ![run.n] = "open"]
      BY <2>3 DEF CallAnswered
    <3>2. r \in Runs
      <4>1. /\ status \in {"none", "ok", "bad", "retryable"}
            /\ after \in Nat \cup {Undefined}
        BY DEF Statuses
      <4> QED
        BY <2>1, <4>1 DEF Awaiting, Runs
    <3>3. /\ r.n = run.n /\ r.aborted = run.aborted /\ r.pc = "fetch" /\ r.await = "fulfilled"
          /\ r.start = now
      BY <2>1 DEF Awaiting, Runs
    <3> HIDE DEF r
    <3> QED
      BY <2>1, <3>1, <3>2, <3>3
  <2> QED
    BY <2>2, <2>3
<1>4. /\ host' = [host EXCEPT ![run.n] = "settled"] /\ Sent(Never) /\ UNCHANGED sleeper
  BY DEF CallFails, CallAnswered
<1>5. Never \in Nat
  BY AttemptsAssumption DEF Never
<1>6. /\ hist' \in Hists /\ Settings' /\ Repeats' /\ Signals' /\ Punctual'
  BY <1>3, <1>4, <1>5, Sending
<1>7. /\ host' \in [Attempt -> HostStates]
      /\ \A m \in Attempt : host'[m] = IF m = run.n THEN "settled" ELSE host[m]
  BY <1>1, <1>4 DEF Typed, HostStates
<1>8. /\ body' \in [Attempt -> BodyStates] /\ body[run.n] = "none"
      /\ \A m \in Attempt :
           body'[m] = IF m = run.n /\ run'.await = "fulfilled" THEN "open" ELSE body[m]
  BY <1>1, <1>2, <1>3 DEF Typed, BodyStates, Fresh
<1>9. Typed'
  BY <1>1, <1>3, <1>4, <1>6, <1>7, <1>8 DEF Typed
<1>10. Fresh'
  BY <1>1, <1>2, <1>3, <1>7, <1>8, AttemptsAssumption DEF Fresh, Attempt
<1>11. Bodies'
  BY <1>1, <1>2, <1>3, <1>7, <1>8 DEF Bodies
<1>12. SleepKept'
  BY <1>2, <1>4 DEF SleepKept
<1> QED
  BY <1>6, <1>9, <1>10, <1>11, <1>12 DEF IInv

(* An attempt that ends before it calls fetch.                             *)
LEMMA ReturnAtOnceKeeps ==
  ASSUME IInv, run.pc = "ready", UNCHANGED <<now, job>>,
         NEW kind \in {"cancelled", "configuration"}, ReturnAtOnce(kind)
  PROVE  IInv'
<1>1. /\ Typed /\ Settings /\ Fresh /\ Repeats /\ Signals /\ Punctual /\ Bodies
      /\ SleepKept
  BY DEF IInv
<1>2. /\ run' = [run EXCEPT !.pc = "over", !.kind = kind, !.start = now]
      /\ UNCHANGED <<host, body, sleeper, hist>>
  BY <1>1 DEF ReturnAtOnce, Returns, Typed, Runs
<1>3. /\ run' \in Runs /\ run'.pc = "over" /\ run'.n = run.n
      /\ body[run.n] = "none" /\ sleeper.for = "none"
  <2>1. /\ "over" \in Stages /\ kind \in Kinds
        /\ run \in Runs /\ now \in Nat
    BY <1>1 DEF Stages, Kinds, ErrorKinds, Typed
  <2>2. run' \in Runs /\ run'.pc = "over" /\ run'.n = run.n
    BY <1>2, <2>1 DEF Runs
  <2>3. body[run.n] = "none" /\ sleeper.for = "none"
    BY <1>1 DEF Typed, Runs, Fresh, SleepKept, Sleepers
  <2> QED
    BY <2>2, <2>3
<1>4. Typed'
  BY <1>1, <1>2, <1>3 DEF Typed
<1>5. Settings' /\ Fresh' /\ Signals' /\ Punctual' /\ SleepKept'
  BY <1>1, <1>2, <1>3, SameJob
  DEF Settings, Made, Fresh, Signals, Punctual, SleepKept, InAttempt, Live
<1>6. Repeats'
  BY <1>1, <1>2, <1>3, SameJob DEF Repeats, Typed, Hists, Runs, Attempt
<1>7. Bodies'
  BY <1>1, <1>2, <1>3 DEF Bodies
<1> QED
  BY <1>4, <1>5, <1>6, <1>7 DEF IInv

(* Whatever becomes of the call, faults included.                          *)
LEMMA ExecuteKeeps ==
  ASSUME IInv, Execute
  PROVE  IInv'
<1>1. run.pc = "ready" /\ UNCHANGED <<now, job>>
  BY DEF Execute
<1>2. CASE run.aborted # {}
  BY <1>1, <1>2, ReturnAtOnceKeeps DEF Execute
<1>3. CASE run.aborted = {}
  <2>0. now \in Nat
    BY DEF IInv, Typed
  <2>1. CASE ReturnAtOnce("configuration")
    BY <1>1, <2>1, ReturnAtOnceKeeps
  <2>2. CASE Call("inner", sleeper)
    BY <1>1, <1>3, <2>2, CallKeeps
  <2>3. ASSUME NEW fault \in Faults, ValidFault(fault), CallFaulty(fault)
        PROVE  IInv'
    <3>1. ASSUME "status" \in DOMAIN fault,
                 CallAnswered(fault.status,
                              After(fault.status, OrElse(Get(fault, "retryAfter"), NoHeader)))
          PROVE  IInv'
      <4> DEFINE after == After(fault.status, OrElse(Get(fault, "retryAfter"), NoHeader))
      <4>1. CallAnswered(fault.status, after)
        BY <3>1
      <4>2. fault.status \in Statuses
        BY <3>1, <2>3 DEF ValidFault
      <4>3. IsHeader(OrElse(Get(fault, "retryAfter"), NoHeader))
        BY <2>3, <3>1 DEF ValidFault, OrElse, IsHeader, NoHeader, Get
      <4>4. after \in Nat \cup {Undefined}
        BY <4>3, <2>0, AttemptsAssumption DEF After, ParseRetryAfter, IsHeader
      <4> QED
        BY <1>1, <1>3, <4>1, <4>2, <4>4, CallSettledKeeps
    <3>2. ASSUME "latencyMs" \in DOMAIN fault,
                 Call("latency", Arm("latency", fault.latencyMs))
          PROVE  IInv'
      <4>1. fault.latencyMs \in Nat
        BY <2>3, <3>2, FaultsAssumption, ValuesAssumption
        DEF ValidFault, Finite, NonNegative
      <4> QED
        BY <1>1, <1>3, <3>2, <4>1, CallKeeps
    <3>3. CASE CallFails
      BY <1>1, <1>3, <3>3, CallSettledKeeps
    <3>4. CASE Call("hang", sleeper)
      BY <1>1, <1>3, <3>4, CallKeeps
    <3> QED
      BY <2>3, <3>1, <3>2, <3>3, <3>4 DEF CallFaulty
  <2> QED
    BY <1>3, <2>1, <2>2, <2>3 DEF Execute
<1> QED
  BY <1>2, <1>3

(* The attempt returns from its fetch: the body is given up, handed over   *)
(* with the time that is left of the attempt, or read.                     *)
LEMMA ResumeFetchKeeps ==
  ASSUME IInv, ResumeFetch
  PROVE  IInv'
<1>1. /\ Typed /\ Settings /\ Fresh /\ Repeats /\ Signals /\ Punctual /\ Bodies
      /\ SleepKept
  BY DEF IInv
<1>2. /\ run.pc = "fetch" /\ run.await # "pending" /\ run.n \in Attempt /\ Made
      /\ run \in Runs /\ UNCHANGED <<now, job, host, sleeper, hist>>
  BY <1>1 DEF ResumeFetch, Resuming, Made, Typed, Runs
<1>3. /\ {FetchFailed, "cancelled", "timeout", "retryable_status", "success", "http"}
           \subseteq Kinds
      /\ {"over", "read"} \subseteq Stages /\ {"pending", "fulfilled"} \subseteq Awaits
  BY DEF FetchFailed, Kinds, ErrorKinds, Stages, Awaits
<1> DEFINE bound == Smaller(AttemptBound, TotalBound)
           reason == IF AttemptBound <= TotalBound THEN "attempt" ELSE "total"
           Gone == /\ run'.pc = "over"
                   /\ \/ run.await # "fulfilled" /\ body' = body
                      \/ run.await = "fulfilled" /\ body' = [body EXCEPT ![run.n] = "cancelled"]
           Handed == /\ run'.pc = "over" /\ run'.kind \in {"success", "http"}
                     /\ run'.bodyDue = bound /\ run'.reason = reason
                     /\ run.await = "fulfilled" /\ body' = [body EXCEPT ![run.n] = "handed"]
           Unread == /\ run'.pc = "read" /\ run.aborted = {} /\ run.await = "fulfilled"
                     /\ \/ /\ run'.await = "fulfilled"
                           /\ body' = [body EXCEPT ![run.n] = "cancelled"]
                        \/ run'.await = "pending" /\ body' = body
<1>4. /\ run' \in Runs /\ run'.n = run.n /\ run'.start = run.start
      /\ run'.aborted = run.aborted
      /\ Gone \/ Handed \/ Unread
  <2>1. CASE run.await # "fulfilled"
    BY <1>2, <1>3, <2>1 DEF ResumeFetch, Returns, Runs
  <2>2. ASSUME NEW kind \in Kinds, ReturnCancelling(kind), run.await = "fulfilled"
        PROVE  <1>4!:
    BY <1>2, <1>3, <2>2 DEF ReturnCancelling, Returns, Cancelled, Runs
  <2>3. ASSUME NEW kind \in {"success", "http"}, HandOver(kind), run.await = "fulfilled"
        PROVE  <1>4!:
    <3>1. bound \in Nat
      BY <1>1, <1>2, BoundsAreTimes DEF Smaller
    <3> HIDE DEF bound
    <3>2. /\ run' = [run EXCEPT !.pc = "over", !.kind = kind, !.bodyDue = bound, !.reason = reason]
          /\ body' = [body EXCEPT ![run.n] = "handed"]
      BY <1>2, <2>3 DEF HandOver, Returns, Runs, bound
    <3>3. reason \in {"attempt", "total"} /\ kind \in Kinds /\ "over" \in Stages
      BY <1>3
    <3> HIDE DEF reason
    <3> QED
      BY <1>2, <2>3, <3>1, <3>2, <3>3 DEF Runs
  <2>4. ASSUME Read, run.aborted = {}, run.await = "fulfilled"
        PROVE  <1>4!:
    <3>1. \A await \in {"fulfilled", "pending"} :
            LET r == [run EXCEPT !.pc = "read", !.await = await]
            IN /\ r \in Runs /\ r.pc = "read" /\ r.await = await /\ r.n = run.n
               /\ r.start = run.start /\ r.aborted = run.aborted
      BY <1>2, <1>3 DEF Runs
    <3>2. CASE job.type = "none"
      BY <2>4, <3>1, <3>2 DEF Read, Cancelled
    <3>3. CASE job.type # "none"
      BY <2>4, <3>1, <3>3 DEF Read
    <3> QED
      BY <3>2, <3>3
  <2>5. ~Outer /\ ~TimedOut => run.aborted = {}
    BY <1>2 DEF Outer, TimedOut, Runs, Aborts
  <2> QED
    BY <1>2, <1>3, <2>1, <2>2, <2>3, <2>4, <2>5 DEF ResumeFetch, ResumeFetched
<1> HIDE DEF Gone, Handed, Unread
<1>5. /\ run'.pc \in {"over", "read"}
      /\ body' \in [Attempt -> BodyStates]
      /\ \A m \in Attempt \ {run.n} : body'[m] = body[m]
      /\ \/ body'[run.n] = body[run.n]
         \/ run.await = "fulfilled" /\ body'[run.n] \in {"cancelled", "handed"}
  BY <1>1, <1>2, <1>4 DEF Gone, Handed, Unread, Typed, BodyStates
<1>6. Typed'
  BY <1>1, <1>2, <1>4, <1>5 DEF Typed
<1>7. Settings' /\ Repeats'
  BY <1>1, <1>2, <1>4, <1>5, SameJob DEF Settings, Made, Repeats
<1>8. Fresh'
  BY <1>1, <1>2, <1>4, <1>5, AttemptsAssumption DEF Fresh, Attempt
<1>9. Signals'
  BY <1>1, <1>2, <1>4 DEF Signals, InAttempt, Gone, Handed, Unread
<1>10. Punctual'
  BY <1>1, <1>2, <1>4, <1>5, SameJob DEF Punctual, InAttempt, Live
<1>11. Bodies'
  <2>1. run.await = "fulfilled" => host[run.n] = "settled"
    BY <1>1, <1>2 DEF Bodies
  <2>2. /\ \A m \in Attempt : body'[m] # "none" => host[m] = "settled"
        /\ run'.pc = "read" => host[run.n] = "settled"
    BY <1>1, <1>2, <1>4, <1>5, <2>1 DEF Bodies, Unread, Gone, Handed
  <2>3. body[run.n] \notin {"handed", "aborted"} /\ \A m \in Attempt : body[m] # "handed"
    BY <1>1, <1>2 DEF Bodies
  <2>4. CASE Gone
    BY <1>1, <1>2, <1>4, <1>5, <2>1, <2>2, <2>3, <2>4 DEF Bodies, Gone, Typed
  <2>5. CASE Handed
    <3>1. now <= bound /\ bound' = bound /\ reason' = reason
      BY <1>1, <1>2, <1>4, SameJob DEF Punctual, Smaller, InAttempt, Live
    <3>2. body'[run.n] = "handed"
      BY <1>1, <1>2, <2>5 DEF Handed, Typed
    <3> QED
      BY <1>1, <1>2, <1>4, <1>5, <2>2, <2>3, <2>5, <3>1, <3>2 DEF Bodies, Handed
  <2>6. CASE Unread
    BY <1>1, <1>2, <1>4, <1>5, <2>1, <2>2, <2>3, <2>6 DEF Bodies, Unread, Typed
  <2> QED
    BY <1>4, <2>4, <2>5, <2>6
<1>12. SleepKept'
  BY <1>1, <1>2 DEF SleepKept
<1> QED
  BY <1>6, <1>7, <1>8, <1>9, <1>10, <1>11, <1>12 DEF IInv

(* The attempt goes on to the parse, or returns.                           *)
LEMMA ResumeReadKeeps ==
  ASSUME IInv, ResumeRead
  PROVE  IInv'
<1>1. /\ Typed /\ Settings /\ Fresh /\ Repeats /\ Signals /\ Punctual /\ Bodies
      /\ SleepKept
  BY DEF IInv
<1>2. Typed'
  <2>1. /\ "over" \in Stages /\ "parse" \in Stages
        /\ "success" \in Kinds /\ ReadFailed \in Kinds /\ {"pending", "threw"} \subseteq Awaits
    BY DEF Stages, Kinds, ErrorKinds, Awaits, ReadFailed
  <2>2. run \in Runs
    BY <1>1 DEF Typed
  <2>3. Parse \in Runs
    BY <2>1, <2>2 DEF Parse, Runs
  <2>4. \A kind \in Kinds : Returns(run, kind) \in Runs
    BY <2>1, <2>2 DEF Returns, Runs
  <2>5. run' \in Runs
    BY <2>1, <2>3, <2>4 DEF ResumeRead
  <2> QED
    BY <1>1, <2>5 DEF Typed, ResumeRead
<1>3. Settings'
  BY <1>1, SameJob DEF Settings, Made, Typed, Runs, ResumeRead, Resuming, Returns, Parse
<1>4. Fresh'
  BY <1>1, AttemptsAssumption
  DEF Fresh, Attempt, Typed, Runs, ResumeRead, Resuming, Returns, Parse
<1>5. Repeats'
  BY <1>1, SameJob DEF Repeats, Typed, Runs, ResumeRead, Resuming, Returns, Parse
<1>6. Signals'
  BY <1>1 DEF Signals, InAttempt, Typed, Runs, ResumeRead, Resuming, Returns, Parse
<1>7. Punctual'
  BY <1>1, SameJob
  DEF Punctual, InAttempt, Live, Typed, Runs, ResumeRead, Resuming, Returns, Parse
<1>8. Bodies'
  BY <1>1, SameJob, AttemptsAssumption
  DEF Bodies, Attempt, Typed, Runs, ResumeRead, Resuming, Returns, Parse
<1>9. SleepKept'
  BY <1>1 DEF SleepKept, Typed, Runs, ResumeRead, Resuming, Returns, Parse
<1> QED
  BY <1>2, <1>3, <1>4, <1>5, <1>6, <1>7, <1>8, <1>9 DEF IInv

(* The attempt returns from the parse.                                     *)
LEMMA ResumeParseKeeps ==
  ASSUME IInv, ResumeParse
  PROVE  IInv'
<1>1. /\ Typed /\ Settings /\ Fresh /\ Repeats /\ Signals /\ Punctual /\ Bodies
      /\ SleepKept
  BY DEF IInv
<1>2. Typed'
  <2>1. /\ "over" \in Stages /\ "success" \in Kinds /\ ParseFailed \in Kinds
    BY DEF Stages, Kinds, ErrorKinds, ParseFailed
  <2> QED
    BY <1>1, <2>1 DEF Typed, Runs, ResumeParse, Returns
<1>3. Settings'
  BY <1>1, SameJob DEF Settings, Made, Typed, Runs, ResumeParse, Resuming, Returns
<1>4. Fresh'
  BY <1>1, AttemptsAssumption
  DEF Fresh, Attempt, Typed, Runs, ResumeParse, Resuming, Returns
<1>5. Repeats'
  BY <1>1, SameJob DEF Repeats, Typed, Runs, ResumeParse, Resuming, Returns
<1>6. Signals'
  BY <1>1 DEF Signals, InAttempt, Typed, Runs, ResumeParse, Resuming, Returns
<1>7. Punctual'
  BY <1>1, SameJob
  DEF Punctual, InAttempt, Live, Typed, Runs, ResumeParse, Resuming, Returns
<1>8. Bodies'
  BY <1>1, SameJob, AttemptsAssumption
  DEF Bodies, Attempt, Typed, Runs, ResumeParse, Resuming, Returns
<1>9. SleepKept'
  BY <1>1 DEF SleepKept, Typed, Runs, ResumeParse, Resuming, Returns
<1> QED
  BY <1>2, <1>3, <1>4, <1>5, <1>6, <1>7, <1>8, <1>9 DEF IInv

(* The result ends the request, or another attempt will be made after a    *)
(* delay; only errors that may be repeated lead there.                     *)
LEMMA DecideKeeps ==
  ASSUME IInv, Decide
  PROVE  IInv'
<1>1. /\ Typed /\ Settings /\ Fresh /\ Repeats /\ Signals /\ Punctual /\ Bodies
      /\ SleepKept
  BY DEF IInv
<1>2. /\ run.pc = "over" /\ run \in Runs /\ sleeper.for = "none"
      /\ UNCHANGED <<now, job, host, body>>
  BY <1>1 DEF Decide, Typed, SleepKept, Sleepers
<1>3. ASSUME NEW result \in Kinds \cup {"deadline", "max_retries"}, End(result)
      PROVE  IInv'
  <2>1. /\ run' = [run EXCEPT !.pc = "ended", !.result = result]
        /\ UNCHANGED <<sleeper, hist>>
    BY <1>3 DEF End
  <2>2. "ended" \in Stages
    BY DEF Stages
  <2>3. /\ run' \in Runs /\ run'.pc = "ended" /\ run'.n = run.n /\ run'.start = run.start
        /\ run'.kind = run.kind /\ run'.bodyDue = run.bodyDue /\ run'.reason = run.reason
    BY <1>2, <2>1, <2>2 DEF Runs
  <2>4. Typed'
    BY <1>1, <1>2, <2>1, <2>3 DEF Typed
  <2>5. Settings' /\ Fresh' /\ Repeats' /\ Signals' /\ Punctual' /\ SleepKept'
    BY <1>1, <1>2, <2>1, <2>3, SameJob
    DEF Settings, Made, Fresh, Repeats, Signals, Punctual, SleepKept, InAttempt, Live
  <2>6. Bodies'
    BY <1>1, <1>2, <2>3, SameJob DEF Bodies
  <2> QED
    BY <2>4, <2>5, <2>6 DEF IInv
<1>4. ASSUME NEW delay \in Nat, Backoff(delay), Retriable, run.n < job.maxRetries
      PROVE  IInv'
  <2>1. CASE End("cancelled") \/ End("deadline")
    BY <1>3, <2>1 DEF Kinds
  <2>2. CASE /\ run' = [run EXCEPT !.pc = "backoff"]
             /\ sleeper' = Arm("backoff", delay)
             /\ hist' = [hist EXCEPT !.kinds = @ \cup {run.kind}, !.wake = now + delay]
    <3>1. "backoff" \in Stages /\ now \in Nat /\ hist \in Hists
      BY <1>1 DEF Stages, Typed
    <3>2. /\ run' \in Runs /\ run'.pc = "backoff" /\ run'.n = run.n /\ run'.start = run.start
          /\ run'.aborted = run.aborted
      BY <1>2, <2>2, <3>1 DEF Runs
    <3>3. /\ sleeper' \in Sleepers /\ sleeper'.for = "backoff" /\ sleeper'.due >= now
          /\ sleeper'.due + sleeper'.rest = now + delay
      BY <1>4, <2>2, <3>1, MaxTimerAssumption DEF Arm, Smaller, Sleepers
    <3>4. run.kind \in Kinds /\ hist.kinds \cup {run.kind} \in SUBSET Kinds /\ now + delay \in Nat
      BY <1>2, <1>4, <3>1 DEF Runs, Hists
    <3>5. /\ hist' \in Hists /\ hist'.wake = now + delay /\ hist'.sends = hist.sends
          /\ hist'.keys = hist.keys /\ hist'.kinds = hist.kinds \cup {run.kind}
      BY <2>2, <3>1, <3>4 DEF Hists
    <3>6. Typed'
      BY <1>1, <1>2, <3>2, <3>3, <3>5 DEF Typed
    <3>7. Settings'
      BY <1>1, <1>2, <1>4, <3>2, <3>5, SameJob DEF Settings, Made
    <3>8. Fresh' /\ Signals' /\ Punctual'
      BY <1>1, <1>2, <3>2, SameJob DEF Fresh, Signals, Punctual, InAttempt, Live
    <3>9. Repeats'
      BY <1>1, <1>2, <1>4, <3>2, <3>5, SameJob DEF Repeats, Retriable, MayRepeat
    <3>10. Bodies'
      <4>1. body[run.n] \notin {"handed", "aborted"}
        BY <1>1, <1>4 DEF Bodies, Retriable, RetriableKinds
      <4> QED
        BY <1>1, <1>2, <3>2, <4>1 DEF Bodies
    <3>11. SleepKept'
      BY <1>2, <3>2, <3>3, <3>5 DEF SleepKept
    <3> QED
      BY <3>6, <3>7, <3>8, <3>9, <3>10, <3>11 DEF IInv
  <2> QED
    BY <1>4, <2>1, <2>2 DEF Backoff
<1>5. \A delay \in Delays : delay \in Nat
  <2>1. CASE run.kind = "retryable_status" /\ run.after # Undefined
    <3>1. run.after \in Nat /\ job.cap \in Nat
      BY <1>1, <1>2, <2>1 DEF Runs, Settings, Made
    <3> QED
      BY <2>1, <3>1 DEF Delays, Smaller
  <2>2. CASE ~(run.kind = "retryable_status" /\ run.after # Undefined)
    BY <2>2 DEF Delays, Jittered
  <2> QED
    BY <2>1, <2>2
<1>6. /\ {"success", AbortResult, GiveUp, run.kind} \subseteq Kinds \cup {"deadline", "max_retries"}
  BY <1>2 DEF AbortResult, GiveUp, Kinds, Runs
<1> QED
  <2>1. CASE \E result \in {"success", AbortResult, GiveUp, run.kind} : End(result)
    BY <1>3, <1>6, <2>1
  <2>2. CASE /\ run.n < job.maxRetries /\ Retriable
             /\ \E delay \in Delays : Backoff(delay)
    BY <1>4, <1>5, <2>2
  <2> QED
    BY <2>1, <2>2 DEF Decide, ShouldRetry

-----------------------------------------------------------------------------
(* All of it *)

(* Nothing has been created yet.                                           *)
LEMMA InitIInv ==
  ASSUME Init
  PROVE  IInv
<1>1. /\ now = 0 /\ run = NotStarted /\ sleeper = NoSleep
      /\ host = [n \in Attempt |-> "idle"] /\ body = [n \in Attempt |-> "none"]
      /\ hist = [first |-> "none", keys |-> {}, sends |-> 0, kinds |-> {}, wake |-> Never]
  BY DEF Init
<1>2. Never \in Nat /\ 0 \in Attempt
  BY AttemptsAssumption DEF Never, Attempt
<1>3. run \in Runs
  BY <1>1, <1>2 DEF NotStarted, Runs, Stages, Awaits, Kinds
<1>4. sleeper \in Sleepers /\ hist \in Hists
  BY <1>1, <1>2 DEF NoSleep, Sleepers, Hists
<1>5. Typed
  BY <1>1, <1>3, <1>4, AttemptsAssumption DEF Typed, HostStates, BodyStates
<1>6. /\ run.pc = "layers" /\ run.n = 0 /\ run.aborted = {} /\ sleeper.for = "none"
      /\ hist.keys = {} /\ hist.sends = 0 /\ hist.kinds = {}
  BY <1>1 DEF NotStarted, NoSleep
<1>7. Settings /\ Fresh /\ Repeats /\ Signals /\ Punctual /\ SleepKept
  BY <1>1, <1>6 DEF Settings, Made, Fresh, Repeats, Signals, Punctual, SleepKept, InAttempt, Live
<1>8. Bodies
  BY <1>1, <1>2, <1>6 DEF Bodies
<1> QED
  BY <1>5, <1>7, <1>8 DEF IInv

(* Every step of the specification keeps the invariant.                   *)
LEMMA NextIInv ==
  ASSUME IInv, [Next]_vars
  PROVE  IInv'
<1>1. CASE Code
  BY <1>1, ExecuteKeeps, ResumeFetchKeeps, ResumeReadKeeps, ResumeParseKeeps, DecideKeeps DEF Code
<1>2. CASE Timers
  BY <1>2, SleepOnKeeps, LatencyOverKeeps, RetryNowKeeps, AttemptTimeoutKeeps, DeadlineKeeps,
     BodyTimeoutKeeps, TickKeeps
  DEF Timers
<1>3. CASE Outside
  BY <1>3, RefuseKeeps, AcceptKeeps, CancelKeeps, CallerReadsKeeps, BodySettlesKeeps,
     ParseSettlesKeeps, HostSettlesKeeps
  DEF Outside
<1>4. CASE UNCHANGED vars
  <2>1. UNCHANGED <<now, job, run, host, body, sleeper, hist>>
    BY <1>4 DEF vars
  <2>2. Typed' /\ Settings' /\ Fresh' /\ Repeats' /\ Signals'
    BY <2>1, SameJob
    DEF IInv, Typed, Settings, Made, Fresh, Repeats, Signals, InAttempt
  <2>3. Punctual' /\ Bodies' /\ SleepKept'
    BY <2>1, SameJob DEF IInv, Punctual, Bodies, SleepKept, InAttempt, Live
  <2> QED
    BY <2>2, <2>3 DEF IInv
<1> QED
  BY <1>1, <1>2, <1>3, <1>4 DEF Next

(* The inductive invariant holds of every reachable state.                 *)
THEOREM Invariance == Spec => []IInv
<1>1. Init => IInv
  BY InitIInv
<1>2. IInv /\ [Next]_vars => IInv'
  BY NextIInv
<1> QED
  BY <1>1, <1>2, PTL DEF Spec

-----------------------------------------------------------------------------
(* What the runs check, for every configuration, host and bound *)

(* Every variable holds what the code can put there.                       *)
THEOREM TypeCorrect == Spec => []TypeOK
<1>1. IInv => TypeOK
  BY DEF IInv, Typed, Bodies, TypeOK, Runs, Sleepers, Kinds, HostStates, BodyStates, Aborts
<1> QED
  BY <1>1, Invariance, PTL

(* Settings that passed their own validation are still usable once the     *)
(* three layers are merged, for every client, partition and request: not   *)
(* only for the layers the runs try.                                       *)
THEOREM ConfigurationUsable == Spec => []AcceptedIsUsable
<1>1. AcceptedIsUsable
  BY MergedIsUsable DEF AcceptedIsUsable, Rejected
<1> QED
  BY <1>1, PTL

(* A body is read, cancelled, or the caller's for no longer than the       *)
(* attempt and its ticket have, and its timer says which of them it was.   *)
THEOREM BodiesKept == Spec => []BodiesBounded
<1>1. IInv => BodiesBounded
  <2> SUFFICES ASSUME IInv PROVE BodiesBounded
    OBVIOUS
  <2>1. Typed /\ Settings /\ Bodies
    BY DEF IInv
  <2>2. \A n \in Attempt : body[n] = "open" => n = run.n /\ run.pc \in {"fetch", "read"}
    BY <2>1 DEF Bodies
  <2>3. CASE body[run.n] \notin {"handed", "aborted"}
    BY <2>2, <2>3 DEF BodiesBounded
  <2>4. CASE body[run.n] \in {"handed", "aborted"}
    <3>1. Made
      BY <2>1, <2>4 DEF Bodies, Made
    <3>2. AttemptBound \in Nat /\ TotalBound \in Nat /\ now \in Nat
      BY <2>1, <3>1, BoundsAreTimes DEF Typed
    <3>3. /\ run.bodyDue = Smaller(AttemptBound, TotalBound)
          /\ run.reason = IF AttemptBound <= TotalBound THEN "attempt" ELSE "total"
          /\ body[run.n] = "handed" => now <= run.bodyDue
          /\ body[run.n] = "aborted" => now >= run.bodyDue
      BY <2>1, <2>4 DEF Bodies
    <3> QED
      BY <2>2, <2>4, <3>2, <3>3 DEF BodiesBounded, Smaller
  <2> QED
    BY <2>3, <2>4
<1> QED
  BY <1>1, Invariance, PTL

(* No request goes out twice that is not safe to repeat, and the attempts  *)
(* of one request carry one key.                                           *)
THEOREM RepeatsAreSafe == Spec => []SafeToRepeat
<1>1. IInv => SafeToRepeat
  <2> SUFFICES ASSUME IInv PROVE SafeToRepeat
    OBVIOUS
  <2>1. Typed /\ Settings /\ Repeats
    BY DEF IInv
  <2>2. hist.sends > 1 => job.safe \/ job.idempotent \/ hist.keys # {"none"}
    <3>1. hist.sends \in Nat /\ run.n \in Nat
      BY <2>1 DEF Typed, Hists, Runs, Attempt
    <3> QED
      BY <2>1, <3>1 DEF Repeats, MayRepeat
  <2>3. Cardinality(hist.keys) <= 1
    <3>1. Cardinality({}) = 0 /\ Cardinality({job.key}) = 1
      BY FS_EmptySet, FS_Singleton
    <3> QED
      BY <2>1, <3>1 DEF Repeats
  <2> QED
    BY <2>1, <2>2, <2>3 DEF SafeToRepeat, Repeats
<1> QED
  BY <1>1, Invariance, PTL

(* An armed timer belongs to a wait that goes on, and ends it in time.     *)
THEOREM SleepsAreKept == Spec => []SleepKept
<1>1. IInv => SleepKept
  BY DEF IInv
<1> QED
  BY <1>1, Invariance, PTL

(* An attempt reports what ended it.                                       *)
THEOREM OutcomesExplained == Spec => OutcomeFollowsAbort
<1> DEFINE Explained ==
      run.pc # "over" /\ run'.pc = "over" =>
        /\ run'.kind = "timeout" => hist.first = "timer"
        /\ run'.kind = "cancelled" => run.aborted \cap {"cancel", "deadline"} # {}
        /\ run'.kind \in ErrorKinds => run.aborted = {}
<1>1. IInv /\ [Next]_vars => [Explained]_vars
  <2> SUFFICES ASSUME IInv, Next, run.pc # "over", run'.pc = "over"
               PROVE  Explained
    BY DEF vars
  <2>1. Typed /\ Signals
    BY DEF IInv
  <2>2. run \in Runs /\ run.aborted \subseteq Aborts
    BY <2>1 DEF Typed, Runs
  <2>3. CASE Execute
    BY <2>1, <2>2, <2>3
    DEF Execute, ReturnAtOnce, Returns, Call, CallFaulty, CallFails, CallAnswered, Awaiting,
        Signals, Runs, ErrorKinds
  <2>4. CASE ResumeFetch
    <3>1. /\ run.pc = "fetch" /\ InAttempt
          /\ "timer" \in run.aborted => hist.first = "timer"
          /\ ~Outer /\ ~TimedOut => run.aborted = {}
      BY <2>1, <2>2, <2>4 DEF ResumeFetch, InAttempt, Signals, Outer, TimedOut, Aborts
    <3>2. ASSUME NEW kind, run' = Returns(run, kind), kind \in {"retryable_status", "network"},
                 ~Outer, ~TimedOut
          PROVE  Explained
      BY <2>2, <3>1, <3>2 DEF Returns, Runs
    <3>3. ASSUME run' = Returns(run, "timeout"), TimedOut
          PROVE  Explained
      BY <2>2, <3>1, <3>3 DEF Returns, Runs, TimedOut, ErrorKinds
    <3>4. ASSUME run' = Returns(run, "cancelled"), Outer
          PROVE  Explained
      BY <2>2, <3>1, <3>4 DEF Returns, Runs, Outer, ErrorKinds
    <3>5. ASSUME NEW kind \in {"success", "http"}, HandOver(kind), ~Outer, ~TimedOut
          PROVE  Explained
      BY <2>2, <3>1, <3>5 DEF HandOver, Returns, Runs
    <3>6. Read => run'.pc # "over"
      BY <2>2 DEF Read, Runs
    <3> QED
      BY <2>4, <3>2, <3>3, <3>4, <3>5, <3>6
      DEF ResumeFetch, ResumeFetched, ReturnCancelling, FetchFailed
  <2>5. CASE ResumeRead
    BY <2>1, <2>2, <2>5
    DEF ResumeRead, Returns, ReadFailed, Parse, TimedOut, Outer, Signals, InAttempt, Runs,
        ErrorKinds, Aborts
  <2>6. CASE ResumeParse
    BY <2>1, <2>2, <2>6
    DEF ResumeParse, Returns, ParseFailed, TimedOut, Outer, Signals, InAttempt, Runs,
        ErrorKinds, Aborts
  <2>7. Execute \/ ResumeFetch \/ ResumeRead \/ ResumeParse
    <3>1. ASSUME Timers PROVE run'.pc # "over"
      <4>1. ASSUME NEW source, Abort(source) PROVE run'.pc # "over"
        BY <2>2, <4>1 DEF Abort, Interrupted, Runs
      <4>2. CASE RetryNow
        BY <2>2, <4>2 DEF RetryNow, Runs
      <4>3. CASE SleepOn \/ LatencyOver \/ BodyTimeout \/ Tick
        BY <4>3 DEF SleepOn, LatencyOver, BodyTimeout, Tick
      <4>4. CASE AttemptTimeout \/ Deadline
        BY <4>1, <4>4 DEF AttemptTimeout, Deadline
      <4> QED
        BY <3>1, <4>2, <4>3, <4>4 DEF Timers
    <3>2. ASSUME Refuse \/ Accept \/ Cancel PROVE run'.pc # "over"
      <4>1. CASE Refuse
        BY <2>2, <4>1 DEF Refuse, Runs
      <4>2. CASE Accept
        BY <2>2, <4>2 DEF Accept, Request, Runs
      <4>3. CASE Cancel
        BY <2>2, <4>3 DEF Cancel, WakeUp, Abort, Interrupted, Runs
      <4> QED
        BY <3>2, <4>1, <4>2, <4>3
    <3>3. ASSUME CallerReads \/ BodySettles \/ ParseSettles PROVE run'.pc # "over"
      BY <2>2, <3>3 DEF CallerReads, BodySettles, ParseSettles, Runs
    <3>4. ASSUME NEW n \in Attempt, HostSettles(n) PROVE run'.pc # "over"
      BY <2>2, <3>4 DEF HostSettles, Replies, Arrive, Fails, Runs
    <3>5. ~Decide
      BY DEF Decide
    <3> QED
      BY <3>1, <3>2, <3>3, <3>4, <3>5 DEF Next, Code, Outside
  <2> QED
    BY <2>3, <2>4, <2>5, <2>6, <2>7
<1>2. Spec => [][Explained]_vars
  BY <1>1, Invariance, PTL DEF Spec
<1> QED
  BY <1>2 DEF OutcomeFollowsAbort

=============================================================================
