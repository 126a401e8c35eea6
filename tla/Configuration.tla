--------------------------- MODULE Configuration ---------------------------
(***************************************************************************)
(* What a client accepts as its configuration (src/core/validate.ts) and   *)
(* what comes of it: the client's settings, those of the partition and     *)
(* those of the request are validated one by one, and only then merged     *)
(* (src/core/client.ts, src/queue/bulkhead.ts) and given their defaults    *)
(* (src/core/types.ts).                                                    *)
(*                                                                         *)
(* An options object is a function on the keys it has.  A key with the     *)
(* value undefined is not a missing key: spreading the object keeps it.    *)
(* The numbers are the integers, Half (a positive number that is no        *)
(* integer), NaN and Infinity; a value of another type is NaN too.         *)
(***************************************************************************)
EXTENDS Integers

CONSTANTS
  NaN, Infinity, Half, Undefined,
  Off,                \* the value false of an optional group
  MaxTimer            \* MAX_TIMER_MS

ASSUME MaxTimerAssumption == MaxTimer \in Nat \ {0}

\* They are what they are called: no two of these are the same value.
ASSUME ValuesAssumption ==
  /\ NaN \notin Int /\ Undefined \notin Int /\ Half \notin Int /\ Infinity \notin Int
  /\ NaN \notin {Undefined, Half, Infinity}
  /\ Undefined \notin {Half, Infinity}
  /\ Half # Infinity

-----------------------------------------------------------------------------
(* Numbers and objects *)

Finite(x) == x = Half \/ x \in Int

Positive(x) == x \in {Half, Infinity} \/ x \in Nat \ {0}

NonNegative(x) == x \in {Half, Infinity} \/ x \in Nat

PositiveInteger(x) == x \in Nat \ {0}

AtLeastOne(x) == x \in Nat \ {0}

Get(o, key) == IF key \in DOMAIN o THEN o[key] ELSE Undefined

\* o?.key for a key whose value is an object: absent is the empty object.
Sub(o, key) ==
  IF key \in DOMAIN o /\ o[key] # Undefined THEN o[key] ELSE <<>>

\* Every value that is given passes.
Unless(o, key, Test(_)) == Get(o, key) = Undefined \/ Test(o[key])

\* x ?? default
OrElse(x, default) == IF x = Undefined THEN default ELSE x

\* { ...under, ...over }
Spread(under, over) ==
  [key \in DOMAIN under \cup DOMAIN over |-> IF key \in DOMAIN over THEN over[key] ELSE under[key]]

-----------------------------------------------------------------------------
(* Validation.  Every check is one that NaN fails. *)

\* Mutant: what is not positive is refused, and NaN is not "not positive".
ValidTimerNaive(ms) == ~(ms \in Int /\ ms <= 0) /\ (ms \in Int => ms <= MaxTimer)

\* validateTimerMs: what setTimeout can hold, or Infinity for no timeout.
ValidTimer(ms) == Positive(ms) /\ (ms \in Int => ms <= MaxTimer)

ValidTimeout(o) ==
  Unless(o, "attemptMs", ValidTimer) /\ Unless(o, "totalMs", ValidTimer)

ValidBackoff(o) ==
  /\ Unless(o, "baseDelayMs", NonNegative) /\ Unless(o, "maxDelayMs", NonNegative)
  /\ LET base == Get(o, "baseDelayMs")
         cap == Get(o, "maxDelayMs")
     IN base = Undefined \/ cap = Undefined \/ cap = Infinity
          \/ (base = Half /\ cap # 0)
          \/ (base \in Int /\ cap \in Int /\ base <= cap)
          \/ (base = 0 /\ cap = Half)

\* A status is an HTTP error status, or it is not one ("other").
ValidRetry(o) ==
  /\ Unless(o, "maxRetries", LAMBDA x : x \in Nat)
  /\ Unless(o, "idempotencyKey", LAMBDA x : x \in {"on", "off", "function"})
  /\ Unless(o, "retryOnStatus", LAMBDA x : x \subseteq {"error"})
  /\ ValidBackoff(Sub(o, "backoff"))

\* A group that is off or absent needs no check.
Optional(o, key, Test(_)) == Get(o, key) \in {Undefined, Off} \/ Test(o[key])

ValidPause(o) ==
  /\ Unless(o, "statuses", LAMBDA x : x \subseteq {"error", "success"})
  /\ Unless(o, "maxPauseMs", LAMBDA x : Finite(x) /\ Positive(x))

ValidRateLimit(o) ==
  /\ Finite(Get(o, "tokensPerSec")) /\ Positive(Get(o, "tokensPerSec"))
  /\ Unless(o, "burst", LAMBDA x : Finite(x) /\ AtLeastOne(x))
  /\ Unless(o, "maxWaitMs", NonNegative)

ValidBudget(o) ==
  /\ Finite(Get(o, "ratio")) /\ NonNegative(Get(o, "ratio"))
  /\ Finite(Get(o, "windowMs")) /\ Positive(Get(o, "windowMs"))
  /\ Unless(o, "minRetriesPerSec", LAMBDA x : Finite(x) /\ NonNegative(x))

\* The window has no defaults: each of its three numbers must be there.
ValidWindow(o) ==
  /\ Finite(Get(o, "sizeMs")) /\ Positive(Get(o, "sizeMs"))
  /\ LET percent == Get(o, "failureRatePercent")
     IN percent = Half \/ percent \in 1..100
  /\ PositiveInteger(Get(o, "minimumRequests"))

ValidBreaker(o) ==
  /\ Unless(o, "failureThreshold", PositiveInteger)
  /\ Unless(o, "resetTimeoutMs", LAMBDA x : Finite(x) /\ Positive(x))
  /\ Unless(o, "halfOpenMaxAttempts", PositiveInteger)
  /\ Unless(o, "window", ValidWindow)

\* What the client's and a partition's settings have in common.
ValidGroups(o) ==
  /\ ValidTimeout(Sub(o, "timeout"))
  /\ ValidRetry(Sub(o, "retry"))
  /\ ValidBreaker(Sub(o, "circuitBreaker"))
  /\ Optional(o, "retryBudget", ValidBudget)
  /\ Optional(o, "rateLimit", ValidRateLimit)
  /\ Optional(o, "pauseOnRetryAfter", ValidPause)

ValidPartition(o) ==
  /\ Unless(o, "concurrency", PositiveInteger)
  /\ Unless(o, "maxQueueSize", PositiveInteger)
  /\ ValidGroups(o)

\* validateConfig: the client must decide on its attempts' timeout.
ValidClient(o) ==
  /\ Unless(o, "concurrency", PositiveInteger)
  /\ Unless(o, "maxQueueSize", LAMBDA x : x \in Nat)
  /\ Unless(o, "redirect", LAMBDA x : x \in {"follow", "manual"})
  /\ Get(Sub(o, "timeout"), "attemptMs") # Undefined
  /\ ValidGroups(o)

\* validateRequestOptions
ValidRequest(o) ==
  /\ Unless(o, "method", LAMBDA x : x # "TRACE")
  /\ Unless(o, "responseType", LAMBDA x : x # "unknown")
  /\ ValidTimeout(Sub(o, "timeout"))
  /\ ValidRetry(Sub(o, "retry"))

\* validateRequestBody: a stream can be sent only once, unless a factory makes it.
ValidBody(o) == Get(o, "body") # "stream"

-----------------------------------------------------------------------------
(* Merging *)

\* partitionLookup: a listed partition takes nothing from the fallback.
PartitionOf(l) == IF l.listed = Undefined THEN l.fallback ELSE l.listed

\* mergeTimeout and mergeRetry: the request over the partition over the client.
Layered(l, key) ==
  Spread(Spread(Sub(l.client, key), Sub(PartitionOf(l), key)), Sub(l.request, key))

\* mergeOptional: field by field, unless one side is off or both are absent.
MergeOptional(global, partition) ==
  IF Off \in {global, partition} \/ {global, partition} = {Undefined} THEN Undefined
  ELSE Spread(OrElse(global, <<>>), OrElse(partition, <<>>))

\* BulkheadRegistry: the limits of a partition are its own; the client's are
\* those of the global semaphore.
Limits(l) ==
  [concurrency |-> OrElse(Get(PartitionOf(l), "concurrency"), 5),
   maxQueueSize |-> OrElse(Get(PartitionOf(l), "maxQueueSize"), 100)]

GlobalLimits(l) ==
  [concurrency |-> OrElse(Get(l.client, "concurrency"), 50),
   maxQueueSize |-> OrElse(Get(l.client, "maxQueueSize"), 100)]

Both(l, key) == MergeOptional(Get(l.client, key), Get(PartitionOf(l), key))

Timeouts(l) == Layered(l, "timeout")

Retries(l) == Layered(l, "retry")

Breaker(l) == Spread(Sub(l.client, "circuitBreaker"), Sub(PartitionOf(l), "circuitBreaker"))

\* isBoundedMs
Bounded(ms) == ms # Undefined /\ Finite(ms)

AcceptedBy(l) == ValidClient(l.client) /\ (l.listed = Undefined \/ ValidPartition(l.listed))
                   /\ ValidPartition(l.fallback)

-----------------------------------------------------------------------------
(* What the rest of the client needs of the merged settings *)

\* A timer that is set is one setTimeout can hold.
TimersFit(o) ==
  \A key \in {"attemptMs", "totalMs"} :
    Get(o, key) \in {Undefined, Infinity, Half} \cup 1..MaxTimer

\* A delay is a number, and no retry count is negative or fractional.
RetriesUsable(o) ==
  /\ OrElse(Get(o, "maxRetries"), 3) \in Nat
  /\ LET backoff == Sub(o, "backoff")
     IN NaN \notin {Get(backoff, "baseDelayMs"), Get(backoff, "maxDelayMs")}

\* The assumptions of CircuitBreaker: it can trip, and leave open and half-open.
BreakerUsable(o) ==
  /\ OrElse(Get(o, "failureThreshold"), 5) \in Nat \ {0}
  /\ OrElse(Get(o, "halfOpenMaxAttempts"), 1) \in Nat \ {0}
  /\ LET reset == OrElse(Get(o, "resetTimeoutMs"), 30) IN Finite(reset) /\ Positive(reset)
  /\ Get(o, "window") # Undefined =>
       LET size == o["window"].sizeMs IN Finite(size) /\ Positive(size)

\* The assumptions of Partitions and of Pacing: the window has a length, and a
\* bucket can hold the token an attempt needs, at a rate that fills it.
BudgetUsable(o) == o # Undefined => Finite(o["windowMs"]) /\ Positive(o["windowMs"])

RateUsable(o) ==
  o # Undefined =>
    /\ Finite(o["tokensPerSec"]) /\ Positive(o["tokensPerSec"])
    /\ Get(o, "burst") # Undefined => o["burst"] \in Nat \ {0}

\* The assumptions of Bulkhead and of Semaphore: a slot and a permit to give,
\* and room to wait for a slot; there need be none for a permit.
LimitsUsable(own, global) ==
  /\ own.concurrency \in Nat \ {0} /\ own.maxQueueSize \in Nat \ {0}
  /\ global.concurrency \in Nat \ {0} /\ global.maxQueueSize \in Nat

\* An optional group that either layer turned off is off.
OffIsOff(l) ==
  \A key \in {"retryBudget", "rateLimit", "pauseOnRetryAfter"} :
    Off \in {Get(l.client, key), Get(PartitionOf(l), key)} => Both(l, key) = Undefined

Usable(l) ==
  /\ TimersFit(Timeouts(l)) /\ RetriesUsable(Retries(l)) /\ BreakerUsable(Breaker(l))
  /\ BudgetUsable(Both(l, "retryBudget")) /\ RateUsable(Both(l, "rateLimit"))
  /\ LimitsUsable(Limits(l), GlobalLimits(l))
  /\ OffIsOff(l)

=============================================================================
