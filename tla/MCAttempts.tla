----------------------------- MODULE MCAttempts -----------------------------
(* Instances of Attempts for TLC: the configurations that are tried. *)
EXTENDS Attempts, TLC

Numbers == {-1, 0, 1, MaxTimer, MaxTimer + 1, NaN, Infinity, Undefined}

\* The same with a number that is no integer.
Fractions == Numbers \cup {Half}

\* A client with these settings, a partition with those, and a request.
Layer(client, listed, fallback, request) ==
  [client |-> client, listed |-> listed, fallback |-> fallback, request |-> request]

Timed == [timeout |-> [attemptMs |-> 2]]

Once == [retry |-> [maxRetries |-> 1]]

\* The attempts' timeout on each of the layers, absent or not, and the ticket's.
Timeout(attemptMs) == [timeout |-> [attemptMs |-> attemptMs]]

TimeoutLayers ==
  {Layer(Spread(Once, Timeout(a)), listed, fallback, request) :
     a \in Numbers,
     listed \in {Undefined, <<>>} \cup {Timeout(b) : b \in {NaN, Infinity, Undefined, 1}},
     fallback \in {<<>>, Timeout(1)},
     request \in {<<>>, Timeout(MaxTimer + 1), Timeout(Undefined), Timeout(Infinity)}}
  \cup {Layer(Spread(Once, [timeout |-> [attemptMs |-> 2, totalMs |-> t]]), Undefined, <<>>, <<>>) :
          t \in Numbers}

\* The retries: how many, with what backoff, and the key.
RetryOptions ==
  {[maxRetries |-> n] : n \in Fractions}
  \cup {[maxRetries |-> 1, idempotencyKey |-> k] : k \in {"on", "off", "number"}}
  \cup {[maxRetries |-> 1, idempotent |-> TRUE], [maxRetries |-> 1, retryOnStatus |-> {"other"}]}
  \cup {[maxRetries |-> 1, backoff |-> [baseDelayMs |-> b, maxDelayMs |-> c]] :
          b \in {NaN, 1, 4, Infinity}, c \in {0, 3, Infinity}}

RetryLayers ==
  {Layer(Spread(Timed, [retry |-> r]), listed, <<>>, <<>>) :
     r \in RetryOptions,
     listed \in {Undefined} \cup {[retry |-> [maxRetries |-> n]] : n \in {0, Undefined}}}
  \cup {Layer(Timed, Undefined, <<>>, Spread(request, [retry |-> r])) :
          r \in RetryOptions,
          request \in {<<>>, [body |-> "stream"], [method |-> "TRACE"], [responseType |-> "unknown"]}}

\* A group of settings of the client against that of a partition.
Group(key, clients, partitions) ==
  {Layer(Spread(Timed, c), p, <<>>, <<>>) :
     c \in {<<>>} \cup {key :> v : v \in clients},
     p \in {Undefined, <<>>} \cup {key :> v : v \in partitions}}

Budgets ==
  {Off} \cup {[ratio |-> r, windowMs |-> w, minRetriesPerSec |-> m] :
                r \in {0, Half, Infinity, Undefined}, w \in Fractions, m \in {NaN, 1}}

Rates ==
  {Off} \cup {[tokensPerSec |-> r, burst |-> b, maxWaitMs |-> w] :
                r \in Fractions, b \in {0, 1, Half, Undefined}, w \in {-1, 0, Infinity}}

Pauses ==
  {Off} \cup {[statuses |-> s, maxPauseMs |-> m] : s \in {{"error"}, {"other"}}, m \in Fractions}

Windows ==
  {[sizeMs |-> s, failureRatePercent |-> f, minimumRequests |-> m] :
     s \in {0, Half, Infinity}, f \in {0, Half, 100, 101, NaN}, m \in {0, 1, Half, Undefined}}

Breakers ==
  {[failureThreshold |-> f, resetTimeoutMs |-> r, halfOpenMaxAttempts |-> h] :
     f \in {0, 1, Half}, r \in Fractions, h \in {0, 1, Infinity, Undefined}}
  \cup {[window |-> w] : w \in Windows}

LimitOptions == {[concurrency |-> c, maxQueueSize |-> q] : c \in Fractions, q \in {0, 1, Half}}

GroupLayers ==
  Group("retryBudget", Budgets, {Off, [ratio |-> 1, windowMs |-> 2], [ratio |-> 1]})
  \cup Group("rateLimit", Rates, {Off, [tokensPerSec |-> 1], [burst |-> 1]})
  \cup Group("pauseOnRetryAfter", Pauses, {Off, <<>>, [maxPauseMs |-> NaN]})
  \cup Group("circuitBreaker", Breakers, {<<>>, [resetTimeoutMs |-> Infinity]})
  \cup {Layer(Spread(Timed, l), p, <<>>, <<>>) :
          l \in LimitOptions \cup {[redirect |-> "error"]}, p \in {Undefined} \cup LimitOptions}

\* The groups are only validated and merged: their clients keep the default
\* number of retries, which is above MaxRetries.
AllLayers == TimeoutLayers \cup RetryLayers \cup GroupLayers

\* One fault of each kind, and three that are refused.
AllFaults ==
  {[status |-> "retryable", retryAfter |-> [form |-> "seconds", value |-> 3]],
   [status |-> "ok"], [latencyMs |-> 3], [networkError |-> TRUE], [hang |-> TRUE],
   [status |-> "informational"], [latencyMs |-> Infinity], [hang |-> TRUE, latencyMs |-> 1]}

\* A delay, a date that passes while the host takes its time, and garbage.
Headers ==
  {[form |-> "seconds", value |-> 3], [form |-> "date", value |-> 2], [form |-> "other"]}

=============================================================================
