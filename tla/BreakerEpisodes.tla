-------------------------- MODULE BreakerEpisodes --------------------------
(***************************************************************************)
(* What a circuit breaker promises its callers, without counters or        *)
(* generations: while half-open it runs one episode, a set of at most      *)
(* MaxTrials callers on trial, and only a member of that set can end the   *)
(* episode.  A caller leaves the set without deciding when its attempt     *)
(* says nothing about the host.                                            *)
(***************************************************************************)
EXTENDS Naturals, FiniteSets

CONSTANTS Callers, MaxTrials

VARIABLES
  phase,      \* "closed" | "open" | "half-open"
  trials      \* the callers on trial in the present episode

vars == <<phase, trials>>

Init == phase = "closed" /\ trials = {}

\* Enough failures were recorded while closed.
Trip ==
  /\ phase = "closed"
  /\ phase' = "open"
  /\ UNCHANGED trials

\* The first caller after the reset timeout begins an episode.
Probe(c) ==
  /\ phase = "open"
  /\ phase' = "half-open"
  /\ trials' = {c}

Join(c) ==
  /\ phase = "half-open"
  /\ c \notin trials
  /\ Cardinality(trials) < MaxTrials
  /\ trials' = trials \cup {c}
  /\ UNCHANGED phase

Yield(c) ==
  /\ c \in trials
  /\ trials' = trials \ {c}
  /\ UNCHANGED phase

Decide(c) ==
  /\ c \in trials
  /\ phase' \in {"closed", "open"}
  /\ trials' = {}

Next ==
  \/ Trip
  \/ \E c \in Callers : Probe(c) \/ Join(c) \/ Yield(c) \/ Decide(c)

Spec == Init /\ [][Next]_vars

=============================================================================
