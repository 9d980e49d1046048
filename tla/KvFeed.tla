------------------------------- MODULE KvFeed --------------------------------
(* The KV feed of each backend: the caches, the headroom counter and the      *)
(* alert flags of app.py's BackendState, and the poller's metrics tick that   *)
(* writes them.  A request handler reads this state and moves the counter;    *)
(* everything runs on one asyncio loop, so each tick is one atomic step.      *)
EXTENDS Admission

CONSTANTS
  Samples,      \* Samples[b]: what fetch_metrics may return for b
  MaxAnchors    \* MaxAnchors[b]: bound on the anchor sequence of b

Engines == {"vllm", "sglang", "unknown"}

Sample == [observed : BOOLEAN, usage : IntOrNone, capacity : NatOrNone, engine : Engines]

\* fetch_metrics reads a body only of a 200 answer.
ASSUME KvFeedAssumption ==
  /\ None \notin Engines
  /\ MaxAnchors \in [Backends -> Nat]
  /\ \A b \in Backends :
       /\ Samples[b] \subseteq Sample
       /\ \A s \in Samples[b] :
            ~s.observed => s.usage = None /\ s.capacity = None /\ s.engine = "unknown"

VARIABLES
  usage,        \* MetricsCache: the last usage
  fresh,        \* ~MetricsCache.is_stale(stale_after_s)
  counter,      \* KvRemaining: headroom up to the target, None when unanchored
  capacity,     \* CapacityCache: the last capacity
  anchor_seq,   \* the number of re-anchors
  alert,        \* the flags the poller's callbacks set on BackendState
  seen,         \* the poller task's locals that decide when a callback is made
  anchor        \* history: the sample the counter was last anchored from

feedVars == <<usage, fresh, counter, capacity, anchor_seq, alert, seen, anchor>>

FeedTypeOK ==
  /\ usage \in [Backends -> IntOrNone]
  /\ fresh \in [Backends -> BOOLEAN]
  /\ counter \in [Backends -> IntOrNone]
  /\ capacity \in [Backends -> NatOrNone]
  /\ anchor_seq \in [Backends -> Nat]
  /\ alert \in [Backends -> [engine : Engines, metrics_unavailable : BOOLEAN,
                             capacity_unavailable : BOOLEAN]]
  /\ seen \in [Backends -> [last_engine : Engines \cup {None},
                            unavailable : BOOLEAN \cup {None},
                            capacity_missing : BOOLEAN \cup {None}]]
  /\ anchor \in [Backends -> [usage : Int, capacity : Nat]]

FeedInit ==
  /\ usage = [b \in Backends |-> None]
  /\ fresh = [b \in Backends |-> FALSE]
  /\ counter = [b \in Backends |-> None]
  /\ capacity = [b \in Backends |-> None]
  /\ anchor_seq = [b \in Backends |-> 0]
  /\ alert = [b \in Backends |-> [engine |-> "unknown", metrics_unavailable |-> FALSE,
                                  capacity_unavailable |-> FALSE]]
  /\ seen = [b \in Backends |-> [last_engine |-> None, unavailable |-> None,
                                 capacity_missing |-> None]]
  /\ anchor = [b \in Backends |-> [usage |-> 0, capacity |-> 0]]

-----------------------------------------------------------------------------
(* KvRemaining.subtract and add: unclamped, and a no-op when unanchored.      *)
\* Mutant of Minus: the counter never goes below zero.
MinusClamped(remaining, tokens) ==
  IF remaining = None THEN None ELSE IF tokens > remaining THEN 0 ELSE remaining - tokens

Minus(remaining, tokens) == IF remaining = None THEN None ELSE remaining - tokens

Plus(remaining, tokens) == IF remaining = None THEN None ELSE remaining + tokens

-----------------------------------------------------------------------------
(* The poller's metrics tick.                                                 *)

Recognized(s) == s.observed /\ s.engine \in {"vllm", "sglang"}

Anchors(s) == s.observed /\ s.usage # None /\ s.capacity # None

\* Mutant of RaiseAlerts: the capacity callback is handed the previous state.
RaiseAlertsPrevious(b, s) ==
  LET capacity_missing == s.capacity = None
  IN  /\ seen' = [seen EXCEPT ![b].capacity_missing =
                    IF s.observed THEN capacity_missing ELSE @]
      /\ alert' = [alert EXCEPT ![b].capacity_unavailable =
                     IF s.observed THEN seen[b].capacity_missing ELSE @]

\* Mutant of RaiseAlerts: an alert is raised and never cleared.
RaiseAlertsOnly(b, s) ==
  /\ seen' = [seen EXCEPT ![b] =
       [last_engine |-> s.engine, unavailable |-> ~Recognized(s),
        capacity_missing |-> s.capacity = None]]
  /\ alert' = [alert EXCEPT ![b] =
       [engine |-> s.engine,
        metrics_unavailable |-> @.metrics_unavailable \/ ~Recognized(s),
        capacity_unavailable |-> @.capacity_unavailable \/ s.capacity = None]]

\* The callbacks are made on a change of the poller's own state only.
RaiseAlerts(b, s) ==
  LET unavailable      == ~Recognized(s)
      capacity_missing == s.capacity = None
  IN  /\ seen' = [seen EXCEPT ![b] =
           [last_engine      |-> IF s.observed THEN s.engine ELSE @.last_engine,
            unavailable      |-> unavailable,
            capacity_missing |-> IF s.observed THEN capacity_missing
                                 ELSE @.capacity_missing]]
      /\ alert' = [alert EXCEPT ![b] =
           [engine |-> IF s.observed /\ s.engine # seen[b].last_engine
                       THEN s.engine ELSE @.engine,
            metrics_unavailable |-> IF unavailable # seen[b].unavailable
                                    THEN unavailable ELSE @.metrics_unavailable,
            capacity_unavailable |->
              IF s.observed /\ capacity_missing # seen[b].capacity_missing
              THEN capacity_missing ELSE @.capacity_unavailable]]

UpdateCaches(b, s) ==
  /\ usage' = [usage EXCEPT ![b] = IF s.usage = None THEN @ ELSE s.usage]
  /\ fresh' = [fresh EXCEPT ![b] = @ \/ s.usage # None]
  /\ capacity' = [capacity EXCEPT ![b] = IF s.capacity = None THEN @ ELSE s.capacity]

\* Mutant of Reanchor: a body without capacity keeps the counter.
ReanchorKeeping(b, s) ==
  /\ counter' = [counter EXCEPT ![b] =
       IF Anchors(s) THEN AnchorRemaining(b, s.capacity, s.usage) ELSE @]
  /\ anchor_seq' = [anchor_seq EXCEPT ![b] = IF Anchors(s) THEN @ + 1 ELSE @]
  /\ anchor' = [anchor EXCEPT ![b] =
       IF Anchors(s) THEN [usage |-> s.usage, capacity |-> s.capacity] ELSE @]

\* Mutant of Reanchor: the sequence counts only what replaces an anchor.
ReanchorUncounted(b, s) ==
  /\ counter' = [counter EXCEPT ![b] =
       IF Anchors(s) THEN AnchorRemaining(b, s.capacity, s.usage)
       ELSE IF s.observed /\ s.capacity = None THEN None ELSE @]
  /\ anchor_seq' = [anchor_seq EXCEPT ![b] =
       IF Anchors(s) /\ counter[b] # None THEN @ + 1 ELSE @]
  /\ anchor' = [anchor EXCEPT ![b] =
       IF Anchors(s) THEN [usage |-> s.usage, capacity |-> s.capacity] ELSE @]

\* An observed body without capacity unanchors the counter and leaves the
\* sequence alone; one with usage and capacity re-anchors it and bumps it.
Reanchor(b, s) ==
  /\ counter' = [counter EXCEPT ![b] =
       IF Anchors(s) THEN AnchorRemaining(b, s.capacity, s.usage)
       ELSE IF s.observed /\ s.capacity = None THEN None
       ELSE @]
  /\ anchor_seq' = [anchor_seq EXCEPT ![b] = IF Anchors(s) THEN @ + 1 ELSE @]
  /\ anchor' = [anchor EXCEPT ![b] =
       IF Anchors(s) THEN [usage |-> s.usage, capacity |-> s.capacity] ELSE @]

\* A fetch that raises a transport error changes nothing and is a stutter.
MetricsTick(b, s) ==
  /\ Anchors(s) => anchor_seq[b] < MaxAnchors[b]
  /\ RaiseAlerts(b, s)
  /\ UpdateCaches(b, s)
  /\ Reanchor(b, s)

\* Time passes beyond stale_after_s without a usage being read.
FeedAges(b) ==
  /\ fresh[b]
  /\ fresh' = [fresh EXCEPT ![b] = FALSE]
  /\ UNCHANGED <<usage, counter, capacity, anchor_seq, alert, seen, anchor>>

-----------------------------------------------------------------------------
(* Properties.                                                                *)

\* The counter a request is admitted against was anchored from the very usage
\* its tiered decision reads: no tick leaves the two layers on different polls
\* (poller.py:384-405 updates the cache and the counter under separate tests).
AnchorMatchesUsage ==
  \A b \in Backends : counter[b] # None => usage[b] = anchor[b].usage

\* The capacity alert is up exactly when the last observed body lacked the
\* capacity, and while it is up the autoconfig layer has no anchor to reject
\* with (poller.py:360-383: callbacks on a change only, unanchor on every tick).
CapacityAlertTruthful ==
  \A b \in Backends :
    /\ alert[b].capacity_unavailable <=> seen[b].capacity_missing = TRUE
    /\ alert[b].capacity_unavailable => counter[b] = None
    /\ alert[b].metrics_unavailable <=> seen[b].unavailable = TRUE
=============================================================================
