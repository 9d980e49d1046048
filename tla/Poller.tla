------------------------------- MODULE Poller --------------------------------
(* poller.py's run_poller: one task per backend, for as long as the gate      *)
(* serves.  Each turn of its loop polls /metrics, polls /v1/models when that  *)
(* is due, and sleeps; a step is what the task runs between two awaits.       *)
(*                                                                            *)
(* Two tasks share no timer, so each backend has its own clock, kept as the   *)
(* time since the events its code measures from and capped where more time    *)
(* makes no difference.                                                       *)
EXTENDS KvFeed, ModelRegistry

CONSTANTS
  Interval,     \* metrics_poll_interval_s
  Refresh,      \* model_refresh_interval_s
  StaleAfter,   \* stale_after_s
  Healthy,      \* backends that answer every poll within Latency, with a usage;
  Latency,      \*   of the others a poll may fail, or hang for good
  Raising       \* backends with a /v1/models body that json.loads raises a
                \*   RecursionError on

ASSUME PollerAssumption ==
  /\ Interval \in Nat \ {0}
  /\ Refresh \in Nat \ {0}
  /\ StaleAfter \in Nat \ {0}
  /\ Latency \in Nat
  /\ Healthy \subseteq Backends
  /\ Raising \subseteq Backends

VARIABLES
  task,       \* where the task of each backend is
  elapsed,    \* the time it has spent in its current call or sleep
  age,        \* the age of the last usage read
  since,      \* the time since the last discovery attempt, None before the first
  warned,     \* warned_routing_order: the models b was found dead for
  served      \* environment: what the backend's /v1/models lists

taskVars == <<task, elapsed, age, since, warned, served>>
vars == <<feedVars, owned, taskVars>>

Awaits == {"metrics", "models", "sleep"}
Ends == {"cancelled", "raised"}

Cap(n, top) == IF n > top THEN top ELSE n

TypeOK ==
  /\ FeedTypeOK
  /\ RegistryTypeOK
  /\ task \in [Backends -> Awaits \cup Ends]
  /\ elapsed \in [Backends -> Nat]
  /\ age \in [Backends -> Nat]
  /\ since \in [Backends -> NatOrNone]
  /\ warned \in [Backends -> SUBSET Models]
  /\ served \in [Backends -> Served]

Init ==
  /\ FeedInit
  /\ RegistryInit
  /\ task = [b \in Backends |-> "metrics"]
  /\ elapsed = [b \in Backends |-> 0]
  /\ age = [b \in Backends |-> StaleAfter + 1]
  /\ since = [b \in Backends |-> None]
  /\ warned = [b \in Backends |-> {}]
  /\ served \in [Backends -> Served]

-----------------------------------------------------------------------------
(* MetricsCache.is_stale: never read, or older than stale_after_s.            *)
\* Mutant of Stale: the bound itself is stale already.
StaleAtBound(a) == a >= StaleAfter

Stale(a) == a > StaleAfter

GoesTo(b, place) ==
  /\ task' = [task EXCEPT ![b] = place]
  /\ elapsed' = [elapsed EXCEPT ![b] = 0]

\* Mutant of Due: the first attempt is the only one.
DueOnce(b) == since[b] = None

Due(b) == since[b] = None \/ since[b] >= Refresh

\* After a poll of /metrics, however it ended: the attempt is timed from before
\* its fetch.
AfterMetrics(b) ==
  /\ GoesTo(b, IF Due(b) THEN "models" ELSE "sleep")
  /\ since' = [since EXCEPT ![b] = IF Due(b) THEN 0 ELSE @]
  /\ UNCHANGED <<owned, warned, served>>

MetricsAnswer(b) ==
  /\ task[b] = "metrics"
  /\ \E s \in Samples[b] :
       /\ b \in Healthy => s.usage # None
       /\ MetricsTick(b, s)
       /\ age' = [age EXCEPT ![b] = IF s.usage # None THEN 0 ELSE @]
  /\ AfterMetrics(b)

\* Mutant of MetricsFail: a failed poll counts as a reading of the kept value.
MetricsFailTouches(b) ==
  /\ task[b] = "metrics"
  /\ b \notin Healthy
  /\ age' = [age EXCEPT ![b] = IF usage[b] # None THEN 0 ELSE @]
  /\ fresh' = [fresh EXCEPT ![b] = usage[b] # None]
  /\ AfterMetrics(b)
  /\ UNCHANGED <<usage, counter, capacity, anchor_seq, alert, seen, anchor>>

\* httpx.HTTPError: all state is kept.
MetricsFail(b) ==
  /\ task[b] = "metrics"
  /\ b \notin Healthy
  /\ AfterMetrics(b)
  /\ UNCHANGED <<feedVars, age>>

-----------------------------------------------------------------------------
(* Discovery.                                                                 *)

\* The models whose routing order names b although b does not serve them.
DeadFor(b, owned_models) ==
  {m \in DOMAIN RoutingSpecs :
     b \in Listed(RoutingSpecs[m].order) /\ m \notin owned_models}

\* Mutant of Syncs: one warning per backend instead of one per pair.
SyncsWarnOnce(b, discovered) ==
  /\ Discover(b, discovered)
  /\ warned' = [warned EXCEPT ![b] = IF @ = {} THEN DeadFor(b, owned'[b]) ELSE @]

Syncs(b, discovered) ==
  /\ Discover(b, discovered)
  /\ warned' = [warned EXCEPT ![b] = @ \cup DeadFor(b, owned'[b])]

AfterModels(b) ==
  /\ GoesTo(b, "sleep")
  /\ UNCHANGED <<feedVars, age, since, served>>

ModelsAnswer(b) ==
  /\ task[b] = "models"
  /\ Syncs(b, served[b])
  /\ AfterModels(b)

\* Mutant of ModelsFail: a failed fetch drops the map.
ModelsFailDrops(b) ==
  /\ task[b] = "models"
  /\ Sync(b, ExplicitModels[b])
  /\ AfterModels(b)
  /\ UNCHANGED warned

\* A transport error, an answer other than 200 or a body that is no model list:
\* explicit models are synced all the same, else the last known map stays.
ModelsFail(b) ==
  /\ task[b] = "models"
  /\ IF ExplicitModels[b] # {} THEN Syncs(b, {}) ELSE UNCHANGED <<owned, warned>>
  /\ AfterModels(b)

\* parse_v1_models catches JSONDecodeError and ValueError only.
ModelsRaise(b) ==
  /\ task[b] = "models"
  /\ b \in Raising
  /\ GoesTo(b, "raised")
  /\ UNCHANGED <<feedVars, owned, age, since, warned, served>>

-----------------------------------------------------------------------------
(* The loop's sleep, its cancellation, time, and the backend's own changes.   *)

Wakes(b) ==
  /\ task[b] = "sleep"
  /\ elapsed[b] = Interval
  /\ GoesTo(b, "metrics")
  /\ UNCHANGED <<feedVars, owned, age, since, warned, served>>

\* CancelledError is raised at the await the task is at, and re-raised.
Cancelled(b) ==
  /\ task[b] \in Awaits
  /\ GoesTo(b, "cancelled")
  /\ UNCHANGED <<feedVars, owned, age, since, warned, served>>

\* Nothing measures the time of a call that may take for ever.
Timed(b) == task[b] = "sleep" \/ (task[b] \in Awaits /\ b \in Healthy)

\* A sleep ends when it is over and a healthy backend answers in time: the loop
\* is not blocked meanwhile.
Passes(b) ==
  /\ task[b] = "sleep" => elapsed[b] < Interval
  /\ task[b] \in {"metrics", "models"} /\ b \in Healthy => elapsed[b] < Latency
  /\ elapsed' = [elapsed EXCEPT ![b] = @ + IF Timed(b) THEN 1 ELSE 0]
  /\ age' = [age EXCEPT ![b] = Cap(@ + 1, StaleAfter + 1)]
  /\ since' = [since EXCEPT ![b] = IF @ = None THEN None ELSE Cap(@ + 1, Refresh)]
  /\ fresh' = [fresh EXCEPT ![b] = @ /\ ~Stale(age[b] + 1)]
  /\ UNCHANGED <<usage, counter, capacity, anchor_seq, alert, seen, anchor,
                 owned, task, warned, served>>

\* External: the backend loads or unloads models.
Redeploys(b) ==
  /\ served' \in {[served EXCEPT ![b] = models] : models \in Served}
  /\ UNCHANGED <<feedVars, owned, task, elapsed, age, since, warned>>

Step(b) ==
  \/ MetricsAnswer(b)
  \/ MetricsFail(b)
  \/ ModelsAnswer(b)
  \/ ModelsFail(b)
  \/ ModelsRaise(b)
  \/ Wakes(b)

Next == \E b \in Backends : Step(b) \/ Passes(b) \/ Redeploys(b)

Spec == Init /\ [][Next]_vars

\* Time passes, the loop runs a timer that is due, and a healthy backend answers
\* what it is asked, a 200 infinitely often if it is asked infinitely often.
\* Nothing is assumed of the answers of the others.
Fairness ==
  \A b \in Backends :
    /\ WF_vars(Passes(b))
    /\ WF_vars(Wakes(b))
    /\ b \in Healthy => WF_vars(MetricsAnswer(b)) /\ SF_vars(ModelsAnswer(b))

FairSpec == Spec /\ Fairness
-----------------------------------------------------------------------------
(* Properties.                                                                *)

\* A backend that answers every poll keeps its feed fresh, from its first usage
\* on, if stale_after_s covers the interval and two slow calls: /v1/models is
\* polled by the same task, so a slow listing delays the next scrape
\* (poller.py:324, 417 and 457, metrics.py:443-454).
FreshWhileAnswering ==
  StaleAfter >= Interval + 2 * Latency =>
    \A b \in Healthy \ Raising : usage[b] # None => fresh[b]

\* What a backend does not serve, although a routing order names it, was warned
\* about, whenever the models it owns changed and however its polls ended
\* (poller.py:434-437).
DeadCandidatesWarned ==
  \A b \in Backends, m \in DOMAIN RoutingSpecs :
    owned[b] # {} /\ b \in Listed(RoutingSpecs[m].order) => m \in owned[b] \cup warned[b]

\* The only way a poller ends is its cancellation (poller.py:83, 95, 98-100).
EndsByCancellationOnly == \A b \in Backends : task[b] # "raised"

Effects == INSTANCE PollerEffects

\* The loop, with its timers, does to the feeds and the registry only what a
\* request handler is checked against (poller.py:322-457).
EffectsSpec == Effects!Spec

ReadsUsage(b) == MetricsAnswer(b) /\ age'[b] = 0

\* A feed that no poll reads a usage from goes stale, whether its backend fails,
\* answers without one, or hangs: an outage never leaves admission on the last
\* value (poller.py:91-93, metrics.py:443-454).
OutageFailsOpen ==
  \A b \in Backends : <>[][~ReadsUsage(b)]_vars => <>[]~fresh[b]

\* The models of a backend that stops changing are in the registry in the end,
\* however often discovery failed before; the configured models of a backend
\* are, whatever its polls answer, if they end at all (poller.py:412-456).
MapConverges ==
  \A b \in Backends :
    IF ExplicitModels[b] # {}
    THEN []<>(task[b] = "sleep") => <>[](owned[b] = ExplicitModels[b])
    ELSE \A models \in Served :
           b \in Healthy /\ <>[](served[b] = models) => <>[](owned[b] = models)
=============================================================================
