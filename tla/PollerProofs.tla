---------------------------- MODULE PollerProofs -----------------------------
(* Theorems of Poller and GateProcess, for any number of backends, any timing *)
(* of their polls and every configuration.                                    *)
EXTENDS GateProcess, ComponentProofs

-----------------------------------------------------------------------------
(* Types.                                                                     *)

\* What every step of the loop leaves well-formed of its own variables.
TaskTypeOK ==
  /\ task \in [Backends -> Awaits \cup Ends]
  /\ elapsed \in [Backends -> Nat]
  /\ age \in [Backends -> Nat]
  /\ since \in [Backends -> NatOrNone]
  /\ warned \in [Backends -> SUBSET Models]
  /\ served \in [Backends -> Served]

LEMMA TypeParts == TypeOK <=> FeedTypeOK /\ RegistryTypeOK /\ TaskTypeOK
  BY DEF TypeOK, TaskTypeOK

LEMMA GoesToType ==
  ASSUME TaskTypeOK, NEW b \in Backends, NEW place \in Awaits \cup Ends, GoesTo(b, place)
  PROVE  /\ task' \in [Backends -> Awaits \cup Ends]
         /\ elapsed' \in [Backends -> Nat]
  BY DEF TaskTypeOK, GoesTo

\* The loop goes on after a poll of /metrics, to discovery or to its sleep.
LEMMA AfterMetricsType ==
  ASSUME TaskTypeOK, NEW b \in Backends, AfterMetrics(b)
  PROVE  /\ task' \in [Backends -> Awaits \cup Ends]
         /\ elapsed' \in [Backends -> Nat]
         /\ since' \in [Backends -> NatOrNone]
         /\ warned' \in [Backends -> SUBSET Models]
         /\ served' \in [Backends -> Served]
         /\ UNCHANGED owned
<1>1. PICK place \in {"models", "sleep"} : GoesTo(b, place)
  BY DEF AfterMetrics
<1>2. task' \in [Backends -> Awaits \cup Ends] /\ elapsed' \in [Backends -> Nat]
  BY <1>1, GoesToType DEF Awaits
<1>3. since' \in [Backends -> NatOrNone]
  BY DEF AfterMetrics, TaskTypeOK, NatOrNone
<1> QED
  BY <1>2, <1>3 DEF AfterMetrics, TaskTypeOK

LEMMA MetricsType ==
  ASSUME TypeOK, NEW b \in Backends, MetricsAnswer(b) \/ MetricsFail(b)
  PROVE  TypeOK'
<1>1. AfterMetrics(b)
  BY DEF MetricsAnswer, MetricsFail
<1>2. FeedTypeOK'
  <2>1. CASE MetricsAnswer(b)
    BY <2>1, MetricsTickType DEF MetricsAnswer, TypeOK
  <2>2. CASE MetricsFail(b)
    BY <2>2 DEF MetricsFail, feedVars, TypeOK, FeedTypeOK
  <2> QED BY <2>1, <2>2
<1>3. age' \in [Backends -> Nat]
  BY DEF MetricsAnswer, MetricsFail, TypeOK
<1>4. TaskTypeOK' /\ UNCHANGED owned
  <2>1. TaskTypeOK
    BY TypeParts
  <2> QED BY <1>1, <1>3, <2>1, AfterMetricsType DEF TaskTypeOK
<1> QED
  BY <1>2, <1>4 DEF TypeOK, TaskTypeOK, RegistryTypeOK

\* The dead candidates a sync warns about are models.
LEMMA SyncsType ==
  ASSUME TypeOK, NEW b \in Backends, NEW discovered \in SUBSET Models, Syncs(b, discovered)
  PROVE  RegistryTypeOK' /\ warned' \in [Backends -> SUBSET Models]
<1>1. RegistryTypeOK'
  BY DiscoverType DEF Syncs, TypeOK
<1>2. DeadFor(b, owned'[b]) \subseteq Models
  BY ConfigAssumption DEF ValidRouting, DeadFor
<1>3. warned' \in [Backends -> SUBSET Models]
  BY <1>2 DEF Syncs, TypeOK
<1> QED
  BY <1>1, <1>3

LEMMA ModelsType ==
  ASSUME TypeOK, NEW b \in Backends, ModelsAnswer(b) \/ ModelsFail(b)
  PROVE  TypeOK'
<1>1. GoesTo(b, "sleep") /\ UNCHANGED <<feedVars, age, since, served>>
  BY DEF ModelsAnswer, ModelsFail, AfterModels
<1>2. task' \in [Backends -> Awaits \cup Ends] /\ elapsed' \in [Backends -> Nat]
  BY <1>1, GoesToType, TypeParts DEF Awaits
<1>3. RegistryTypeOK' /\ warned' \in [Backends -> SUBSET Models]
  <2>1. served[b] \in SUBSET Models
    BY RegistryAssumption DEF TypeOK
  <2>2. CASE ModelsAnswer(b)
    BY <2>1, <2>2, SyncsType DEF ModelsAnswer
  <2>3. CASE ModelsFail(b) /\ ExplicitModels[b] # {}
    BY <2>3, SyncsType DEF ModelsFail
  <2>4. CASE ModelsFail(b) /\ ExplicitModels[b] = {}
    BY <2>4 DEF ModelsFail, TypeOK, RegistryTypeOK
  <2> QED BY <2>2, <2>3, <2>4
<1> QED
  BY <1>1, <1>2, <1>3 DEF TypeOK, FeedTypeOK, feedVars

\* The steps that move the task only.
LEMMA MovesType ==
  ASSUME TypeOK, NEW b \in Backends, ModelsRaise(b) \/ Wakes(b) \/ Cancelled(b)
  PROVE  TypeOK'
<1>1. PICK place \in {"raised", "metrics", "cancelled"} : GoesTo(b, place)
  BY DEF ModelsRaise, Wakes, Cancelled
<1>2. UNCHANGED <<feedVars, owned, age, since, warned, served>>
  BY DEF ModelsRaise, Wakes, Cancelled
<1>3. task' \in [Backends -> Awaits \cup Ends] /\ elapsed' \in [Backends -> Nat]
  BY <1>1, GoesToType, TypeParts DEF Awaits, Ends
<1> QED
  BY <1>2, <1>3 DEF TypeOK, FeedTypeOK, RegistryTypeOK, feedVars

LEMMA PassesType ==
  ASSUME TypeOK, NEW b \in Backends, Passes(b)
  PROVE  TypeOK'
<1>1. elapsed' \in [Backends -> Nat]
  BY DEF Passes, TypeOK
<1>2. age' \in [Backends -> Nat]
  <2>1. age' = [age EXCEPT ![b] = Cap(age[b] + 1, StaleAfter + 1)]
    BY DEF Passes
  <2>2. Cap(age[b] + 1, StaleAfter + 1) \in Nat
    BY PollerAssumption DEF Cap, TypeOK
  <2> QED BY <2>1, <2>2 DEF TypeOK
<1>3. since' \in [Backends -> NatOrNone]
  <2>1. since' = [since EXCEPT ![b] = IF since[b] = None THEN None ELSE Cap(since[b] + 1, Refresh)]
    BY DEF Passes
  <2>2. since[b] # None => Cap(since[b] + 1, Refresh) \in Nat
    BY PollerAssumption DEF Cap, TypeOK, NatOrNone
  <2> QED BY <2>1, <2>2 DEF TypeOK, NatOrNone
<1>4. fresh' \in [Backends -> BOOLEAN]
  <2>1. fresh' = [fresh EXCEPT ![b] = fresh[b] /\ ~Stale(age[b] + 1)]
    BY DEF Passes
  <2>2. (fresh[b] /\ ~Stale(age[b] + 1)) \in BOOLEAN
    OBVIOUS
  <2> QED BY <2>1, <2>2 DEF TypeOK, FeedTypeOK
<1>5. UNCHANGED <<usage, counter, capacity, anchor_seq, alert, seen, anchor,
                  owned, task, warned, served>>
  BY DEF Passes
<1> QED
  BY <1>1, <1>2, <1>3, <1>4, <1>5 DEF TypeOK, FeedTypeOK, RegistryTypeOK

LEMMA RedeploysType ==
  ASSUME TypeOK, NEW b \in Backends, Redeploys(b)
  PROVE  TypeOK'
  BY DEF Redeploys, TypeOK, FeedTypeOK, RegistryTypeOK, feedVars

LEMMA LoopType ==
  ASSUME TypeOK, NEW b \in Backends, Step(b) \/ Passes(b) \/ Redeploys(b) \/ Cancelled(b)
  PROVE  TypeOK'
  BY MetricsType, ModelsType, MovesType, PassesType, RedeploysType DEF Step

LEMMA UnchangedType ==
  ASSUME TypeOK, UNCHANGED vars
  PROVE  TypeOK'
  BY DEF vars, feedVars, taskVars, TypeOK, FeedTypeOK, RegistryTypeOK

LEMMA InitPollerType == Init => TypeOK
<1> SUFFICES ASSUME Init PROVE TypeOK
  OBVIOUS
<1>1. FeedTypeOK /\ RegistryTypeOK
  BY FeedInitType, RegistryInitType DEF Init
<1>2. TaskTypeOK
  BY PollerAssumption DEF Init, TaskTypeOK, Awaits, NatOrNone
<1> QED
  BY <1>1, <1>2, TypeParts

LEMMA NextPollerType == TypeOK /\ [Next]_vars => TypeOK'
  BY LoopType, UnchangedType DEF Next

\* Every variable of the loops keeps its type, however the polls end and the
\* time between two of them passes (poller.py:322-460).
THEOREM PollerTypeCorrect == Spec => []TypeOK
<1> QED
  BY InitPollerType, NextPollerType, PTL DEF Spec

-----------------------------------------------------------------------------
(* The loop implements its effects.                                           *)

\* What a step of the loop does to the feeds and the registry.
LEMMA LoopEffect ==
  ASSUME TypeOK, NEW b \in Backends, Step(b) \/ Passes(b) \/ Redeploys(b) \/ Cancelled(b)
  PROVE  \/ \E s \in Samples[b] : MetricsTick(b, s) /\ UNCHANGED owned
         \/ FeedAges(b) /\ UNCHANGED owned
         \/ (\E discovered \in Served : Discover(b, discovered)) /\ UNCHANGED feedVars
         \/ UNCHANGED <<feedVars, owned>>
<1>1. CASE MetricsAnswer(b)
  BY <1>1 DEF MetricsAnswer, AfterMetrics
<1>2. CASE MetricsFail(b)
  BY <1>2 DEF MetricsFail, AfterMetrics
<1>3. CASE ModelsAnswer(b)
  BY <1>3 DEF ModelsAnswer, AfterModels, Syncs, TypeOK
<1>4. CASE ModelsFail(b) /\ ExplicitModels[b] # {}
  <2>1. Discover(b, {}) /\ UNCHANGED feedVars
    BY <1>4 DEF ModelsFail, AfterModels, Syncs
  <2>2. Discover(b, served[b]) /\ served[b] \in Served
    BY <1>4, <2>1 DEF Discover, TypeOK
  <2> QED BY <2>1, <2>2
<1>5. CASE ModelsFail(b) /\ ExplicitModels[b] = {}
  BY <1>5 DEF ModelsFail, AfterModels
<1>6. CASE ModelsRaise(b) \/ Wakes(b) \/ Redeploys(b) \/ Cancelled(b)
  BY <1>6 DEF ModelsRaise, Wakes, Redeploys, Cancelled
<1>7. CASE Passes(b)
  <2>1. /\ fresh' = [fresh EXCEPT ![b] = fresh[b] /\ ~Stale(age[b] + 1)]
        /\ UNCHANGED <<usage, counter, capacity, anchor_seq, alert, seen, anchor, owned>>
    BY <1>7 DEF Passes
  <2>2. fresh \in [Backends -> BOOLEAN]
    BY DEF TypeOK, FeedTypeOK
  <2>3. CASE fresh[b] /\ Stale(age[b] + 1)
    BY <2>1, <2>3 DEF FeedAges
  <2>4. CASE ~(fresh[b] /\ Stale(age[b] + 1))
    <3>1. (fresh[b] /\ ~Stale(age[b] + 1)) = fresh[b]
      BY <2>2, <2>4
    <3>2. fresh' = fresh
      BY <2>1, <2>2, <3>1
    <3> QED BY <2>1, <3>2 DEF feedVars
  <2> QED BY <2>3, <2>4
<1> QED
  BY <1>1, <1>2, <1>3, <1>4, <1>5, <1>6, <1>7 DEF Step

LEMMA InitEffects == Init => Effects!Init
  BY DEF Init, Effects!Init, FeedInit, Effects!FeedInit, RegistryInit, Effects!RegistryInit

\* The instance's operators are the ones the loop is built from.
LEMMA EffectsMetricsTick ==
  ASSUME NEW b \in Backends, NEW s \in Samples[b]
  PROVE  MetricsTick(b, s) => Effects!MetricsTick(b, s)
<1>1. Anchors(s) <=> Effects!Anchors(s)
  BY DEF Anchors, Effects!Anchors
<1>2. Recognized(s) <=> Effects!Recognized(s)
  BY DEF Recognized, Effects!Recognized
<1>3. AnchorRemaining(b, s.capacity, s.usage) = Effects!AnchorRemaining(b, s.capacity, s.usage)
  BY DEF AnchorRemaining, Effects!AnchorRemaining, Clamp, Effects!Clamp
<1>4. RaiseAlerts(b, s) => Effects!RaiseAlerts(b, s)
  BY <1>2 DEF RaiseAlerts, Effects!RaiseAlerts
<1>5. UpdateCaches(b, s) => Effects!UpdateCaches(b, s)
  BY DEF UpdateCaches, Effects!UpdateCaches
<1>6. Reanchor(b, s) => Effects!Reanchor(b, s)
  BY <1>1, <1>3 DEF Reanchor, Effects!Reanchor
<1> QED
  BY <1>1, <1>4, <1>5, <1>6 DEF MetricsTick, Effects!MetricsTick

LEMMA EffectsDiscover ==
  ASSUME NEW b \in Backends, NEW discovered, Discover(b, discovered)
  PROVE  Effects!Discover(b, discovered)
  BY DEF Discover, Effects!Discover, Sync, Effects!Sync

LEMMA EffectsAges ==
  ASSUME NEW b \in Backends, FeedAges(b)
  PROVE  Effects!FeedAges(b)
  BY DEF FeedAges, Effects!FeedAges

LEMMA EffectsStep ==
  ASSUME TypeOK, NEW b \in Backends, Step(b) \/ Passes(b) \/ Redeploys(b) \/ Cancelled(b)
  PROVE  Effects!Next \/ UNCHANGED <<feedVars, owned>>
<1>1. CASE \E s \in Samples[b] : MetricsTick(b, s) /\ UNCHANGED owned
  <2>1. Effects!ReadsSample(b)
    BY <1>1, EffectsMetricsTick DEF Effects!ReadsSample
  <2> QED BY <2>1 DEF Effects!Next
<1>2. CASE FeedAges(b) /\ UNCHANGED owned
  <2>1. Effects!Ages(b)
    BY <1>2, EffectsAges DEF Effects!Ages
  <2> QED BY <2>1 DEF Effects!Next
<1>3. CASE (\E discovered \in Served : Discover(b, discovered)) /\ UNCHANGED feedVars
  <2>1. UNCHANGED Effects!feedVars
    BY <1>3 DEF feedVars, Effects!feedVars
  <2>2. Effects!SyncsModels(b)
    BY <1>3, <2>1, EffectsDiscover DEF Effects!SyncsModels
  <2> QED BY <2>2 DEF Effects!Next
<1> QED
  BY <1>1, <1>2, <1>3, LoopEffect

LEMMA NextEffects == TypeOK /\ [Next]_vars => [Effects!Next]_(Effects!effectsVars)
<1> SUFFICES ASSUME TypeOK, [Next]_vars
             PROVE  Effects!Next \/ UNCHANGED <<feedVars, owned>>
  BY DEF Effects!effectsVars, Effects!feedVars, feedVars
<1>1. CASE UNCHANGED vars
  BY <1>1 DEF vars
<1> QED
  BY <1>1, EffectsStep DEF Next

\* The loops do to the feeds and the registry only what the request handlers
\* are checked against: a sample read, a feed aged, a map replaced
\* (poller.py:322-457).
THEOREM PollerImplementsEffects == Spec => EffectsSpec
<1>1. Init => Effects!Init
  BY InitEffects
<1>2. TypeOK /\ [Next]_vars => [Effects!Next]_(Effects!effectsVars)
  BY NextEffects
<1> QED
  BY <1>1, <1>2, PollerTypeCorrect, PTL DEF Spec, EffectsSpec, Effects!Spec

-----------------------------------------------------------------------------
(* The feeds under the loop.                                                  *)

LEMMA StepFeedTruthful ==
  ASSUME TypeOK, AnchorMatchesUsage, CapacityAlertTruthful,
         NEW b \in Backends, Step(b) \/ Passes(b) \/ Redeploys(b) \/ Cancelled(b)
  PROVE  AnchorMatchesUsage' /\ CapacityAlertTruthful'
<1>1. CASE UNCHANGED feedVars
  BY <1>1 DEF feedVars, AnchorMatchesUsage, CapacityAlertTruthful
<1>2. ASSUME NEW s \in Samples[b], MetricsTick(b, s)
      PROVE  AnchorMatchesUsage' /\ CapacityAlertTruthful'
  BY <1>2, MetricsTickAnchors, MetricsTickAlerts DEF TypeOK
<1>3. ASSUME FeedAges(b)
      PROVE  AnchorMatchesUsage' /\ CapacityAlertTruthful'
  BY <1>3, FeedAgesKeeps
<1> QED
  BY <1>1, <1>2, <1>3, LoopEffect

LEMMA NextFeedTruthful ==
  TypeOK /\ AnchorMatchesUsage /\ CapacityAlertTruthful /\ [Next]_vars
    => AnchorMatchesUsage' /\ CapacityAlertTruthful'
<1>1. UNCHANGED vars /\ AnchorMatchesUsage /\ CapacityAlertTruthful
        => AnchorMatchesUsage' /\ CapacityAlertTruthful'
  BY DEF vars, feedVars, AnchorMatchesUsage, CapacityAlertTruthful
<1> QED
  BY <1>1, StepFeedTruthful DEF Next

LEMMA FeedTruthful == Spec => [](AnchorMatchesUsage /\ CapacityAlertTruthful)
<1>1. Init => AnchorMatchesUsage /\ CapacityAlertTruthful
  BY FeedInitTruthful DEF Init
<1>2. TypeOK /\ (AnchorMatchesUsage /\ CapacityAlertTruthful) /\ [Next]_vars
        => (AnchorMatchesUsage /\ CapacityAlertTruthful)'
  BY NextFeedTruthful
<1> QED
  BY <1>1, <1>2, PollerTypeCorrect, PTL DEF Spec

\* The loop keeps the counter on the poll of the usage it is decided with
\* (poller.py:384-405).
THEOREM PollerAnchorMatchesUsage == Spec => []AnchorMatchesUsage
<1> QED
  BY FeedTruthful, PTL

\* The loop keeps the alerts what the last poll said, through failed polls too
\* (poller.py:323-383).
THEOREM PollerAlertsTruthful == Spec => []CapacityAlertTruthful
<1> QED
  BY FeedTruthful, PTL

\* Every dead candidate of a routing order was warned about (poller.py:434-437).
LEMMA StepWarned ==
  ASSUME TypeOK, DeadCandidatesWarned,
         NEW b \in Backends, Step(b) \/ Passes(b) \/ Redeploys(b) \/ Cancelled(b)
  PROVE  DeadCandidatesWarned'
<1>1. CASE UNCHANGED <<owned, warned>>
  BY <1>1 DEF DeadCandidatesWarned
<1>2. ASSUME NEW discovered, Syncs(b, discovered)
      PROVE  DeadCandidatesWarned'
  <2> SUFFICES ASSUME NEW c \in Backends, NEW m \in DOMAIN RoutingSpecs,
                      owned'[c] # {}, c \in Listed(RoutingSpecs[m].order)
               PROVE  m \in owned'[c] \cup warned'[c]
    BY DEF DeadCandidatesWarned
  <2>1. /\ owned \in [Backends -> SUBSET Models]
        /\ warned \in [Backends -> SUBSET Models]
        /\ warned' = [warned EXCEPT ![b] = @ \cup DeadFor(b, owned'[b])]
        /\ \A d \in Backends \ {b} : owned'[d] = owned[d]
    BY <1>2 DEF TypeOK, RegistryTypeOK, Syncs, Discover, Sync
  <2>2. CASE c # b
    BY <2>1, <2>2 DEF DeadCandidatesWarned
  <2>3. CASE c = b
    BY <2>1, <2>3 DEF DeadFor
  <2> QED BY <2>2, <2>3
<1>3. CASE ModelsAnswer(b) \/ ModelsFail(b)
  BY <1>1, <1>2, <1>3 DEF ModelsAnswer, ModelsFail
<1>4. CASE ~(ModelsAnswer(b) \/ ModelsFail(b))
  BY <1>1, <1>4
  DEF Step, MetricsAnswer, MetricsFail, AfterMetrics, ModelsRaise, Wakes, Passes, Redeploys, Cancelled
<1> QED
  BY <1>3, <1>4

LEMMA InitWarned == Init => DeadCandidatesWarned
  BY DEF Init, RegistryInit, DeadCandidatesWarned

LEMMA NextWarned == TypeOK /\ DeadCandidatesWarned /\ [Next]_vars => DeadCandidatesWarned'
<1>1. UNCHANGED vars /\ DeadCandidatesWarned => DeadCandidatesWarned'
  BY DEF vars, taskVars, DeadCandidatesWarned
<1> QED
  BY <1>1, StepWarned DEF Next

\* Whenever and however often the owned models of a backend change, each routing
\* order that names it in vain was warned about (poller.py:147-181, 434-437).
THEOREM DeadCandidatesWarnedAlways == Spec => []DeadCandidatesWarned
<1>1. Init => DeadCandidatesWarned
  BY InitWarned
<1>2. TypeOK /\ DeadCandidatesWarned /\ [Next]_vars => DeadCandidatesWarned'
  BY NextWarned
<1> QED
  BY <1>1, <1>2, PollerTypeCorrect, PTL DEF Spec

-----------------------------------------------------------------------------
(* Freshness.  A backend that answers in time is polled once per turn of its  *)
(* loop, so that its usage is never older than what the turn has taken so far *)
(* and what the turn before took after its scrape.                            *)

\* How long a call or a sleep of a backend that answers in time has lasted.
InTime(b) ==
  /\ task[b] \in Awaits
  /\ task[b] \in {"metrics", "models"} => elapsed[b] <= Latency
  /\ task[b] = "sleep" => elapsed[b] <= Interval

\* How old the usage of such a backend can be.
AgeBound(b) ==
  CASE task[b] = "models" -> elapsed[b]
    [] task[b] = "sleep" -> Latency + elapsed[b]
    [] OTHER -> Latency + Interval + elapsed[b]

FreshOf(b) ==
  /\ usage[b] # None /\ age[b] <= StaleAfter => fresh[b]
  /\ b \in Healthy \ Raising => InTime(b) /\ (usage[b] # None => age[b] <= AgeBound(b))

FreshInv == \A b \in Backends : FreshOf(b)

\* The bound, one place at a time.
LEMMA AgeBoundCases ==
  ASSUME NEW b \in Backends
  PROVE  /\ task[b] = "models" => AgeBound(b) = elapsed[b]
         /\ task[b] = "sleep" => AgeBound(b) = Latency + elapsed[b]
         /\ task[b] = "metrics" => AgeBound(b) = Latency + Interval + elapsed[b]
  BY DEF AgeBound

LEMMA AgeBoundCasesNext ==
  ASSUME NEW b \in Backends
  PROVE  /\ task'[b] = "models" => AgeBound(b)' = elapsed'[b]
         /\ task'[b] = "sleep" => AgeBound(b)' = Latency + elapsed'[b]
         /\ task'[b] = "metrics" => AgeBound(b)' = Latency + Interval + elapsed'[b]
  BY DEF AgeBound

\* Only its own task moves a backend's clock.
LEMMA OthersClocks ==
  ASSUME TypeOK, NEW b \in Backends, Step(b) \/ Passes(b) \/ Redeploys(b) \/ Cancelled(b),
         NEW c \in Backends, c # b
  PROVE  /\ task'[c] = task[c] /\ elapsed'[c] = elapsed[c] /\ age'[c] = age[c]
         /\ usage'[c] = usage[c] /\ fresh'[c] = fresh[c]
<1>1. /\ task \in [Backends -> Awaits \cup Ends] /\ elapsed \in [Backends -> Nat]
      /\ age \in [Backends -> Nat] /\ usage \in [Backends -> IntOrNone]
      /\ fresh \in [Backends -> BOOLEAN]
  BY DEF TypeOK, FeedTypeOK
<1>2. CASE MetricsAnswer(b)
  BY <1>1, <1>2 DEF MetricsAnswer, MetricsTick, UpdateCaches, AfterMetrics, GoesTo
<1>3. CASE MetricsFail(b)
  BY <1>3, <1>1 DEF MetricsFail, AfterMetrics, GoesTo, feedVars
<1>4. CASE ModelsAnswer(b) \/ ModelsFail(b)
  BY <1>4, <1>1 DEF ModelsAnswer, ModelsFail, AfterModels, GoesTo, feedVars
<1>5. CASE ModelsRaise(b) \/ Wakes(b) \/ Redeploys(b) \/ Cancelled(b)
  BY <1>5, <1>1 DEF ModelsRaise, Wakes, Redeploys, Cancelled, GoesTo, feedVars
<1>6. CASE Passes(b)
  BY <1>6, <1>1 DEF Passes
<1> QED
  BY <1>2, <1>3, <1>4, <1>5, <1>6 DEF Step

\* What a step does to the clock of its own backend.
LEMMA OwnClock ==
  ASSUME TypeOK, NEW b \in Backends, FreshOf(b), Step(b) \/ Passes(b) \/ Redeploys(b)
  PROVE  FreshOf(b)'
<1> SUFFICES /\ usage'[b] # None /\ age'[b] <= StaleAfter => fresh'[b]
             /\ b \in Healthy \ Raising =>
                  /\ InTime(b)'
                  /\ usage'[b] # None => age'[b] <= AgeBound(b)'
  BY DEF FreshOf
<1>1. /\ task \in [Backends -> Awaits \cup Ends] /\ elapsed \in [Backends -> Nat]
      /\ age \in [Backends -> Nat] /\ usage \in [Backends -> IntOrNone]
      /\ fresh \in [Backends -> BOOLEAN]
  BY DEF TypeOK, FeedTypeOK
<1>2. Latency \in Nat /\ Interval \in Nat \ {0} /\ StaleAfter \in Nat \ {0}
  BY PollerAssumption
<1>3. /\ usage[b] # None /\ age[b] <= StaleAfter => fresh[b]
      /\ b \in Healthy \ Raising =>
           /\ InTime(b)
           /\ usage[b] # None => age[b] <= AgeBound(b)
  BY DEF FreshOf
<1>4. CASE MetricsAnswer(b)
  <2>1. PICK s \in Samples[b] :
          /\ b \in Healthy => s.usage # None
          /\ usage' = [usage EXCEPT ![b] = IF s.usage = None THEN usage[b] ELSE s.usage]
          /\ fresh' = [fresh EXCEPT ![b] = fresh[b] \/ s.usage # None]
          /\ age' = [age EXCEPT ![b] = IF s.usage # None THEN 0 ELSE age[b]]
    BY <1>4 DEF MetricsAnswer, MetricsTick, UpdateCaches
  <2>2. PICK place \in {"models", "sleep"} : GoesTo(b, place)
    BY <1>4 DEF MetricsAnswer, AfterMetrics
  <2>3. task'[b] = place /\ elapsed'[b] = 0
    BY <1>1, <2>2 DEF GoesTo
  <2>4. usage'[b] # None /\ age'[b] <= StaleAfter => fresh'[b]
    BY <1>1, <1>3, <2>1
  <2>5. b \in Healthy => age'[b] = 0
    BY <1>1, <2>1
  <2>6. InTime(b)'
    BY <1>2, <2>3 DEF InTime, Awaits
  <2>7. AgeBound(b)' \in {0, Latency}
    BY <1>2, <2>3, AgeBoundCasesNext
  <2> QED BY <1>2, <2>4, <2>5, <2>6, <2>7
<1>5. CASE MetricsFail(b)
  <2>1. b \notin Healthy /\ UNCHANGED <<usage, fresh, age>>
    BY <1>5 DEF MetricsFail, feedVars
  <2> QED BY <1>3, <2>1
<1>6. CASE ModelsAnswer(b) \/ ModelsFail(b)
  <2>1. task[b] = "models" /\ GoesTo(b, "sleep") /\ UNCHANGED <<usage, fresh, age>>
    BY <1>6 DEF ModelsAnswer, ModelsFail, AfterModels, feedVars
  <2>2. task'[b] = "sleep" /\ elapsed'[b] = 0
    BY <1>1, <2>1 DEF GoesTo
  <2>3. InTime(b)'
    BY <1>2, <2>2 DEF InTime, Awaits
  <2>4. AgeBound(b) = elapsed[b] /\ AgeBound(b)' = Latency
    BY <1>2, <2>1, <2>2, AgeBoundCases, AgeBoundCasesNext
  <2>5. b \in Healthy \ Raising => elapsed[b] <= Latency
    BY <1>3, <2>1 DEF InTime
  <2> QED BY <1>1, <1>2, <1>3, <2>1, <2>3, <2>4, <2>5
<1>7. CASE ModelsRaise(b)
  <2>1. b \in Raising /\ UNCHANGED <<usage, fresh, age>>
    BY <1>7 DEF ModelsRaise, feedVars
  <2> QED BY <1>3, <2>1
<1>8. CASE Wakes(b)
  <2>1. /\ task[b] = "sleep" /\ elapsed[b] = Interval /\ GoesTo(b, "metrics")
        /\ UNCHANGED <<usage, fresh, age>>
    BY <1>8 DEF Wakes, feedVars
  <2>2. task'[b] = "metrics" /\ elapsed'[b] = 0
    BY <1>1, <2>1 DEF GoesTo
  <2>3. InTime(b)'
    BY <1>2, <2>2 DEF InTime, Awaits
  <2>4. AgeBound(b) = Latency + Interval /\ AgeBound(b)' = Latency + Interval
    BY <1>2, <2>1, <2>2, AgeBoundCases, AgeBoundCasesNext
  <2> QED BY <1>3, <2>1, <2>3, <2>4
<1>9. CASE Passes(b)
  <2>1. /\ task[b] = "sleep" => elapsed[b] < Interval
        /\ task[b] \in {"metrics", "models"} /\ b \in Healthy => elapsed[b] < Latency
        /\ elapsed' = [elapsed EXCEPT ![b] = elapsed[b] + IF Timed(b) THEN 1 ELSE 0]
        /\ age' = [age EXCEPT ![b] = Cap(age[b] + 1, StaleAfter + 1)]
        /\ fresh' = [fresh EXCEPT ![b] = fresh[b] /\ ~Stale(age[b] + 1)]
        /\ UNCHANGED <<usage, task>>
    BY <1>9 DEF Passes
  <2>2. age'[b] = Cap(age[b] + 1, StaleAfter + 1)
    BY <1>1, <2>1
  <2>3. /\ age'[b] <= age[b] + 1
        /\ age'[b] <= StaleAfter => age[b] + 1 <= StaleAfter
    BY <1>1, <1>2, <2>2 DEF Cap
  <2>4. usage'[b] # None /\ age'[b] <= StaleAfter => fresh'[b]
    <3>1. age[b] + 1 <= StaleAfter => age[b] <= StaleAfter /\ ~Stale(age[b] + 1)
      BY <1>1, <1>2 DEF Stale
    <3>2. fresh'[b] = (fresh[b] /\ ~Stale(age[b] + 1)) /\ usage'[b] = usage[b]
      BY <1>1, <2>1
    <3> QED BY <1>3, <2>3, <3>1, <3>2
  <2>5. ASSUME b \in Healthy \ Raising
        PROVE  InTime(b)' /\ (usage'[b] # None => age'[b] <= AgeBound(b)')
    <3>1. task[b] \in {"metrics", "models", "sleep"} /\ task'[b] = task[b]
      BY <1>3, <2>1, <2>5 DEF InTime, Awaits
    <3>2. elapsed'[b] = elapsed[b] + 1
      BY <1>1, <2>1, <2>5, <3>1 DEF Timed, Awaits
    <3>3. InTime(b)'
      BY <1>1, <1>2, <2>1, <2>5, <3>1, <3>2 DEF InTime, Awaits
    <3>4. AgeBound(b)' = AgeBound(b) + 1 /\ AgeBound(b) \in Nat
      BY <1>1, <1>2, <3>1, <3>2, AgeBoundCases, AgeBoundCasesNext
    <3>5. usage[b] # None => age'[b] <= AgeBound(b)'
      BY <1>1, <1>3, <2>2, <2>3, <2>5, <3>4, PollerAssumption DEF Cap
    <3> QED BY <2>1, <3>3, <3>5
  <2> QED BY <2>4, <2>5
<1>10. CASE Redeploys(b)
  BY <1>3, <1>10 DEF Redeploys, feedVars, InTime, AgeBound
<1> QED
  BY <1>4, <1>5, <1>6, <1>7, <1>8, <1>9, <1>10 DEF Step

LEMMA OthersFresh ==
  ASSUME TypeOK, NEW b \in Backends, Step(b) \/ Passes(b) \/ Redeploys(b) \/ Cancelled(b),
         NEW c \in Backends, c # b, FreshOf(c)
  PROVE  FreshOf(c)'
<1>1. /\ task'[c] = task[c] /\ elapsed'[c] = elapsed[c] /\ age'[c] = age[c]
      /\ usage'[c] = usage[c] /\ fresh'[c] = fresh[c]
  BY OthersClocks
<1>2. AgeBound(c)' = AgeBound(c) /\ (InTime(c) => InTime(c)')
  BY <1>1 DEF AgeBound, InTime
<1> QED
  BY <1>1, <1>2 DEF FreshOf

LEMMA UnchangedFresh ==
  ASSUME UNCHANGED vars, NEW c \in Backends, FreshOf(c)
  PROVE  FreshOf(c)'
  BY DEF vars, feedVars, taskVars, FreshOf, InTime, AgeBound

LEMMA NextFresh == TypeOK /\ FreshInv /\ [Next]_vars => FreshInv'
<1> SUFFICES ASSUME TypeOK, FreshInv, [Next]_vars, NEW c \in Backends PROVE FreshOf(c)'
  BY DEF FreshInv
<1>1. FreshOf(c)
  BY DEF FreshInv
<1>2. ASSUME NEW b \in Backends, Step(b) \/ Passes(b) \/ Redeploys(b) PROVE FreshOf(c)'
  BY <1>1, <1>2, OwnClock, OthersFresh
<1> QED
  BY <1>1, <1>2, UnchangedFresh DEF Next

LEMMA InitFresh == Init => FreshInv
<1> SUFFICES ASSUME Init PROVE FreshInv
  OBVIOUS
<1>1. Latency \in Nat /\ Healthy \subseteq Backends
  BY PollerAssumption
<1>2. \A b \in Backends : usage[b] = None /\ task[b] = "metrics" /\ elapsed[b] = 0
  BY DEF Init, FeedInit
<1> QED
  BY <1>1, <1>2 DEF FreshInv, FreshOf, InTime, Awaits

\* A bound on the age that is below the staleness keeps the feed fresh.
LEMMA FreshEnough ==
  ASSUME TypeOK, StaleAfter >= Interval + 2 * Latency,
         NEW b \in Healthy \ Raising, FreshOf(b), usage[b] # None
  PROVE  fresh[b]
<1>1. /\ Latency \in Nat /\ Interval \in Nat /\ StaleAfter \in Nat /\ b \in Backends
      /\ age[b] \in Nat /\ elapsed[b] \in Nat
  BY PollerAssumption DEF TypeOK
<1>2. InTime(b) /\ age[b] <= AgeBound(b)
  BY DEF FreshOf
<1>3. AgeBound(b) \in Nat /\ AgeBound(b) <= Interval + 2 * Latency
  BY <1>1, <1>2, AgeBoundCases DEF InTime, Awaits
<1>4. age[b] <= StaleAfter
  BY <1>1, <1>2, <1>3
<1> QED
  BY <1>1, <1>4 DEF FreshOf

\* A backend that answers each poll within Latency, with a usage, never has a
\* stale feed once it was read, if stale_after_s is at least the poll interval
\* and two calls: admission keeps deciding on it (poller.py:324, 417 and 457,
\* metrics.py:443-454).
THEOREM FreshWhileAnsweringAlways == Spec => []FreshWhileAnswering
<1>1. Init => FreshInv
  BY InitFresh
<1>2. TypeOK /\ FreshInv /\ [Next]_vars => FreshInv'
  BY NextFresh
<1>3. TypeOK /\ FreshInv => FreshWhileAnswering
  BY FreshEnough, PollerAssumption DEF FreshWhileAnswering, FreshInv
<1> QED
  BY <1>1, <1>2, <1>3, PollerTypeCorrect, PTL DEF Spec

-----------------------------------------------------------------------------
(* The process.                                                               *)

\* A poller is cancelled only after it was told to stop, and one after the
\* other: what the lifespan has awaited stays cancelled.
ProcessInv ==
  /\ ProcessTypeOK
  /\ phase \in {"loading", "serving"} => stops = 0
  /\ phase \in {"stopping", "failed", "closed"} => stops > 0
  /\ phase = "exited" <=> exit_code # None
  /\ \A b \in Backends : task[b] = "cancelled" => b \in Told
  /\ phase = "stopping" => \A i \in 1..stops : i < stops => task[BackendOrder[i]] = "cancelled"
  /\ phase = "closed" \/ exit_code = 0 => \A b \in Backends : task[b] = "cancelled"
  /\ phase = "loading" => Unstarted
  /\ exit_code = 1 => Unstarted \/ \E b \in Backends : task[b] = "raised"

LEMMA OrderFacts ==
  /\ Len(BackendOrder) \in Nat \ {0}
  /\ \A i \in 1..Len(BackendOrder) : BackendOrder[i] \in Backends
  /\ \A b \in Backends : \E i \in 1..Len(BackendOrder) : BackendOrder[i] = b
<1>1. /\ BackendOrder \in Seq(Backends) /\ BackendOrder # <<>>
      /\ Listed(BackendOrder) = Backends
  BY ConfigAssumption DEF ValidBackends
<1> QED
  BY <1>1 DEF Listed

\* Where a task of the loop can go: it never cancels itself, and a task that
\* has ended takes no step.
LEMMA StepMoves ==
  ASSUME TypeOK, NEW b \in Backends, Step(b) \/ Passes(b) \/ Redeploys(b),
         NEW c \in Backends
  PROVE  /\ task'[c] = "cancelled" <=> task[c] = "cancelled"
         /\ task[c] = "raised" => task'[c] = "raised"
<1>1. task \in [Backends -> Awaits \cup Ends]
  BY DEF TypeOK
<1>2. CASE MetricsAnswer(b) \/ MetricsFail(b)
  <2>1. PICK place \in {"models", "sleep"} : GoesTo(b, place)
    BY <1>2 DEF MetricsAnswer, MetricsFail, AfterMetrics
  <2>2. task[b] = "metrics"
    BY <1>2 DEF MetricsAnswer, MetricsFail
  <2> QED BY <1>1, <2>1, <2>2 DEF GoesTo
<1>3. CASE ModelsAnswer(b) \/ ModelsFail(b) \/ ModelsRaise(b)
  BY <1>1, <1>3 DEF ModelsAnswer, ModelsFail, ModelsRaise, AfterModels, GoesTo
<1>4. CASE Wakes(b)
  BY <1>1, <1>4 DEF Wakes, GoesTo
<1>5. CASE Passes(b) \/ Redeploys(b)
  BY <1>5 DEF Passes, Redeploys
<1> QED
  BY <1>2, <1>3, <1>4, <1>5 DEF Step

LEMMA StopMoves ==
  ASSUME TypeOK, NEW b \in Backends, Cancelled(b), NEW c \in Backends
  PROVE  /\ task'[c] = "cancelled" <=> task[c] = "cancelled" \/ c = b
         /\ task[c] = "raised" => task'[c] = "raised"
<1>1. task \in [Backends -> Awaits \cup Ends]
  BY DEF TypeOK
<1> QED
  BY <1>1 DEF Cancelled, GoesTo, Awaits

LEMMA InitProcess == ProcessInit => ProcessInv
<1> SUFFICES ASSUME ProcessInit PROVE ProcessInv
  OBVIOUS
<1>1. TypeOK
  BY InitPollerType DEF ProcessInit
<1>2. None \notin {0, 1} /\ Len(BackendOrder) \in Nat
  BY ConfigAssumption, OrderFacts
<1>3. Unstarted /\ \A b \in Backends : task[b] = "metrics"
  BY DEF ProcessInit, Init, Unstarted
<1> QED
  BY <1>1, <1>2, <1>3 DEF ProcessInit, ProcessInv, ProcessTypeOK, Phases

\* A step of the pollers, inside a process that runs.
LEMMA PollersKeep ==
  ASSUME ProcessInv, NEW b \in Backends,
         PollerStep(b) \/ Stops(b) \/ TimePasses(b) \/ BackendChanges(b)
  PROVE  ProcessInv'
<1>1. UNCHANGED <<phase, stops, exit_code>> /\ TypeOK
  BY DEF PollerStep, Stops, TimePasses, BackendChanges, processVars, ProcessInv, ProcessTypeOK
<1>2. TypeOK'
  BY <1>1, LoopType DEF PollerStep, Stops, TimePasses, BackendChanges
<1>3. \A c \in Backends :
        /\ task[c] = "cancelled" => task'[c] = "cancelled"
        /\ task'[c] = "cancelled" => task[c] = "cancelled" \/ c \in Told
        /\ task[c] = "raised" => task'[c] = "raised"
  BY <1>1, StepMoves, StopMoves DEF PollerStep, Stops, TimePasses, BackendChanges
<1>4. \A i \in 1..stops : BackendOrder[i] \in Backends
  BY OrderFacts DEF ProcessInv, ProcessTypeOK
<1>5. phase # "loading" /\ exit_code = None
  BY DEF PollerStep, Stops, TimePasses, BackendChanges, Running, ProcessInv
<1>6. None # 1
  BY ConfigAssumption
<1> QED
  BY <1>1, <1>2, <1>3, <1>4, <1>5, <1>6 DEF ProcessInv, ProcessTypeOK, Told

\* A step of main, of the lifespan or of a done-callback.
LEMMA LifespanKeeps ==
  ASSUME ProcessInv,
         \/ Refuses \/ Serves \/ Shuts \/ Awaited \/ AwaitedRaises \/ Returns
         \/ \E b \in Backends : Fatal(b)
  PROVE  ProcessInv'
<1>1. UNCHANGED vars /\ TypeOK
  BY DEF Refuses, Serves, Shuts, Awaited, AwaitedRaises, Returns, Fatal, ProcessInv, ProcessTypeOK
<1>2. TypeOK' /\ UNCHANGED task /\ (Unstarted => Unstarted')
  BY <1>1, UnchangedType DEF vars, taskVars, Unstarted
<1>3. stops \in 0..Len(BackendOrder) /\ Len(BackendOrder) \in Nat \ {0} /\ None \notin {0, 1}
  BY ConfigAssumption, OrderFacts DEF ProcessInv, ProcessTypeOK
<1>4. CASE Refuses \/ \E b \in Backends : Fatal(b)
  BY <1>2, <1>3, <1>4 DEF Refuses, Fatal, Exits, ProcessInv, ProcessTypeOK, Phases, Told
<1>5. CASE Serves
  BY <1>2, <1>3, <1>5 DEF Serves, ProcessInv, ProcessTypeOK, Phases, Told
<1>6. CASE Shuts
  BY <1>2, <1>3, <1>6 DEF Shuts, ProcessInv, ProcessTypeOK, Phases, Told
<1>7. CASE Awaited /\ stops < Len(BackendOrder)
  BY <1>2, <1>3, <1>7 DEF Awaited, ProcessInv, ProcessTypeOK, Told
<1>8. CASE Awaited /\ ~(stops < Len(BackendOrder))
  <2>1. stops = Len(BackendOrder)
    BY <1>3, <1>8
  <2>2. \A i \in 1..Len(BackendOrder) : task[BackendOrder[i]] = "cancelled"
    BY <1>3, <1>8, <2>1 DEF Awaited, ProcessInv
  <2>3. \A b \in Backends : task[b] = "cancelled"
    BY <2>2, OrderFacts
  <2> QED BY <1>2, <1>3, <1>8, <2>3 DEF Awaited, ProcessInv, ProcessTypeOK, Phases, Told
<1>9. CASE AwaitedRaises
  BY <1>2, <1>3, <1>9 DEF AwaitedRaises, ProcessInv, ProcessTypeOK, Phases, Told
<1>10. CASE Returns
  BY <1>2, <1>3, <1>10 DEF Returns, Exits, ProcessInv, ProcessTypeOK, Phases, Told
<1> QED
  BY <1>4, <1>5, <1>6, <1>7, <1>8, <1>9, <1>10

LEMMA NextProcess == ProcessInv /\ [ProcessNext]_allVars => ProcessInv'
<1> SUFFICES ASSUME ProcessInv, [ProcessNext]_allVars PROVE ProcessInv'
  OBVIOUS
<1>1. CASE UNCHANGED allVars
  <2>1. TypeOK' /\ UNCHANGED <<task, phase, stops, exit_code>> /\ (Unstarted => Unstarted')
    BY <1>1, UnchangedType
    DEF allVars, vars, taskVars, processVars, ProcessInv, ProcessTypeOK, Unstarted
  <2> QED BY <2>1 DEF ProcessInv, ProcessTypeOK, Told
<1>2. CASE ProcessNext
  BY <1>2, LifespanKeeps, PollersKeep DEF ProcessNext
<1> QED
  BY <1>1, <1>2

LEMMA ProcessInvariant == ProcessSpec => []ProcessInv
<1> QED
  BY InitProcess, NextProcess, PTL DEF ProcessSpec

\* The pollers and the lifespan keep their types, through shutdown and death.
THEOREM ProcessTypeCorrect == ProcessSpec => []ProcessTypeOK
<1>1. ProcessInv => ProcessTypeOK
  BY DEF ProcessInv
<1> QED
  BY <1>1, ProcessInvariant, PTL

\* No poller is left that could use the closed client, for any number of
\* backends and wherever each poller was (app.py:552-558).
THEOREM ClientOutlivesPollersAlways == ProcessSpec => []ClientOutlivesPollers
<1>1. ProcessInv => ClientOutlivesPollers
  BY DEF ProcessInv, ClientOutlivesPollers, Ends
<1> QED
  BY <1>1, ProcessInvariant, PTL

\* A served process exits 1 only for a poller that died, and 0 only if every
\* poller was cancelled (app.py:399-414, 549-558).
THEOREM ExitCodeTruthfulAlways == ProcessSpec => []ExitCodeTruthful
<1>1. ProcessInv => ExitCodeTruthful
  BY DEF ProcessInv, ExitCodeTruthful
<1> QED
  BY <1>1, ProcessInvariant, PTL
-----------------------------------------------------------------------------
(* What the loops promise, inside the process.                                *)

\* A step of the process is one of a poller, or leaves all of them alone.
LEMMA ProcessEffect ==
  ASSUME [ProcessNext]_allVars
  PROVE  \/ \E b \in Backends : Step(b) \/ Passes(b) \/ Redeploys(b) \/ Cancelled(b)
         \/ UNCHANGED vars
  BY DEF ProcessNext, Refuses, Serves, Shuts, Awaited, AwaitedRaises, Returns, Fatal,
         PollerStep, Stops, TimePasses, BackendChanges, allVars

\* Inside the process, from its start through shutdown, death and exit, the
\* pollers do to the feeds and the registry only what the request handlers are
\* checked against (app.py:513-558, poller.py:458-460).
THEOREM ProcessImplementsEffects == ProcessSpec => EffectsSpec
<1>1. ProcessInit => Effects!Init
  BY InitEffects DEF ProcessInit
<1>2. ProcessTypeOK /\ [ProcessNext]_allVars => [Effects!Next]_(Effects!effectsVars)
  <2> SUFFICES ASSUME TypeOK, [ProcessNext]_allVars
               PROVE  Effects!Next \/ UNCHANGED <<feedVars, owned>>
    BY DEF Effects!effectsVars, Effects!feedVars, feedVars, ProcessTypeOK
  <2> QED BY EffectsStep, ProcessEffect DEF vars
<1> QED
  BY <1>1, <1>2, ProcessTypeCorrect, PTL DEF ProcessSpec, EffectsSpec, Effects!Spec

\* A shutdown or a death leaves no feed, alert or warning half done: what every
\* tick promises holds in whatever order the process ends (poller.py:360-405,
\* 434-437 and 458-460).
THEOREM ProcessFeedsTruthful ==
  ProcessSpec => [](AnchorMatchesUsage /\ CapacityAlertTruthful /\ DeadCandidatesWarned)
<1> DEFINE Promise == AnchorMatchesUsage /\ CapacityAlertTruthful /\ DeadCandidatesWarned
<1>1. ProcessInit => Promise
  BY FeedInitTruthful, InitWarned DEF ProcessInit, Init
<1>2. ProcessTypeOK /\ Promise /\ [ProcessNext]_allVars => Promise'
  <2> SUFFICES ASSUME TypeOK, Promise, [ProcessNext]_allVars PROVE Promise'
    BY DEF ProcessTypeOK
  <2>1. UNCHANGED vars => Promise'
    BY DEF vars, feedVars, taskVars, AnchorMatchesUsage, CapacityAlertTruthful, DeadCandidatesWarned
  <2> QED BY <2>1, StepFeedTruthful, StepWarned, ProcessEffect
<1> QED
  BY <1>1, <1>2, ProcessTypeCorrect, PTL DEF ProcessSpec

\* A poller that was not told to stop polls in time.
PollingInTime == \A b \in Backends \ Told : FreshOf(b)

LEMMA NextPollingInTime ==
  ASSUME ProcessInv, PollingInTime, [ProcessNext]_allVars
  PROVE  PollingInTime'
<1>1. TypeOK /\ stops \in Nat
  BY DEF ProcessInv, ProcessTypeOK
<1>2. Told \subseteq Told'
  <2>1. stops' \in Nat /\ stops <= stops'
    BY <1>1 DEF ProcessInv, ProcessNext, Refuses, Serves, Shuts, Awaited, AwaitedRaises, Returns,
                Fatal, PollerStep, Stops, TimePasses, BackendChanges, allVars, processVars
  <2> QED BY <1>1, <2>1 DEF Told
<1> SUFFICES ASSUME NEW c \in Backends, c \notin Told' PROVE FreshOf(c)'
  BY DEF PollingInTime
<1>3. c \notin Told /\ FreshOf(c)
  BY <1>2 DEF PollingInTime
<1>4. ASSUME NEW b \in Backends, Step(b) \/ Passes(b) \/ Redeploys(b) PROVE FreshOf(c)'
  BY <1>1, <1>3, <1>4, OwnClock, OthersFresh
<1>5. ASSUME NEW b \in Backends, Stops(b) PROVE FreshOf(c)'
  BY <1>1, <1>3, <1>5, OthersFresh DEF Stops
<1>6. CASE UNCHANGED vars
  BY <1>3, <1>6, UnchangedFresh
<1> QED
  BY <1>4, <1>5, <1>6
  DEF ProcessNext, Refuses, Serves, Shuts, Awaited, AwaitedRaises, Returns, Fatal,
      PollerStep, TimePasses, BackendChanges, allVars

\* As long as the gate serves, and although any poller may die or a shutdown may
\* begin at any moment, the feeds of the backends that answer are fresh
\* (app.py:513-558, metrics.py:443-454).
THEOREM FreshWhileServingAlways ==
  ProcessSpec => [](phase = "serving" => FreshWhileAnswering)
<1>1. ProcessInit => PollingInTime
  BY InitFresh DEF ProcessInit, FreshInv, PollingInTime
<1>2. ProcessInv /\ PollingInTime /\ [ProcessNext]_allVars => PollingInTime'
  BY NextPollingInTime
<1>3. ProcessInv /\ PollingInTime => (phase = "serving" => FreshWhileAnswering)
  <2> SUFFICES ASSUME ProcessInv, PollingInTime, phase = "serving"
               PROVE  FreshWhileAnswering
    OBVIOUS
  <2>1. Told = {} /\ TypeOK
    BY DEF ProcessInv, ProcessTypeOK, Told
  <2> QED BY <2>1, FreshEnough, PollerAssumption DEF FreshWhileAnswering, PollingInTime
<1> QED
  BY <1>1, <1>2, <1>3, ProcessInvariant, PTL DEF ProcessSpec
=============================================================================
