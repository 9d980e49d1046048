# A verification of the vLLM cache-aware gate

The gate is an HTTP proxy in front of one or more inference engines (vLLM or
SGLang). It estimates the size of each generation request, picks a backend that
serves the model, and forwards the request only where the backend's KV cache has
room; otherwise the client gets a 429 with a `Retry-After`. This directory holds
TLA+ modules translated from `src/gate/*.py`, TLC configurations that check them
on small instances, and TLAPS proofs of what matters most for every instance.
`PROJECT.json` indexes it: components, runs, mutants, the lines each definition
models, hazards, findings and theorems.

## 1. Inventory

Everything runs on one asyncio loop, so code between two `await`s is atomic and
the hard part is what happens *at* the awaits.

| Part | State | Operations | Talks to | Modelled in |
|---|---|---|---|---|
| request handler, `app.py` `_handle_generation` | locals: candidates, offset, rejects, charge and anchor sequence, last 5xx | resolve, select, walk, charge, roll back, skip, release, refuse | reads feeds and registry; moves counters, round-robin index, stats; awaits the proxy | `FailoverWalk` |
| admission, `router.py` | none (pure) | `decision`, `decision_auto`, `combine_decisions`, `anchor_remaining_tokens`, `scaled_retry_after` | called by handler and poller | `Admission` |
| routing, `routing.py` | none (pure) | `select_backend`: five policies | called by the handler | `Routing`, `RoutingSnapshot` |
| round-robin state, `app.py` `RoutingState` | index per model | `rr_offset`, `advance` | handler only | `FailoverWalk` (`rr`) |
| KV feed, `metrics.py`, `BackendState` | usage cache with age, capacity cache, `KvRemaining`, `anchor_seq`, alert flags | update, reanchor, unanchor, subtract, add, is_stale | written by the poller, counter also by handlers | `KvFeed` (one value), `Exposition` (per model) |
| poller, `poller.py` | last engine, unavailable, capacity missing, last discovery | metrics tick, discovery tick, sleep | one task per backend; callbacks into `BackendState` | `Poller`; its effects on others in `KvFeed`, `ModelRegistry`, `PollerEffects` |
| model registry, `models.py` | owned set per backend, registration order | `sync`, `resolve_candidates`, `items` | synced by pollers, read by handlers and endpoints | `ModelRegistry` |
| configuration, `config.py` | frozen | load, validate | read everywhere | `ConfigLoad`; what it guarantees in `GateConfig` |
| stats, `stats.py` | Prometheus counters | `record_*`, gauges | handler, `/metrics` | `events` of `FailoverWalk`; the usage gauge in `Exposition` |
| proxy, `proxy.py`, and the shared client | connections in use | forward, stream, close | handler, pollers | outcomes in `FailoverWalk`, connections in `UpstreamPool` |
| metrics parsers, `metrics.py` | none (pure) | detect engine, parse gauges | poller | `MetricsParse`; `KvFeed` takes its results as the constant `Samples` |
| token estimate, `tokens.py` | none (pure) | `estimate_context_tokens` | handler | `TokenEstimate`, `GateInputs`; in `FailoverWalk` a request carries `ctx` or `None` |
| endpoints, `app.py` | gauges | `/v1/models`, `/healthz`, `/metrics` | registry, states | `ModelRegistry` (`Items`), `Exposition` (`Scrapes`) |
| lifecycle, `main.py`, lifespan | tasks | start pollers, die on a dead poller, shut down | all | `GateProcess` |

What is hard, and what makes each part correct:

* **Counter against polls.** A request charges a backend's headroom before its
  proxied call and gives the charge back if the call fails; a poll may replace
  the headroom (re-anchor) or drop it (unanchor) in between. The guard is one
  integer per backend. Correct means the counter is a ledger: the anchor less
  the charges taken from it and not given back.
* **Failing open.** A stale feed admits everything and still charges. Correct
  means it is the *only* reason a counter goes below zero.
* **The walk.** It starts anywhere, wraps, is interrupted at each candidate, and
  ends in exactly one of five answers. Correct means each candidate is visited
  once, in order, failovers say so, the answer is the one the exhaustion rule
  gives, counted once, and the walk ends.
* **Two layers, two caches.** The tiered layer reads the usage cache, the
  autoconfig layer the counter. Correct means they come from the same poll.
* **Flags on change.** Alert flags are set by change callbacks, not by state.
  Correct means no sequence of bodies leaves one wrong.
* **Boundaries.** Percentages, fractions and tokens; floors and ceilings;
  inclusive tests written twice (`fill`'s prefilter repeats the admission test).
* **The loop.** One task scrapes, discovers and sleeps; any of its calls may fail
  or hang. Correct means the feed of a backend that answers is fresh, one that
  nothing reads goes stale, and the registry converges to what is served.
* **Start and end.** A poller that dies must end the process; a shutdown must end
  every poller first, wherever it is, and then close the client they share.
* **One pool.** Requests, streams and pollers share the client's connections.
  Correct means every way through the walk gives its connection back, and nobody
  waits for ever.
* **Intake.** Layers of configuration, two engines' gauges and request bodies of
  any shape come from outside. Correct means what is accepted is what the rest
  assumes, two readings of one text agree, and unreadable requests pass.

`PROJECT.json` lists every hazard at its line, with the properties aimed at it or
the reason none covers it yet.

## 2. Modules

```
GateConfig ─ Admission ─┬─ Routing ─┬─ RoutingSnapshot ── MCRouting
    │                   └─ KvFeed ──┤
    └─ ModelRegistry ───────────────┴─ FailoverWalk ─ WalkProperties ─┬─ MCWalk
                                          │ refines                    └─ MCPolicies
                                       KvLedger

KvFeed, ModelRegistry ─┬─ Poller ─┬─ MCPoller
                       │     │    └─ GateProcess ── MCProcess
                       │     │ refines
                       └─ PollerEffects

RawValues ─┬─ ConfigLoad (INSTANCE GateConfig) ─┐
           ├─ MetricsParse ─ Exposition ────────┼─ GateInputs ── MCInputs
           └─ TokenEstimate ────────────────────┘

UpstreamPool ── MCPool
```

* **`GateConfig`** declares the configuration as CONSTANTS and states, in
  `ConfigAssumption`, what `config.py` validates: unique names, at most one
  default, one tier per `kv_pct`, `target` in (0, 100], `token_margin >= 1`,
  `1 <= retry_min <= retry_max`, `threshold_tokens` iff `large_small`. Knobs are
  the resolved ones of `_build_backend_states`. `None` is Python's `None`.
* **`Admission`** is `router.py`. A usage is an integer number of
  `1/FracOne`-ths, a percentage an integer number of `1/FracOne`-ths of a
  percent, so `frac * 100.0` stays a conversion. Arithmetic is exact: floats,
  fractional `kv_pct` and `target` values, and NaN are not represented.
* **`Routing`** is `routing.py`; `even`'s fractions are compared by
  cross-multiplication. Candidate indices are 0-based as in the code.
* **`KvFeed`** is the per-backend state and the metrics tick of `run_poller`
  after its fetch. `fresh` stands for `not is_stale(stale_after_s)`; a feed may
  age at any moment. A transport error changes nothing and is a stutter.
  `update_by_model` also stores the maximum over models, which every parser
  makes equal to the usage, so one value stands for both. `anchor` is history.
* **`ModelRegistry`** is `sync`, a discovery tick, `resolve_candidates`, and the
  collision winner behind `items`, which `/v1/models` and `/healthz` list.
* **`FailoverWalk`** composes them with the handler. Its steps are the code
  between awaits: `Arrive` (resolve, select and walk to the first call),
  `UpstreamOk`, `UpstreamTransportError`, `Upstream5xx`, `Upstream5xxDiscarded`
  and `Released` (the release of a discarded streaming body awaits, then the walk
  goes on), `Released429`, `Raises`; and `PollMetrics`, `Ages`, `PollModels` for
  the pollers. `Resume` is one turn of the loop: a run of rejected candidates
  has no await, so it belongs to the step before it. `pc`, `walk`, `off`,
  `rejects`, `hold` are the handler's locals; `events` is the stats it records;
  `blind` and parts of `hold` (`took`, `open`, `live`) are history, read by
  properties only.
* **`KvLedger`** is the abstract promise of the counters: claims that are spent,
  given back, or superseded by an anchor. `FailoverWalk` implements it
  (`LedgerSpec`) with a sequence number and no record of claims.
* **`RoutingSnapshot`** evaluates selection and admission on one frozen snapshot.
* **`WalkProperties`** holds the properties that sum over requests or read
  histories, and what the documentation says that the code does not keep.

* **`Poller`** is `run_poller`. `task[b]` is the await the task of `b` is at; a step
  is what it runs until the next: `MetricsAnswer` and `MetricsFail` (then discovery
  if `Due`, else sleep), `ModelsAnswer`, `ModelsFail`, `ModelsRaise`, `Wakes`, and
  `Cancelled`. Each backend has its own clock, because two tasks share no timer:
  `elapsed`, `age` and `since` are what the code computes from `time.monotonic()`,
  capped where more time makes no difference. `Passes` is one second. `Healthy`
  backends answer within `Latency`; of the others a call may fail or never end.
  `fresh` is now exactly `not is_stale`.
* **`PollerEffects`** is the part of it a request handler is composed with in
  `FailoverWalk`: at any moment a feed reads a sample, ages, or a backend's models
  are replaced. `Poller` implements it (`EffectsSpec`, checked and proved), which
  is why the properties of `FailoverWalk` hold of requests beside the real loop.
* **`GateProcess`** puts the loops into the process: `main` refuses or serves, the
  lifespan cancels and awaits the pollers in config order and closes the client,
  `_poller_fatal` exits. A task that was told to stop runs nothing but its
  cancellation: `CancelledError` is raised at the await it is at.
* **`RawValues`, `ConfigLoad`** are `load_config`: the defaults, the file, the
  environment, each checked for its shape when it is merged, the ranges once at the
  end. A value carries the type it was written with. `Running` is what
  `_build_backend_states` makes of the result, and an instance of `GateConfig`.
* **`MetricsParse`, `Exposition`**: a `/metrics` body is a function from the
  families it names to sets of samples, whose values are multiples of 1/`Unit`; the
  parsers are operators on it, the capacity cut to whole tokens. A poll
  writes the cache twice (`update`, `update_by_model`); a scrape of the gate merges
  the maps into the usage gauge. `anchored` and `current` are history.
* **`TokenEstimate`, `GateInputs`**: the estimate on a parsed body, in which a text
  is its length, and the handler's first lines, which parse the bytes three times,
  each parse catching other exceptions and the last one taking other encodings.
  `GateInputs` composes everything the gate reads from outside.
* **`UpstreamPool`** is the walk again, reduced to who holds which connection of
  the shared client. httpx is external: a user waits for a connection until one is
  free or the pool timeout (`main.py:36`) raises, which the walk treats as a
  transport error. What decides between reject, answer and error is left open.

An operator introduced by "Mutant of X" is not part of the model: it is X with a
plausible bug, and `PROJECT.json` says which property refutes it.

## 3. Runs

| Run | Instance | Shows |
|---|---|---|
| `walk` (`MCWalk`) | 2 backends (one with a tier, targets 80 and 60 %, margins 3/2 and 1), 2 concurrent requests of 3 kinds (`fill`, default `round_robin`, unparseable), 2 anchors of `b1` and 1 of `b2` | `TypeOK`, `RollbackIsOwed`, `OvercommitOnlyFailingOpen`, `LedgerBalance`, `TargetRespected`, `RoundRobinLosesNoTurn`, and the refinement `LedgerSpec` |
| `policies` (`MCPolicies`) | 3 backends (one with explicit models), all five policies, an unknown model, 1 request | `FailoversFollowWalk`, `RefusalIsTheWalks`, `CountedOnce`, the action property `WalkShortens`, liveness `EveryRequestAnswered` |
| `routing_snapshot` (`MCRouting`) | 3 candidates, every combination of usages 0.2, 0.6, 1.2 or unknown, headrooms -2, 3 or unanchored, capacities 7, 12 or unknown, contexts 2, 5 or unknown | `FillAgreesWithPrimary`, `AdmissionMonotone`, `RetryAfterInRange`, `AdmissionReachesTargetAtMost`, `EvenIsFirstSmallestSpread` |
| `poller` (`MCPoller`) | 2 backends, interval 1, refresh 2, staleness 3; `b1` answers within 1 and its models are adopted, `b2` fails, hangs, ends its poller, or answers with any of six bodies (complete, above target, no capacity, no usage, neither engine, not a 200) and its models are configured; listings change; 1 anchor of each | `AnchorMatchesUsage`, `CapacityAlertTruthful`, `FreshWhileAnswering`, `DeadCandidatesWarned`, `ListedOnce`, the refinement `EffectsSpec`, liveness `OutageFailsOpen`, `MapConverges` |
| `process` (`MCProcess`) | 2 backends, one whose listing may end its poller, one that may hang; shutdown at any moment | `ProcessTypeOK`, `ClientOutlivesPollers`, `ExitCodeTruthful`, liveness `DeathEndsTheProcess`, `ShutdownEnds` |
| `inputs` (`MCInputs`) | every pair of a file (none, good, or wrong in one of some thirty places) and an environment (silent, overriding, or wrong); then both backends polled with every combination of three usage gauges and three contents, and requests of nine shapes | `TypeOK`, `AcceptedIsServable`, `OneUsage`, `GaugeIsTheFullest`, `EstimateCovers` |
| `pool` (`MCPool`) | 3 requests (2 streaming) of 2 candidates each and a poller on 2 connections | `TypeOK`, `NothingStranded`, liveness `WaitsEnd` |
| `bad_gateway`, `release`, `fill` (`MCWalk`), `poller_dies` (`MCPoller`, one backend), `intake` (`MCInputs`) | as above | the findings of section 5 |

Bounds, all named: `Requests`, `Inputs`, `Samples`, `Served`, `Files`, `Envs` and
`Bodies` are the sets given by the configurations, and `MaxAnchors` caps the anchor
sequence (a tick that would anchor beyond it is disabled; ticks that do not anchor
stay enabled). In `walk` two anchors are enough for a charge to be older than the
current anchor, and an unanchoring body between them for one to be taken while
there is none. Two requests on one backend are enough for one to spend headroom
under the other. In `poller` one anchor of `b2` is enough, because nothing there
spends headroom; the staleness of 3 is the least that covers the interval and two
calls, so a second more of delay anywhere would break `FreshWhileAnswering`, and
the refresh of 2 makes discovery due on some turns and not on others. In `pool`
two connections for four users make everybody wait for everybody. `process` and
`inputs` have only to meet every place a poller can be in when the process stops,
and every check of a layer. Requests are symmetric (`SYMMETRY`) in safety runs only.

Deadlock is checked where the system never stops (`poller`, `routing_snapshot`,
`pool`: pollers poll for ever). It is not in the walk runs (requests are finite and
polls bounded), in `process` (the process exits) nor in `inputs` (a configuration
may be refused).

**Fairness.** Each run assumes only what something in the code, or asyncio, gives:

* `FailoverWalk!FairSpec`: weak fairness of each handler. The loop runs a ready
  task, and every proxied call or release ends. The first is asyncio's; the second
  is an assumption on the upstreams, because the shared client has no read timeout
  (`main.py:36`). Nothing is assumed of pollers: a walk ends even if polls never
  stop or never come.
* `Poller!Fairness`: time passes, a sleep that is over ends, and a *healthy*
  backend answers; a listing is a 200 infinitely often if it is asked for
  infinitely often (strong fairness, because each attempt may fail). Nothing is
  assumed of the others: `OutageFailsOpen` holds of them whatever they do, and
  `MapConverges` asks of a backend with configured models only that its polls end.
* `GateProcess!ProcessFairSpec`: the loop runs what is ready (a cancelled task, the
  lifespan when what it awaits has ended, a done-callback). No poll has to end.
* `UpstreamPool!Fairness`: a wait ends by the pool's own timeout if not before, and
  a handler goes on where it awaits nothing. No backend has to answer, no client to
  read, no stream to end.

## 4. Proofs

Checked by TLAPS for every value of the constants that `ConfigAssumption` and the
other named assumptions admit; nothing is left unproved. Each module of proofs
extends the one it is about; `FoldProofs` and `ComponentProofs` hold what several need.

* **`FoldProofs`**: what the rest needs of finite sets and of the folds of the
  community modules. Least and greatest elements exist by a minimal counterexample
  under the well-founded order on finite subsets; induction over the subsets of a
  finite set follows, with a set of subsets in place of a predicate. A sum is a fold
  in an order that `CHOOSE` picks: `SumsUnique` and `SumsExist` show that the fold's
  recursive equations have one solution, `SumUnfolds` and `SumRemoves` that any element
  may come out first. From these: sums split, are monotone, are invariant under
  renaming, and sums of sums can be taken at once.
* **`ComponentProofs`**: facts of the pure operators. Of admission: a ceiling reaches
  its quotient; a charge is at least the estimate and monotone; a headroom is
  between zero and what the target leaves; `Retry-After` lies in `[min, max]`; a
  combined decision allows iff both layers do. Of routing: every selection is an
  index or `None`; `even`'s choice exists and is the first of the smallest spreads;
  `fill`'s is the first eligible. Of the feed and the registry: what a metrics tick,
  ageing and a discovery do to types, to `AnchorMatchesUsage` and to
  `CapacityAlertTruthful`, each proved once and cited by the walk and by the pollers;
  and `RegistryListsOnce`, a fact of every well-typed registry: the first owner in
  config order exists because `BackendOrder` is a finite sequence, and validation
  allows one default at most.
* **`SnapshotProofs`**: the five promises of one snapshot as theorems of
  `RoutingSnapshot`, for any number of backends, candidates, tiers and tokens.
  `FillAgreesWithPrimaryAlways` rests on `IneligibleRejected` (what `fill` skips,
  the walk rejects) and on the walk's index not wrapping before the end of the
  list; `AdmissionReachesTargetAlways` on the anchor's floor and the inclusive
  test; `RetryAfterInRangeAlways` on an over-run being more than one quotient;
  `AdmissionMonotoneAlways` on the governing tier being unique, so a larger
  request meets the same tier, and on ceilings being monotone.
* **`FailoverWalkProofs`**: `TypeCorrect`, `AnchorMatchesUsageAlways`,
  `CapacityAlertTruthfulAlways`, `RefusalIsTheWalksAlways`, `FailoversFollowWalkAlways`,
  `CountedOnceAlways`, `WalkShortensAlways`, `RoundRobinLosesNoTurnAlways`.
  Type correctness carries
  the weight: that `Resume` charges a backend, extends `rejects` and `events` by
  sequences of the right records, and stays on candidates. `HandlerEffect` summarises what any
  handler step may do to the counters: nothing but take and settle charges. The
  refusal rule is not inductive as it stands, because a 429 may be decided before
  the release of a kept 5xx and sent after it: `RefusalInv` states it from the
  decision on, and the rest is a fact of `FirstLongest` and of where `Exhaust` is
  reached.
  What a request recorded is proved by `HistoryInv`, which says of each place of the
  handler what its events are: first one failover per candidate behind it, in the
  order of the walk, then the outcome that goes with the answer, if it is decided.
  `FailoversFollowWalk` and `CountedOnce` read it; that no candidate is visited twice
  is arithmetic (two offsets below the length differ modulo it, `CandidatesDiffer`).
  `WalkShortens` needs it too, for the offset of a call being below the length.
  `RoundRobinLosesNoTurn` is kept by `TurnsInv`: only finitely many requests were
  served, one more is one element more, and the index moves by one modulo the same
  length.
* **`HeadroomProofs`**: `RollbackIsOwedAlways`, `OvercommitOnlyFailingOpenAlways`,
  the refinement `LedgerImplemented`, `LedgerBalanceAlways` and `TargetRespectedAlways`.
  None is inductive alone.
  *RollbackIsOwed* needs `HoldsCurrent`: no hold carries a sequence number from
  the future, and a hold of the current number on an anchored counter was taken.
  *OvercommitOnlyFailingOpen* needs that (so a rollback only adds), `TypeOK`, and
  `FreshKnown`: a fresh feed has a usage, so its decision was made by the
  autoconfig layer, whose charge fits (`EvaluateFacts`).
  *LedgerImplemented* shows that the code needs no record of which charges were
  taken: a hold is a claim of the ledger while its number is the anchor's, the
  guarded rollback is the ledger's giving back (`GivenBackIsBack`, on an unanchored
  counter too), and an anchor outdates the claims on its backend because no hold is
  from the future (`HoldsCurrent` again). `ClaimAssumption` keeps the value that
  stands for no claim apart from the claims.
  *LedgerBalance* is a sum over the requests that ever arrived, of which `HoldsInv`
  says there are finitely many although `Requests` need not be finite; a charge is a
  summand more, a rollback one less, and an anchor leaves none, because every hold
  is then older than it. *TargetRespected* is not about the counter, which failing
  open and rolling back move for other reasons: `AdmittedFits` keeps that the charges
  admitted on a fresh feed fit into the headroom the anchor gave, and is preserved
  because such a charge was tested against a counter that is at most that headroom
  less the earlier ones (`LedgerBalance`).
* **`PollerProofs`**: `PollerTypeCorrect`; `PollerImplementsEffects`, each step of the
  loop being a step of `PollerEffects` or a stutter; `PollerAnchorMatchesUsage` and
  `PollerAlertsTruthful` from the lemmas of `ComponentProofs`; `DeadCandidatesWarnedAlways`;
  and `FreshWhileAnsweringAlways` for every interval, refresh period and latency.
  Its invariant `FreshInv` bounds the age of a healthy feed by where its task is in
  the turn: the elapsed time while it lists models, one call more while it sleeps,
  and the interval more while it scrapes again, which is how the two calls in the
  bound arise. Of `GateProcess`:
  `ProcessTypeCorrect`, `ClientOutlivesPollersAlways`, `ExitCodeTruthfulAlways`, by
  `ProcessInv`: every poller before the one awaited has been cancelled, and none of
  those not told to stop. The promises of the loop are then carried into the process,
  where a cancellation may meet it at any await: `ProcessImplementsEffects`,
  `ProcessFeedsTruthful` (the feed's two invariants and the warnings, through
  shutdown and death), and `FreshWhileServingAlways`, whose invariant `PollingInTime`
  bounds the age for the pollers not told to stop only.
* **`GateInputsProofs`**, everything read from outside. `AcceptedIsServableAlways`, by
  `LoadInv`: at each stage the
  data have the types the parsers check for, and no value changes its type between
  parsing and validation, which decides the rest. It is the theorem that discharges,
  for the code's own loader, what every other module assumes of its constants.
  `OneUsageAlways`, by `ExpositionInv`: the greatest of the maxima of a family by model
  is the maximum of the family, whichever family the body's engine selects.
  `GaugeIsTheFullestAlways`, because a scrape leaves exactly the series of the merged
  map, and a maximum over finitely many backends is attained. `EstimateCoversAlways`:
  the sum over messages of the sums over their parts, which the code takes, is the
  sum over all the text of the request (`TextsSum`), and the negated floor division
  is a ceiling. `InputsTypeCorrect`. The invariant `InputsInv` joins the three.
* **`PoolProofs`**: `PoolTypeCorrect` and `NothingStrandedAlways`, by `PoolInv`: a
  request that tries a candidate has one left, which keeps the connection it takes
  apart from those of its earlier candidates, and who waits or is done holds none.

**Assumed of the constants**, besides `ConfigAssumption`: that units and periods are
positive (`FracAssumption`, `UnitAssumption`, `PollerAssumption`), that the sets of inputs contain
what their types say (`RegistryAssumption`, `WalkAssumption`, `SnapshotAssumption`,
`PoolAssumption`, `LoadAssumption`), that a poll without a 200 returns an empty sample
(`KvFeedAssumption`), that there are finitely many backends and a metrics text has
finitely many samples (`ExpositionAssumption`), that a parsed JSON body has the shapes
`json.loads` makes (`RequestsAssumption`), and that the values that stand for "none"
are none of the others (`RawAssumption`, `ClaimAssumption`). TLC evaluates each on
every run of its module.

**Only model-checked.** Liveness (`EveryRequestAnswered`, `OutageFailsOpen`,
`MapConverges`, `DeathEndsTheProcess`, `ShutdownEnds`, `WaitsEnd`): its proofs need
`ENABLED`, which is out of the prover's reach. `WalkShortens`
is the part of `EveryRequestAnswered` that can be proved: a handler that is
scheduled, and whose calls end, has a bounded number of steps. Every invariant and
every other action property of a passing run is a theorem.

## 5. Findings

Five statements of the documentation are refuted by a run:

1. `bad_gateway`: README.md:177 and app.py:53-55 give the 502 to a walk on which no
   upstream answered. The code keeps a 5xx of the last candidate only, so an
   earlier candidate's 5xx followed by a transport error of the last is a 502.
2. `release`: README.md:155-163 makes a pre-stream 5xx a skip of a walk that never
   short-circuits. Releasing a discarded streaming body reads its first chunk and
   catches `StopAsyncIteration` only; any other error ends the request.
3. `fill`: README.md:140-141 says `fill` and `primary_fallback` reach the same
   candidate for every request. On a frozen snapshot they do
   (`FillAgreesWithPrimary`); across awaits `fill` wraps to candidates that
   `primary_fallback` had already passed.
4. `poller_dies`: poller.py:83 and 94-95 say that cancellation is the only way a
   poller ends. `parse_v1_models` (models.py:54) does not catch the `RecursionError`
   of `json.loads` on deeply nested JSON, so such a body ends the task, and
   `_poller_fatal` the process.
5. `intake`: tokens.py:22-26 has pathologically nested bodies forwarded. The
   estimator catches that `RecursionError`; `_is_streaming` (app.py:343), which parses
   the same bytes next, does not, and the client gets a 500. An integer literal with
   more digits than `int()` takes ends the same way one parse earlier: `json.loads`
   raises a plain `ValueError`, which tokens.py:117 and 148 let pass, although
   tokens.py:134 has `extract_request_model` never raise. `Reads` raises on both.

Three smaller observations no run is spent on:

* `/healthz` reports the policy of a model's routing entry as the one in effect
  (app.py:902-907) also while none of the backends the entry names serves the model,
  when the handler falls back to the default backend (app.py:601-607).
* A positive capacity gauge below one token gives a capacity of 0 (metrics.py:249,
  302 and 305), where metrics.py:245 and 298 say it gives none: the counter is then
  anchored at 0 and rejects, instead of failing open.
* `FreshWhileAnswering` needs a relation between `stale_after_s`, the interval and the
  latency of a backend that nothing in the configuration checks (the defaults, 6 and
  2 seconds, leave two calls of 2 seconds each).

## 6. Not modelled

* Floating point: `Admission` and the parsers compute exactly, in whole multiples of
  a unit. Where a knob is a fraction (a margin of 1.25, an interval below a second)
  `ConfigLoad` has whole numbers only, so "greater than 0" and "at least 1" coincide
  for the knobs whose bound is 0; and an overflow of `float()` or of `int(ceil())`
  on huge numbers cannot happen.
* Texts: wording of messages and logs, the exposition format, YAML and JSON syntax,
  headers and bodies, host names, the log level. A layer of the configuration that
  is wrong in one of those is one that is not `well_formed`.
* Gauges that copy one value of a backend, histograms, the config info series.
* What is outside the code: uvicorn draining requests before the lifespan stops
  (without a timeout, so an endless stream delays it), Starlette starting every body
  iterator it is given (a streamed answer whose iterator was never started would
  keep its connection), httpx's pool beyond its limit and its timeout, and the
  backends' true usage, which a metrics body tells too late (README.md:256 accepts
  the drift until the next anchor).
* Fairness between concurrent requests: `RoundRobinLosesNoTurn` says no turn is
  lost; requests that overlap may still start at the same candidate.
* Memory: the round-robin map keeps an entry for every model id that was ever served.
* Packaging, CI and dashboards have no run-time state.
