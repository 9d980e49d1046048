----------------------------- MODULE ConfigLoad ------------------------------
(* config.py's load_config: the defaults, then the config file, then the      *)
(* environment, each checked for its shape as it is merged, and the ranges    *)
(* only once, on what has come out.  Hosts, texts and keys that are wrong are *)
(* abstracted to a layer that is not well formed.                             *)
EXTENDS RawValues, Sequences

CONSTANTS
  Names,     \* the backend names a layer may use
  Models,    \* the model ids a layer may use
  Files,     \* what the config file may be, None if there is none
  Envs       \* what the environment may be

IntKnobs == {"listen_port", "chars_per_token", "default_max_tokens", "retry_min_s", "retry_max_s"}

NumberKnobs == {"metrics_poll_interval_s", "stale_after_s", "model_refresh_interval_s",
                "target_kv_cache_pct", "token_margin"}

Knobs == IntKnobs \cup NumberKnobs

\* The knobs that have an environment variable, and those of a backend.
EnvKnobs == {"listen_port", "retry_min_s", "retry_max_s", "target_kv_cache_pct",
             "token_margin", "model_refresh_interval_s"}

BackendKnobs == {"target_kv_cache_pct", "token_margin", "retry_min_s", "retry_max_s"}

RawTier == [kv_pct : Raw, max_context : Raw, timeout_s : Raw]

IsSequence(s) == Len(s) \in Nat /\ DOMAIN s = 1..Len(s)

IsKnobs(knobs, keys) == DOMAIN knobs \subseteq keys /\ \A k \in DOMAIN knobs : knobs[k] \in Raw

IsEntry(e) ==
  /\ e.name \in Names \cup {None}
  /\ e.port \in Raw
  /\ e.models \in Seq(Models)
  /\ e.default \in BOOLEAN
  /\ e.thresholds = None \/ e.thresholds \in Seq(RawTier)
  /\ IsKnobs(e.knobs, BackendKnobs)

RawSpec == [policy : STRING, order : Seq(Names), threshold_tokens : Raw \cup {None}]

\* What a file, or the environment, may hold.
IsLayer(l) ==
  /\ l.well_formed \in BOOLEAN
  /\ IsKnobs(l.knobs, Knobs)
  /\ l.thresholds = None \/ l.thresholds \in Seq(RawTier)
  /\ l.backends # None => IsSequence(l.backends) /\ \A i \in DOMAIN l.backends : IsEntry(l.backends[i])
  /\ l.routing # None =>
       DOMAIN l.routing \subseteq Models /\ \A m \in DOMAIN l.routing : l.routing[m] \in RawSpec

\* The routing section, and some knobs, are for the file only.
ASSUME LoadAssumption ==
  /\ \A f \in Files : f # None => IsLayer(f)
  /\ \A e \in Envs : IsLayer(e) /\ DOMAIN e.knobs \subseteq EnvKnobs /\ e.routing = None

VARIABLES
  file,      \* the file the gate is started with
  env,       \* and its environment
  stage,     \* how far load_config has come
  data       \* the GateConfig it has so far

loadVars == <<file, env, stage, data>>

Policies == {"round_robin", "primary_fallback", "large_small", "even", "fill"}

\* A margin of 1 stands for the default 1.25: a number is whole.
Defaults ==
  [knobs |->
     [listen_port |-> 8000, chars_per_token |-> 4, default_max_tokens |-> 256,
      retry_min_s |-> 5, retry_max_s |-> 60, metrics_poll_interval_s |-> 2,
      stale_after_s |-> 6, model_refresh_interval_s |-> 30,
      target_kv_cache_pct |-> 85, token_margin |-> 1],
   thresholds |-> <<>>, backends |-> <<>>, routing |-> [m \in {} |-> None]]

Listed(seq) == {seq[i] : i \in DOMAIN seq}

Distinct(seq) == \A i, j \in DOMAIN seq : seq[i] = seq[j] => i = j

-----------------------------------------------------------------------------
(* The shape of a layer, and what it parses to.                               *)

KnobsParse(knobs) ==
  \A k \in DOMAIN knobs : IF k \in IntKnobs THEN IsInt(knobs[k]) ELSE IsNumber(knobs[k])

KnobValues(knobs) == [k \in DOMAIN knobs |-> knobs[k].value]

TiersParse(tiers) ==
  \A i \in DOMAIN tiers :
    IsNumber(tiers[i].kv_pct) /\ IsInt(tiers[i].max_context) /\ IsInt(tiers[i].timeout_s)

TierValues(tiers) ==
  [i \in DOMAIN tiers |-> [kv_pct      |-> tiers[i].kv_pct.value,
                           max_context |-> tiers[i].max_context.value,
                           timeout_s   |-> tiers[i].timeout_s.value]]

OptionalTiersParse(tiers) == tiers # None => TiersParse(tiers)

OptionalTierValues(tiers) == IF tiers = None THEN None ELSE TierValues(tiers)

BackendsParse(entries) ==
  \A i \in DOMAIN entries :
    LET e == entries[i]
    IN  /\ e.name # None
        /\ IsInt(e.port)
        /\ Distinct(e.models)
        /\ OptionalTiersParse(e.thresholds)
        /\ KnobsParse(e.knobs)

ParsedBackends(entries) ==
  [i \in DOMAIN entries |->
     LET e == entries[i]
     IN  [name |-> e.name, port |-> e.port.value, models |-> e.models, default |-> e.default,
          thresholds |-> OptionalTierValues(e.thresholds), knobs |-> KnobValues(e.knobs)]]

RoutingParses(routing) ==
  \A m \in DOMAIN routing :
    LET e == routing[m]
    IN  /\ e.policy \in Policies
        /\ e.order # <<>>
        /\ Distinct(e.order)
        /\ e.threshold_tokens # None => IsInt(e.threshold_tokens) /\ e.threshold_tokens.value >= 1
        /\ e.policy = "large_small" <=> e.threshold_tokens # None

ParsedRouting(routing) ==
  [m \in DOMAIN routing |->
     [routing[m] EXCEPT !.threshold_tokens = IF @ = None THEN None ELSE @.value]]

LayerParses(layer) ==
  /\ layer.well_formed
  /\ KnobsParse(layer.knobs)
  /\ OptionalTiersParse(layer.thresholds)
  /\ layer.backends # None => BackendsParse(layer.backends)
  /\ layer.routing # None => RoutingParses(layer.routing)

\* What a layer names wins; a list, and the routing, are replaced as a whole.
Overlay(d, layer) ==
  [knobs |-> [k \in Knobs |->
     IF k \in DOMAIN layer.knobs THEN layer.knobs[k].value ELSE d.knobs[k]],
   thresholds |-> IF layer.thresholds = None THEN d.thresholds ELSE TierValues(layer.thresholds),
   backends |-> IF layer.backends = None THEN d.backends ELSE ParsedBackends(layer.backends),
   routing |-> IF layer.routing = None THEN d.routing ELSE ParsedRouting(layer.routing)]

-----------------------------------------------------------------------------
(* The ranges.                                                                *)

\* retry_max_s is compared with retry_min_s only.
InRange(k, v) ==
  CASE k = "listen_port"         -> 1 <= v /\ v <= 65535
    [] k = "default_max_tokens"  -> v >= 0
    [] k = "target_kv_cache_pct" -> Finite(v) /\ 0 < v /\ v <= 100
    [] k = "retry_max_s"         -> TRUE
    [] k \in NumberKnobs \ {"target_kv_cache_pct"} -> Finite(v) /\ v >= 1
    [] OTHER                     -> v >= 1

ValidTiers(tiers) ==
  /\ \A i \in DOMAIN tiers :
       LET t == tiers[i]
       IN  /\ Finite(t.kv_pct) /\ 0 <= t.kv_pct /\ t.kv_pct <= 100
           /\ t.max_context >= 1
           /\ t.timeout_s >= 1
  /\ \A i, j \in DOMAIN tiers : tiers[i].kv_pct = tiers[j].kv_pct => i = j

\* The backend's own knob, else the global one.
Effective(d, i, k) ==
  IF k \in DOMAIN d.backends[i].knobs THEN d.backends[i].knobs[k] ELSE d.knobs[k]

\* Mutant of RetryPairs: a pair is compared where the backend overrides it only.
RetryPairsOwn(d) ==
  \A i \in DOMAIN d.backends :
    {"retry_min_s", "retry_max_s"} \subseteq DOMAIN d.backends[i].knobs =>
      Effective(d, i, "retry_max_s") >= Effective(d, i, "retry_min_s")

RetryPairs(d) ==
  \A i \in DOMAIN d.backends : Effective(d, i, "retry_max_s") >= Effective(d, i, "retry_min_s")

ValidBackendList(d) ==
  /\ d.backends # <<>>
  /\ \A i, j \in DOMAIN d.backends : d.backends[i].name = d.backends[j].name => i = j
  /\ \A i, j \in DOMAIN d.backends : d.backends[i].default /\ d.backends[j].default => i = j
  /\ \A i \in DOMAIN d.backends :
       LET b == d.backends[i]
       IN  /\ 1 <= b.port /\ b.port <= 65535
           /\ b.thresholds # None => ValidTiers(b.thresholds)
           /\ \A k \in DOMAIN b.knobs : InRange(k, b.knobs[k])
  /\ RetryPairs(d)

BackendNames(d) == {d.backends[i].name : i \in DOMAIN d.backends}

ValidRoutingSection(d) ==
  \A m \in DOMAIN d.routing : Listed(d.routing[m].order) \subseteq BackendNames(d)

Valid(d) ==
  /\ ValidTiers(d.thresholds)
  /\ \A k \in Knobs : InRange(k, d.knobs[k])
  /\ d.knobs["retry_max_s"] >= d.knobs["retry_min_s"]
  /\ ValidBackendList(d)
  /\ ValidRoutingSection(d)

-----------------------------------------------------------------------------
(* load_config.                                                               *)

LoadInit ==
  /\ file \in Files
  /\ env \in Envs
  /\ stage = "defaults"
  /\ data = Defaults

\* Merges a layer at the given stage, or ends the load.
Merges(layer, from, to) ==
  /\ stage = from
  /\ IF LayerParses(layer)
     THEN stage' = to /\ data' = Overlay(data, layer)
     ELSE stage' = "refused" /\ UNCHANGED data
  /\ UNCHANGED <<file, env>>

MergesFile == file # None /\ Merges(file, "defaults", "merged")

FindsNoFile ==
  /\ stage = "defaults"
  /\ file = None
  /\ stage' = "merged"
  /\ UNCHANGED <<file, env, data>>

AppliesEnv == Merges(env, "merged", "overridden")

Validates ==
  /\ stage = "overridden"
  /\ stage' = IF Valid(data) THEN "accepted" ELSE "refused"
  /\ UNCHANGED <<file, env, data>>

LoadNext == MergesFile \/ FindsNoFile \/ AppliesEnv \/ Validates

LoadSpec == LoadInit /\ [][LoadNext]_loadVars

-----------------------------------------------------------------------------
(* What a gate that starts runs with (app.py's _build_backend_states).        *)

Index(b) == CHOOSE i \in DOMAIN data.backends : data.backends[i].name = b

KnobOf(k) == [b \in BackendNames(data) |-> Effective(data, Index(b), k)]

TiersOf(b) ==
  LET own == data.backends[Index(b)].thresholds
  IN  Listed(IF own = None THEN data.thresholds ELSE own)

Running == INSTANCE GateConfig WITH
  Backends       <- BackendNames(data),
  BackendOrder   <- [i \in DOMAIN data.backends |-> data.backends[i].name],
  FlaggedDefault <- {b \in BackendNames(data) : data.backends[Index(b)].default},
  ExplicitModels <- [b \in BackendNames(data) |-> Listed(data.backends[Index(b)].models)],
  RoutingSpecs   <- data.routing,
  Thresholds     <- [b \in BackendNames(data) |-> TiersOf(b)],
  TargetPct      <- KnobOf("target_kv_cache_pct"),
  MarginNum      <- KnobOf("token_margin"),
  MarginDen      <- 1,
  RetryMin       <- KnobOf("retry_min_s"),
  RetryMax       <- KnobOf("retry_max_s")

\* Whatever mix of file, environment, global knobs and backend overrides is
\* accepted, the resolved configuration is one admission, routing and the
\* pollers are specified for: the ranges are checked once, on the merged layers,
\* while the two ends of a pair, or the routing and its backends, may come from
\* different ones (config.py:536-675 against app.py:417-458).
AcceptedIsServable ==
  stage = "accepted" => Running!ValidBackends /\ Running!ValidKnobs /\ Running!ValidRouting
=============================================================================
