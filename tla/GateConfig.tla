----------------------------- MODULE GateConfig ------------------------------
(* The configuration a running gate was started with: the parts of config.py  *)
(* that admission and routing read, and what its validation guarantees.       *)
(*                                                                            *)
(* A backend's knobs are the resolved ones (its own, else the global default, *)
(* app.py's _build_backend_states).  None stands for Python's None.           *)
EXTENDS Integers, Sequences

CONSTANTS
  None,
  Backends,        \* configured backend names
  BackendOrder,    \* the backends in config order
  FlaggedDefault,  \* the backends with `default: true`
  Models,          \* the model ids a request, a backend or the config may name
  ExplicitModels,  \* ExplicitModels[b]: the configured models of b, {} to adopt
  RoutingSpecs,    \* the `routing:` entries, a function on the models it names
  Thresholds,      \* Thresholds[b]: the tiers of b
  TargetPct,       \* TargetPct[b]: target_kv_cache_pct, a whole percentage
  MarginNum,       \* MarginNum[b] / MarginDen: token_margin of b
  MarginDen,
  RetryMin,        \* RetryMin[b], RetryMax[b]: retry_min_s and retry_max_s of b
  RetryMax

NatOrNone == Nat \cup {None}
IntOrNone == Int \cup {None}

Listed(seq) == {seq[i] : i \in DOMAIN seq}

NoRepeats(seq) == \A i, j \in DOMAIN seq : seq[i] = seq[j] => i = j

Tier == [kv_pct : 0..100, max_context : Nat \ {0}, timeout_s : Nat \ {0}]

Policies == {"round_robin", "primary_fallback", "large_small", "even", "fill"}

RoutingSpec == [policy : Policies, order : Seq(Backends), threshold_tokens : NatOrNone]

ValidBackends ==
  /\ BackendOrder \in Seq(Backends)
  /\ BackendOrder # <<>>
  /\ Listed(BackendOrder) = Backends
  /\ NoRepeats(BackendOrder)
  /\ FlaggedDefault \subseteq Backends
  /\ \A b, c \in FlaggedDefault : b = c
  /\ ExplicitModels \in [Backends -> SUBSET Models]

ValidKnobs ==
  /\ MarginDen \in Nat \ {0}
  /\ MarginNum \in [Backends -> Nat]
  /\ RetryMin \in [Backends -> Nat]
  /\ RetryMax \in [Backends -> Nat]
  /\ TargetPct \in [Backends -> 1..100]
  /\ \A b \in Backends :
       /\ MarginNum[b] >= MarginDen
       /\ 1 <= RetryMin[b] /\ RetryMin[b] <= RetryMax[b]
       /\ Thresholds[b] \subseteq Tier
       /\ \A s, t \in Thresholds[b] : s.kv_pct = t.kv_pct => s = t

ValidRouting ==
  /\ DOMAIN RoutingSpecs \subseteq Models
  /\ \A m \in DOMAIN RoutingSpecs :
       LET spec == RoutingSpecs[m]
       IN  /\ spec \in RoutingSpec
           /\ spec.order # <<>>
           /\ NoRepeats(spec.order)
           /\ spec.policy = "large_small" <=> spec.threshold_tokens # None

ASSUME ConfigAssumption ==
  /\ None \notin Int /\ None \notin BOOLEAN /\ None \notin Backends
  /\ Models # {}
  /\ ValidBackends
  /\ ValidKnobs
  /\ ValidRouting

\* The flagged backend, else the first configured one.
DefaultBackend ==
  IF FlaggedDefault # {} THEN CHOOSE b \in FlaggedDefault : TRUE ELSE BackendOrder[1]
=============================================================================
