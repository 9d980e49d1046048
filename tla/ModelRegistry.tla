---------------------------- MODULE ModelRegistry ----------------------------
(* models.py: which backend serves which model.  Backends are registered once *)
(* in config order; each backend's owned set is replaced by sync.             *)
EXTENDS GateConfig

CONSTANT Served     \* what a backend's /v1/models may list

ASSUME RegistryAssumption == Served \subseteq SUBSET Models

VARIABLE owned      \* owned[b]: the model ids backend b owns

RegistryTypeOK == owned \in [Backends -> SUBSET Models]

RegistryInit == owned = [b \in Backends |-> {}]

Sync(b, owned_models) == owned' = [owned EXCEPT ![b] = owned_models]

\* A discovery tick: explicit models are synced whatever the fetch returned;
\* without them the discovered set is adopted.  A failed fetch of a backend
\* without explicit models keeps the map and is a stutter.
Discover(b, discovered) ==
  Sync(b, IF ExplicitModels[b] # {} THEN ExplicitModels[b] ELSE discovered)

\* The owners of a model; resolve_candidates lists them in config order.
Serving(model) == {b \in Backends : model \in owned[b]}
-----------------------------------------------------------------------------
(* What /v1/models and /healthz list.                                         *)

Before(b, c) == \E i, j \in DOMAIN BackendOrder : i < j /\ BackendOrder[i] = b /\ BackendOrder[j] = c

\* The collision policy: the default backend, else the first in config order.
Wins(b, model) ==
  /\ b \in Serving(model)
  /\ \/ b \in FlaggedDefault
     \/ /\ Serving(model) \cap FlaggedDefault = {}
        /\ \A c \in Serving(model) \ {b} : Before(b, c)

\* Mutant of Items: every backend lists what it owns.
ItemsOfAll == {e \in Models \X Backends : e[2] \in Serving(e[1])}

Items == {e \in Models \X Backends : Wins(e[2], e[1])}

\* A model is listed exactly once, however many backends own it and in whatever
\* order they were synced, and only while one owns it (models.py:155-198).
ListedOnce ==
  \A m \in Models :
    IF Serving(m) = {} THEN \A b \in Backends : <<m, b>> \notin Items
    ELSE \E b \in Backends : {e \in Items : e[1] = m} = {<<m, b>>}
=============================================================================
