----------------------------- MODULE Exposition ------------------------------
(* The way of the usage from a backend's /metrics body to the gate's own: the *)
(* poll parses it into the cache's value and its per-model map (metrics.py),  *)
(* and each scrape of the gate merges the maps of all backends into one gauge *)
(* (app.py's metrics endpoint, stats.py's set_kv_usage).                      *)
EXTENDS MetricsParse

CONSTANTS
  Backends,
  Bodies       \* the 200 bodies a poll may be answered with

ASSUME ExpositionAssumption ==
  IsFiniteSet(Backends) /\ \A body \in Bodies : IsExposed(body)

VARIABLES
  value,       \* MetricsCache._value: what the tiered layer reads
  by_model,    \* MetricsCache._by_model
  capacity,    \* CapacityCache: what that usage is a fraction of
  anchored,    \* history: the usage the last poll that had one anchors with
  kv_usage,    \* the gauge: the series that are set, by model_name
  kv_models,   \* GateStats._kv_models: the series it believes are set
  current      \* history: no poll since the last scrape

expositionVars == <<value, by_model, capacity, anchored, kv_usage, kv_models, current>>

ExpositionInit ==
  /\ value = [b \in Backends |-> None]
  /\ by_model = [b \in Backends |-> NoSeries]
  /\ capacity = [b \in Backends |-> None]
  /\ anchored = [b \in Backends |-> None]
  /\ kv_usage = NoSeries
  /\ kv_models = {}
  /\ current = FALSE

SetMax(by) == Max({by[m] : m \in DOMAIN by})

\* update, then update_by_model, which sets the value once more.
Polls(b) ==
  \E body \in Bodies :
    LET sample == Parsed(body)
    IN  /\ by_model' = [by_model EXCEPT ![b] =
             IF DOMAIN sample.by_model = {} THEN @ ELSE sample.by_model]
        /\ value' = [value EXCEPT ![b] =
             IF DOMAIN sample.by_model # {} THEN SetMax(sample.by_model)
             ELSE IF sample.usage # None THEN sample.usage ELSE @]
        /\ capacity' = [capacity EXCEPT ![b] =
             IF sample.capacity = None THEN @ ELSE sample.capacity]
        /\ anchored' = [anchored EXCEPT ![b] =
             IF sample.usage = None THEN @ ELSE sample.usage]
        /\ current' = FALSE
        /\ UNCHANGED <<kv_usage, kv_models>>

\* Mutant of Merged: a model that repeats keeps the last backend's usage.
MergedLast ==
  [m \in UNION {DOMAIN by_model[b] : b \in Backends} |->
     by_model[CHOOSE b \in Backends : m \in DOMAIN by_model[b]][m]]

\* A model id that repeats across backends keeps the larger usage.
Merged ==
  [m \in UNION {DOMAIN by_model[b] : b \in Backends} |->
     Max({by_model[b][m] : b \in {b \in Backends : m \in DOMAIN by_model[b]}})]

\* Mutant of SetKvUsage: the series of a model that went away stay.
SetKvUsageOnly(by) ==
  /\ kv_usage' = [m \in DOMAIN kv_usage \cup DOMAIN by |->
                    IF m \in DOMAIN by THEN by[m] ELSE kv_usage[m]]
  /\ kv_models' = DOMAIN by

\* Series it believes set and that are gone from the feed are removed.
SetKvUsage(by) ==
  /\ kv_usage' = [m \in (DOMAIN kv_usage \ (kv_models \ DOMAIN by)) \cup DOMAIN by |->
                    IF m \in DOMAIN by THEN by[m] ELSE kv_usage[m]]
  /\ kv_models' = DOMAIN by

Scrapes ==
  /\ SetKvUsage(Merged)
  /\ current' = TRUE
  /\ UNCHANGED <<value, by_model, capacity, anchored>>

-----------------------------------------------------------------------------
(* Properties.                                                                *)

ExpositionTypeOK ==
  /\ value \in [Backends -> Int \cup {None}]
  /\ anchored \in [Backends -> Int \cup {None}]
  /\ capacity \in [Backends -> Nat \cup {None}]
  /\ kv_models = DOMAIN kv_usage
  /\ current \in BOOLEAN

\* Both admission layers act on one usage: what the per-model map leaves in the
\* cache is what the counter is anchored with, although two parsers read it, from
\* gauges that are chosen per body (metrics.py:228-289 and 420-433,
\* poller.py:384-398).
OneUsage == \A b \in Backends : value[b] = anchored[b]

\* A scrape tells, for each model a backend reported, the fullest backend of it,
\* and no model that no backend reports any more (app.py:967-978,
\* stats.py:262-275).
GaugeIsTheFullest ==
  current =>
    /\ DOMAIN kv_usage = UNION {DOMAIN by_model[b] : b \in Backends}
    /\ \A b \in Backends : \A m \in DOMAIN by_model[b] : by_model[b][m] <= kv_usage[m]
    /\ \A m \in DOMAIN kv_usage : \E b \in Backends :
         m \in DOMAIN by_model[b] /\ by_model[b][m] = kv_usage[m]
=============================================================================
