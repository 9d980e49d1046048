---------------------------- MODULE MetricsParse -----------------------------
(* metrics.py: what a poll reads in the text of a /metrics body.  A body maps *)
(* each metric family it names to its samples; a family may be there without  *)
(* any.  Text that does not parse is the body of no families.  A value is a   *)
(* whole number of 1/Unit-ths, of the cache or of a token, or NaN for every   *)
(* value that is not finite.                                                  *)
EXTENDS RawValues, FiniteSetsExt

CONSTANTS
  Unlabelled,  \* the key of a series without a model_name, "default"
  Unit         \* what the values of samples are in units of

ASSUME UnitAssumption == Unit \in Nat \ {0}

\* The families the parsers look for.  The samples of cache_config_info stand
\* for the values of their kv_cache_size_tokens label.
Families == {"vllm:kv_cache_usage_perc", "vllm:kv_cache_size_tokens",
             "vllm:cache_config_info", "sglang:kv_cache_usage_perc",
             "sglang:token_usage", "sglang:kv_cache_total_tokens",
             "sglang:max_total_num_tokens"}

\* A text is finite, and so are its samples.  int() of a label refuses whatever
\* is not a whole number of tokens: such a label is NaN.
IsExposed(body) ==
  /\ \A family \in DOMAIN body :
       IsFiniteSet(body[family]) /\ \A s \in body[family] : s.value \in Int \cup {NaN}
  /\ "vllm:cache_config_info" \in DOMAIN body =>
       \A s \in body["vllm:cache_config_info"] : s.value = NaN \/ s.value % Unit = 0

DetectEngine(body) ==
  CASE "vllm:kv_cache_usage_perc" \in DOMAIN body -> "vllm"
    [] /\ "vllm:kv_cache_usage_perc" \notin DOMAIN body
       /\ {"sglang:kv_cache_usage_perc", "sglang:token_usage"} \cap DOMAIN body # {} -> "sglang"
    [] OTHER -> "unknown"

FiniteSamples(body, family) ==
  IF family \in DOMAIN body THEN {s \in body[family] : Finite(s.value)} ELSE {}

Values(samples) == {s.value : s \in samples}

MaxOrNone(values) == IF values = {} THEN None ELSE Max(values)

\* No usage by model, for which the parsers return None: the poller takes an
\* empty mapping for the same.
NoSeries == [m \in {} |-> 0]

ByModelFrom(body, family) ==
  LET samples == FiniteSamples(body, family)
  IN  [m \in {s.model : s \in samples} |-> Max(Values({s \in samples : s.model = m}))]

\* The newer gauge if it has a finite sample.
SglangUsageFamily(body) ==
  IF FiniteSamples(body, "sglang:kv_cache_usage_perc") # {}
  THEN "sglang:kv_cache_usage_perc" ELSE "sglang:token_usage"

\* The family the parser of the detected engine reads the usage from.
UsageFamily(body) ==
  IF DetectEngine(body) = "vllm" THEN "vllm:kv_cache_usage_perc" ELSE SglangUsageFamily(body)

Usage(body) ==
  IF DetectEngine(body) = "unknown" THEN None
  ELSE MaxOrNone(Values(FiniteSamples(body, UsageFamily(body))))

\* Mutant of UsageByModel: SGLang's older gauge where both are there.
UsageByModelLegacy(body) ==
  CASE DetectEngine(body) = "unknown" -> NoSeries
    [] DetectEngine(body) = "vllm" -> ByModelFrom(body, "vllm:kv_cache_usage_perc")
    [] OTHER -> ByModelFrom(body, IF FiniteSamples(body, "sglang:token_usage") # {}
                                  THEN "sglang:token_usage" ELSE SglangUsageFamily(body))

UsageByModel(body) ==
  IF DetectEngine(body) = "unknown" THEN NoSeries ELSE ByModelFrom(body, UsageFamily(body))

PositiveIn(body, family) == {v \in Values(FiniteSamples(body, family)) : v > 0}

\* The gauges of the engine, the second only if the first has no positive value.
CapacityFamilies(engine) ==
  CASE engine = "vllm" -> <<"vllm:kv_cache_size_tokens", "vllm:cache_config_info">>
    [] engine = "sglang" -> <<"sglang:kv_cache_total_tokens", "sglang:max_total_num_tokens">>

\* int() of the largest: the part of a token is dropped, and a positive value
\* below one token makes a capacity of 0.
WholeTokens(values) == IF values = {} THEN None ELSE Max(values) \div Unit

Capacity(body) ==
  IF DetectEngine(body) = "unknown" THEN None
  ELSE LET families == CapacityFamilies(DetectEngine(body))
           first    == PositiveIn(body, families[1])
       IN  WholeTokens(IF first # {} THEN first ELSE PositiveIn(body, families[2]))

\* fetch_metrics on a 200.
Parsed(body) ==
  [usage |-> Usage(body), by_model |-> UsageByModel(body), capacity |-> Capacity(body),
   engine |-> DetectEngine(body)]
=============================================================================
