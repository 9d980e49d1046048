------------------------------ MODULE MCInputs -------------------------------
(* GateInputs on two backends: files and environments that differ from a good *)
(* one in a few places each, and every usage gauge with a few contents.       *)
EXTENDS GateInputs, TLC

CONSTANTS b1, b2, m1, m2    \* model values

Is(v) == [type |-> "int", value |-> v]
Float(v) == [type |-> "float", value |-> v]
Wrong == [type |-> "other", value |-> NaN]

Empty == [k \in {} |-> None]

Tiers(kv_pcts) ==
  [i \in DOMAIN kv_pcts |->
     [kv_pct |-> kv_pcts[i], max_context |-> Is(4), timeout_s |-> Is(i)]]

Entry(name, knobs) ==
  [name |-> name, port |-> Is(8000), models |-> <<m1>>, default |-> FALSE,
   thresholds |-> None, knobs |-> knobs]

One == <<Entry(b1, Empty)>>
Two == <<Entry(b1, "retry_min_s" :> Is(20)), [Entry(b2, Empty) EXCEPT !.default = TRUE]>>

Routing(policy, order, threshold) ==
  m1 :> [policy |-> policy, order |-> order, threshold_tokens |-> threshold]

Layered(knobs, thresholds, backends, routing) ==
  [well_formed |-> TRUE, knobs |-> knobs, thresholds |-> thresholds,
   backends |-> backends, routing |-> routing]

GoodFile == Layered("chars_per_token" :> Is(2) @@ "token_margin" :> Float(2), None, Two,
                    Routing("fill", <<b2, b1>>, None))

BadKnobs ==
  {k :> v : k \in {"target_kv_cache_pct", "token_margin", "stale_after_s"}, v \in {Float(NaN), Is(0)}}
    \cup {k :> Is(0) : k \in {"chars_per_token", "listen_port", "retry_max_s"}}
    \cup {k :> Wrong : k \in {"metrics_poll_interval_s", "retry_min_s"}}
    \cup {"default_max_tokens" :> Is(-1), "default_max_tokens" :> Float(1)}

BadBackends ==
  {<<>>, One \o One, <<Entry(None, Empty)>>,
   [Two EXCEPT ![1].default = TRUE],
   <<[Entry(b1, Empty) EXCEPT !.port = Is(0)]>>,
   <<[Entry(b1, Empty) EXCEPT !.models = <<m1, m1>>]>>,
   <<[Entry(b1, Empty) EXCEPT !.thresholds = Tiers(<<Is(50), Float(50)>>)]>>,
   <<Entry(b1, "retry_max_s" :> Is(4))>>,
   <<Entry(b1, "target_kv_cache_pct" :> Is(101))>>}

BadRouting ==
  {Routing("even", <<>>, None), Routing("fill", <<b1, b1>>, None),
   Routing("large_small", <<b1>>, None), Routing("even", <<b1>>, Is(5)),
   Routing("large_small", <<b1>>, Is(0)), Routing("random", <<b1>>, None)}

MCFiles ==
  {None, GoodFile, [GoodFile EXCEPT !.well_formed = FALSE],
   [GoodFile EXCEPT !.thresholds = Tiers(<<Is(50), Float(80)>>),
                    !.routing = Routing("large_small", <<b1>>, Is(5))]}
    \cup {[GoodFile EXCEPT !.knobs = k] : k \in BadKnobs}
    \cup {[GoodFile EXCEPT !.backends = b] : b \in BadBackends}
    \cup {[GoodFile EXCEPT !.routing = r] : r \in BadRouting}
    \cup {[GoodFile EXCEPT !.thresholds = Tiers(<<kv, kv>>)] : kv \in {Is(50), Float(NaN), Wrong}}

\* One that is silent, one that takes b2 away from under the routing, one whose
\* cap is below b1's own minimum, one that mends a margin, two that are wrong.
MCEnvs ==
  {Layered(Empty, None, None, None),
   Layered(Empty, None, One, None),
   Layered("retry_max_s" :> Is(10), None, None, None),
   Layered("token_margin" :> Is(1), Tiers(<<Is(0)>>), None, None),
   Layered("token_margin" :> Wrong, None, None, None),
   [Layered(Empty, None, None, None) EXCEPT !.well_formed = FALSE]}

-----------------------------------------------------------------------------
S(m, v) == [model |-> m, value |-> v]

\* What a usage gauge may hold: a sample that is not finite, and samples of two
\* models, or of one with two series beside one without a name.
Contents == {{S(m1, NaN)}, {S(m2, 5), S(m1, 1)}, {S(m1, 4), S(m1, 2), S(Unlabelled, 6)}}

UsageGauges == {"vllm:kv_cache_usage_perc", "sglang:kv_cache_usage_perc", "sglang:token_usage"}

\* The capacity gauges do not vary: one that holds no positive value, and the
\* ones read instead, SGLang's with the half of a token.
CapacityGauges ==
     "vllm:kv_cache_size_tokens"    :> {S(m1, 0)}
  @@ "vllm:cache_config_info"       :> {S(m1, NaN), S(Unlabelled, 20 * Unit)}
  @@ "sglang:max_total_num_tokens"  :> {S(m1, Unit \div 2)}

MCBodies ==
  {usages @@ CapacityGauges : usages \in UNION {[gs -> Contents] : gs \in SUBSET UsageGauges}}

-----------------------------------------------------------------------------
Text(n) == [is |-> "text", length |-> n]
Part(text, n) == [text |-> text, length |-> n]
Parts(parts) == [is |-> "parts", parts |-> parts]
Messages(items) == [is |-> "list", items |-> items]
Prompt(pieces) == [is |-> "list", pieces |-> pieces]

Ask(messages, prompt, max_completion_tokens, max_tokens) ==
  [is |-> "object", messages |-> messages, prompt |-> prompt, model |-> m1, stream |-> TRUE,
   max_completion_tokens |-> max_completion_tokens, max_tokens |-> max_tokens]

MCRequests ==
  {[is |-> "unreadable"], [is |-> "nested"], [is |-> "overlong"], [is |-> "value"],
   [is |-> "recoded", stream |-> TRUE],
   Ask(None, None, None, None),
   Ask([is |-> "other"], Text(3), None, None),
   Ask(Messages(<<Text(3), [is |-> "other"], Parts(<<Part(TRUE, 2), Part(FALSE, 9)>>)>>),
       Text(8), Wrong, Is(7)),
   Ask(None, Prompt(<<3, 0, 4>>), Is(0), Float(7)),
   Ask(None, Prompt(<<3, None>>), None, None),
   [Ask(None, Text(5), Is(2), Is(9)) EXCEPT !.model = None, !.stream = FALSE]}
=============================================================================
