------------------------------- MODULE MCWalk --------------------------------
(* FailoverWalk on two backends and two concurrent requests.                  *)
EXTENDS WalkProperties, TLC

CONSTANTS b1, b2, m1, m2, r1, r2    \* model values

MCBackendOrder == <<b1, b2>>

MCExplicitModels == [b \in Backends |-> {}]

\* m1 is routed by fill over both backends; m2 has no entry (round_robin).
MCRoutingSpecs ==
  m1 :> [policy |-> "fill", order |-> <<b1, b2>>, threshold_tokens |-> None]

\* b1 has a tier that rejects large contexts from half full on; b2 has none.
MCThresholds ==
  [b \in Backends |->
     IF b = b1 THEN {[kv_pct |-> 50, max_context |-> 4, timeout_s |-> 7]} ELSE {}]

MCTargetPct == [b \in Backends |-> IF b = b1 THEN 80 ELSE 60]

\* Margins 3/2 and 1.
MCMarginNum == [b \in Backends |-> IF b = b1 THEN 3 ELSE 2]

MCRetryMin == [b \in Backends |-> IF b = b1 THEN 2 ELSE 1]
MCRetryMax == [b \in Backends |-> IF b = b1 THEN 9 ELSE 30]

MCServed == {{m1, m2}}

Body(u, c) == [observed |-> TRUE, usage |-> u, capacity |-> c, engine |-> "vllm"]

\* b1's body has room for 10 tokens, or no capacity; b2's has room for 6.
MCSamples ==
  [b \in Backends |-> IF b = b1 THEN {Body(3, 20), Body(6, None)} ELSE {Body(3, 20)}]

MCMaxAnchors == [b \in Backends |-> IF b = b1 THEN 2 ELSE 1]

MCInputs == {[model |-> m1, ctx |-> 6, stream |-> TRUE],
             [model |-> m2, ctx |-> 4, stream |-> FALSE],
             [model |-> m2, ctx |-> None, stream |-> FALSE]}

Symmetry == Permutations(Requests)
=============================================================================
