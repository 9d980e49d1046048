----------------------------- MODULE MCPolicies ------------------------------
(* FailoverWalk on three backends under each of the five routing policies.    *)
EXTENDS WalkProperties, TLC

CONSTANTS b1, b2, b3, r1, r2,
          mFill, mEven, mLarge, mPrimary, mRound, mUnknown

MCBackendOrder == <<b1, b2, b3>>

\* b3 has configured models, and serves what b1 and b2 adopt but mEven.
MCExplicitModels ==
  [b \in Backends |-> IF b = b3 THEN {mFill, mLarge, mPrimary, mRound} ELSE {}]

Entry(policy, order) == [policy |-> policy, order |-> order, threshold_tokens |-> None]

MCRoutingSpecs ==
     mFill    :> Entry("fill", <<b1, b2, b3>>)
  @@ mEven    :> Entry("even", <<b3, b2, b1>>)
  @@ mPrimary :> Entry("primary_fallback", <<b2, b3>>)
  @@ mLarge   :> [policy |-> "large_small", order |-> <<b3, b1>>, threshold_tokens |-> 5]

MCThresholds ==
  [b \in Backends |->
     CASE b = b1 -> {[kv_pct |-> 30, max_context |-> 5, timeout_s |-> 9],
                     [kv_pct |-> 70, max_context |-> 2, timeout_s |-> 12]}
       [] b = b2 -> {}
       [] b = b3 -> {[kv_pct |-> 0, max_context |-> 3, timeout_s |-> 9]}]

MCTargetPct == [b \in Backends |-> IF b = b1 THEN 90 ELSE 60]
MCMarginNum == [b \in Backends |-> IF b = b2 THEN 3 ELSE 2]
MCRetryMin == [b \in Backends |-> IF b = b1 THEN 3 ELSE 1]
MCRetryMax == [b \in Backends |-> IF b = b3 THEN 9 ELSE 20]

MCServed == {{mFill, mEven, mLarge, mPrimary, mRound}}

Body(u, c) == [observed |-> TRUE, usage |-> u, capacity |-> c, engine |-> "sglang"]

\* b1 is nearly full, b2 half full, b3 above its target.
MCSamples ==
  [b \in Backends |-> CASE b = b1 -> {Body(4, 10)}
                        [] b = b2 -> {Body(5, 40)}
                        [] b = b3 -> {Body(11, 20)}]

MCMaxAnchors == [b \in Backends |-> 1]

MCInputs ==
  [model : {mFill, mEven, mLarge, mPrimary, mRound, mUnknown}, ctx : {4, 6},
   stream : {TRUE}]
    \cup {[model |-> mRound, ctx |-> None, stream |-> FALSE]}

Symmetry == Permutations(Requests)
=============================================================================
