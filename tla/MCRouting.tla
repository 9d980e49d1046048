------------------------------ MODULE MCRouting ------------------------------
(* Every snapshot of three feeds over a few usages, headrooms and capacities. *)
EXTENDS RoutingSnapshot, TLC

CONSTANTS b1, b2, b3, m1

MCBackendOrder == <<b1, b2, b3>>

MCExplicitModels == [b \in Backends |-> {}]

MCRoutingSpecs == m1 :> [policy |-> "even", order |-> <<b1, b2>>, threshold_tokens |-> None]

MCThresholds ==
  [b \in Backends |->
     CASE b = b1 -> {[kv_pct |-> 20, max_context |-> 4, timeout_s |-> 5],
                     [kv_pct |-> 60, max_context |-> 1, timeout_s |-> 9]}
       [] b = b2 -> {}
       [] b = b3 -> {[kv_pct |-> 100, max_context |-> 3, timeout_s |-> 2]}]

MCTargetPct == [b \in Backends |-> IF b = b1 THEN 85 ELSE 60]
MCMarginNum == [b \in Backends |-> IF b = b2 THEN 3 ELSE 2]
MCRetryMin == [b \in Backends |-> IF b = b3 THEN 4 ELSE 1]
MCRetryMax == [b \in Backends |-> IF b = b1 THEN 3 ELSE 6]

\* 12 is a reading above 1.0, -2 an over-committed headroom.  A headroom is
\* known only where a capacity was.
FeedViews ==
  [usage : {None, 2, 6, 12}, remaining : {None}, capacity : {None, 7}]
    \cup [usage : {None, 2, 6, 12}, remaining : {-2, 3}, capacity : {7, 12}]

MCSnapshots ==
  [cands : {<<b1, b2, b3>>}, ctx : {None, 2, 5}, views : [Backends -> FeedViews]]
=============================================================================
