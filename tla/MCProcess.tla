------------------------------ MODULE MCProcess ------------------------------
(* GateProcess on two backends: b1 lists its models in bodies that may end    *)
(* its poller, b2 is configured with its model and may hang.                  *)
EXTENDS GateProcess, TLC

CONSTANTS b1, b2, m1, m2    \* model values

MCBackendOrder == <<b2, b1>>
MCExplicitModels == [b \in Backends |-> IF b = b2 THEN {m2} ELSE {}]
MCRoutingSpecs ==
  m1 :> [policy |-> "even", order |-> <<b1, b2>>, threshold_tokens |-> None]
MCThresholds == [b \in Backends |-> {}]
MCTargetPct == [b \in Backends |-> 80]
MCMarginNum == [b \in Backends |-> 1]
MCRetryMin == [b \in Backends |-> 1]
MCRetryMax == [b \in Backends |-> 2]
MCServed == {{m1}}

MCSamples ==
  [b \in Backends |->
     {[observed |-> TRUE, usage |-> 6, capacity |-> None, engine |-> "vllm"]}]
MCMaxAnchors == [b \in Backends |-> 0]
=============================================================================
