------------------------------ MODULE MCPoller -------------------------------
(* The loops of two pollers.  MCPoller.cfg: b1 answers every poll and its      *)
(* models are adopted; b2 may fail, hang or answer with a body the decoder    *)
(* gives up on, and its models are configured.                                *)
(* MCPollerDies.cfg: b1 alone, with such a body.                              *)
EXTENDS Poller, TLC

CONSTANTS b1, b2, m1, m2    \* model values

MCOne == <<b1>>
MCTwo == <<b1, b2>>
MCExplicitModels == [b \in Backends |-> IF b = b2 THEN {m2} ELSE {}]

\* b1 is a dead candidate of the model it does not serve.
MCRoutingSpecs ==
  [m \in {m1, m2} |->
     [policy |-> "primary_fallback", order |-> <<b1>>, threshold_tokens |-> None]]

MCThresholds == [b \in Backends |-> {}]
MCTargetPct == [b \in Backends |-> 80]
MCMarginNum == [b \in Backends |-> 1]
MCRetryMin == [b \in Backends |-> 1]
MCRetryMax == [b \in Backends |-> 2]
MCServed == {{m1}, {m2}}

Body(u, c, engine) == [observed |-> TRUE, usage |-> u, capacity |-> c, engine |-> engine]

\* b1 tells its usage only.  b2: a complete body, one above the target, one
\* without capacity, one without usage, one of neither engine, and an answer
\* that is not a 200.
MCSamples ==
  [b \in Backends |->
     IF b = b1 THEN {Body(6, None, "vllm")}
     ELSE {Body(3, 20, "vllm"), Body(9, 20, "sglang"), Body(6, None, "sglang"),
           Body(None, 20, "vllm"), Body(None, None, "unknown"),
           [observed |-> FALSE, usage |-> None, capacity |-> None, engine |-> "unknown"]}]

MCMaxAnchors == [b \in Backends |-> 1]
=============================================================================
