---------------------------- MODULE PollerEffects ----------------------------
(* What a request handler may assume of the pollers, without their loop and   *)
(* without a clock: at any moment a backend's feed reads a sample, its feed   *)
(* ages, or its owned models are replaced.  FailoverWalk composes requests    *)
(* with exactly these steps; Poller implements them.                          *)
EXTENDS KvFeed, ModelRegistry

effectsVars == <<feedVars, owned>>

Init == FeedInit /\ RegistryInit

ReadsSample(b) == \E s \in Samples[b] : MetricsTick(b, s) /\ UNCHANGED owned

Ages(b) == FeedAges(b) /\ UNCHANGED owned

SyncsModels(b) == (\E discovered \in Served : Discover(b, discovered)) /\ UNCHANGED feedVars

Next == \E b \in Backends : ReadsSample(b) \/ Ages(b) \/ SyncsModels(b)

Spec == Init /\ [][Next]_effectsVars
=============================================================================
