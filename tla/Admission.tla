------------------------------ MODULE Admission ------------------------------
(* The pure admission decisions of router.py, and the charge a forward takes. *)
(*                                                                            *)
(* A KV usage is an integer number of 1/FracOne-ths (the code's fraction in   *)
(* 0-1).  A percentage is kept exact as an integer number of 1/FracOne-ths of *)
(* a percent, so that `frac * 100.0` of the code is a real conversion here    *)
(* too.  Floating-point rounding is not modelled: every operation below is    *)
(* the exact rational one.                                                    *)
EXTENDS GateConfig

CONSTANT FracOne     \* the usage that stands for the fraction 1.0

ASSUME FracAssumption == FracOne \in Nat \ {0}

CeilDiv(a, d) == (a + d - 1) \div d

Clamp(x, low, high) == IF x < low THEN low ELSE IF x > high THEN high ELSE x

-----------------------------------------------------------------------------
(* Decisions.  `tier` is the kv_pct of the tier that rejected, else None: the *)
(* code keeps the governing tier of an allowing decision too, and Combine     *)
(* drops it before anything reads it.                                         *)

FailOpenReasons == {"metrics_unavailable", "prompt_unparseable", "auto_unanchored"}

RejectReasons == {"exceeds_tier", "auto_exceeds_headroom"}

Reasons == FailOpenReasons \cup RejectReasons \cup
             {"below_all_tiers", "within_tier", "auto_within_headroom", "allowed"}

Decision == [allow : BOOLEAN, retry : NatOrNone, tier : (0..100) \cup {None},
             reason : Reasons]

Allow(reason) == [allow |-> TRUE, retry |-> None, tier |-> None, reason |-> reason]

RejectFor(retry, tier, reason) ==
  [allow |-> FALSE, retry |-> retry, tier |-> tier, reason |-> reason]

\* The highest crossed tier, as a set of at most one tier: usage_pct is in
\* 1/FracOne-ths of a percent.
GoverningTier(b, usage_pct) ==
  LET crossed == {t \in Thresholds[b] : t.kv_pct * FracOne <= usage_pct}
  IN  {t \in crossed : \A s \in crossed : s.kv_pct <= t.kv_pct}

TierDecision(b, usage_pct, ctx) ==
  IF usage_pct = None THEN Allow("metrics_unavailable")
  ELSE IF ctx = None THEN Allow("prompt_unparseable")
  ELSE LET active  == GoverningTier(b, Clamp(usage_pct, 0, 100 * FracOne))
           exceeds == {t \in active : ctx > t.max_context}
       IN  IF active = {} THEN Allow("below_all_tiers")
           ELSE IF exceeds = {} THEN Allow("within_tier")
           ELSE LET t == CHOOSE t \in exceeds : TRUE
                IN  RejectFor(t.timeout_s, t.kv_pct, "exceeds_tier")

-----------------------------------------------------------------------------
(* The autoconfig layer.                                                      *)

\* Mutant of AnchorRemaining: the target is ignored, the whole cache is headroom.
AnchorRemainingOfAll(b, capacity, frac) ==
  (capacity * (FracOne - Clamp(frac, 0, FracOne))) \div FracOne

\* Mutant of AnchorRemaining: rounded up.
AnchorRemainingUp(b, capacity, frac) ==
  LET headroom == TargetPct[b] * FracOne - 100 * Clamp(frac, 0, FracOne)
  IN  CeilDiv(capacity * IF headroom < 0 THEN 0 ELSE headroom, 100 * FracOne)

\* floor(capacity * max(target - clamp(usage), 0)).
AnchorRemaining(b, capacity, frac) ==
  LET headroom == TargetPct[b] * FracOne - 100 * Clamp(frac, 0, FracOne)
  IN  (capacity * IF headroom < 0 THEN 0 ELSE headroom) \div (100 * FracOne)

\* ceil(ctx * token_margin), and 0 for a body that cannot be estimated.
Charge(b, ctx) ==
  IF ctx = None THEN 0 ELSE CeilDiv(ctx * MarginNum[b], MarginDen)

\* Mutant of ScaledRetryAfter: the cap is missing.
ScaledRetryUncapped(b, effective, remaining) ==
  IF remaining <= 0 THEN RetryMax[b]
  ELSE RetryMin[b] + CeilDiv(RetryMin[b] * effective, remaining)

\* ceil(clamp(min * (1 + effective / remaining), min, max)).
ScaledRetryAfter(b, effective, remaining) ==
  IF remaining <= 0 THEN RetryMax[b]
  ELSE Clamp(RetryMin[b] + CeilDiv(RetryMin[b] * effective, remaining),
             RetryMin[b], RetryMax[b])

\* Mutant of AutoDecision: the margin is left out of the admission test.
AutoDecisionUnmargined(b, remaining, ctx) ==
  IF remaining = None THEN Allow("auto_unanchored")
  ELSE IF ctx = None THEN Allow("prompt_unparseable")
  ELSE IF ctx <= remaining THEN Allow("auto_within_headroom")
  ELSE RejectFor(ScaledRetryAfter(b, Charge(b, ctx), remaining), None,
                 "auto_exceeds_headroom")

AutoDecision(b, remaining, ctx) ==
  IF remaining = None THEN Allow("auto_unanchored")
  ELSE IF ctx = None THEN Allow("prompt_unparseable")
  ELSE IF Charge(b, ctx) <= remaining THEN Allow("auto_within_headroom")
  ELSE RejectFor(ScaledRetryAfter(b, Charge(b, ctx), remaining), None,
                 "auto_exceeds_headroom")

\* Mutant of Combine: the shorter Retry-After wins.
CombineShorter(tier, auto) ==
  IF tier.allow /\ auto.allow THEN Allow("allowed")
  ELSE IF auto.allow THEN tier
  ELSE IF tier.allow THEN auto
  ELSE IF tier.retry <= auto.retry THEN tier ELSE auto

\* The request is forwarded only if both layers allow; when both reject, the
\* longer Retry-After wins and a tie is the tiered layer's.
Combine(tier, auto) ==
  IF tier.allow /\ auto.allow
  THEN Allow(IF tier.reason \in FailOpenReasons THEN tier.reason
             ELSE IF auto.reason \in FailOpenReasons THEN auto.reason
             ELSE "allowed")
  ELSE IF auto.allow THEN tier
  ELSE IF tier.allow THEN auto
  ELSE IF tier.retry >= auto.retry THEN tier ELSE auto

\* The decision of one candidate: with no fresh usage both layers fail open,
\* whatever the counter says.
Evaluate(b, frac, is_fresh, remaining, ctx) ==
  IF frac = None \/ ~is_fresh
  THEN Combine(TierDecision(b, None, ctx), Allow("metrics_unavailable"))
  ELSE Combine(TierDecision(b, 100 * frac, ctx), AutoDecision(b, remaining, ctx))
=============================================================================
