-------------------------- MODULE ComponentProofs ----------------------------
(* Facts of what a handler and the pollers share, for every configuration,    *)
(* request and state: a decision is well formed, every policy selects, its    *)
(* choices being indices of the candidate list, and what a metrics tick,      *)
(* ageing and a discovery do to the feeds and to the registry.                *)
EXTENDS Routing, KvFeed, ModelRegistry, FoldProofs

-----------------------------------------------------------------------------
(* Admission.                                                                 *)

\* The ceiling of a quotient is a natural number that the quotient reaches.
LEMMA CeilDivNat ==
  ASSUME NEW a \in Nat, NEW d \in Nat \ {0}
  PROVE  /\ CeilDiv(a, d) \in Nat
         /\ a <= CeilDiv(a, d) * d
         /\ a > 0 => CeilDiv(a, d) >= 1
  BY DEF CeilDiv

\* A larger dividend has no smaller ceiling.
LEMMA CeilDivMonotone ==
  ASSUME NEW a \in Nat, NEW b \in Nat, NEW d \in Nat \ {0}, a <= b
  PROVE  CeilDiv(a, d) <= CeilDiv(b, d)
  BY DEF CeilDiv

\* A charge is a natural number, at least the estimate (the margin is >= 1).
LEMMA ChargeNat ==
  ASSUME NEW b \in Backends, NEW ctx \in NatOrNone
  PROVE  /\ Charge(b, ctx) \in Nat
         /\ ctx # None => ctx <= Charge(b, ctx)
         /\ ctx = None => Charge(b, ctx) = 0
<1>1. CASE ctx = None
  BY <1>1 DEF Charge
<1>2. CASE ctx # None
  <2>1. ctx \in Nat /\ MarginNum[b] \in Nat /\ MarginDen \in Nat \ {0}
        /\ MarginNum[b] >= MarginDen
    BY <1>2, ConfigAssumption DEF ValidKnobs, NatOrNone
  <2>2. ctx * MarginNum[b] \in Nat /\ ctx * MarginDen <= ctx * MarginNum[b]
    BY <2>1
  <2>3. /\ CeilDiv(ctx * MarginNum[b], MarginDen) \in Nat
        /\ ctx * MarginNum[b] <= CeilDiv(ctx * MarginNum[b], MarginDen) * MarginDen
    BY <2>1, <2>2, CeilDivNat
  <2>4. ctx <= CeilDiv(ctx * MarginNum[b], MarginDen)
    BY <2>1, <2>2, <2>3
  <2> QED
    BY <1>2, <2>3, <2>4 DEF Charge
<1> QED
  BY <1>1, <1>2

\* A larger estimate takes no smaller charge.
LEMMA ChargeMonotone ==
  ASSUME NEW b \in Backends, NEW small \in Nat, NEW large \in Nat, small <= large
  PROVE  Charge(b, small) <= Charge(b, large)
<1>1. /\ MarginNum[b] \in Nat /\ MarginDen \in Nat \ {0}
      /\ small # None /\ large # None
  BY ConfigAssumption DEF ValidKnobs
<1>2. /\ small * MarginNum[b] \in Nat /\ large * MarginNum[b] \in Nat
      /\ small * MarginNum[b] <= large * MarginNum[b]
  BY <1>1
<1> QED
  BY <1>1, <1>2, CeilDivMonotone DEF Charge

\* A clamped value lies between its bounds.
LEMMA ClampBounds ==
  ASSUME NEW x \in Int, NEW low \in Int, NEW high \in Int, low <= high
  PROVE  Clamp(x, low, high) \in low..high
  BY DEF Clamp

\* A headroom is a natural number, and with it the usage it was computed from
\* stays at or below the target.
LEMMA AnchorRemainingBounds ==
  ASSUME NEW b \in Backends, NEW cap \in Nat, NEW frac \in Int
  PROVE  LET remaining == AnchorRemaining(b, cap, frac)
         IN  /\ remaining \in Nat
             /\ remaining > 0 =>
                  100 * (Clamp(frac, 0, FracOne) * cap + remaining * FracOne)
                    <= TargetPct[b] * FracOne * cap
<1> DEFINE used == Clamp(frac, 0, FracOne)
           headroom == TargetPct[b] * FracOne - 100 * used
           room == IF headroom < 0 THEN 0 ELSE headroom
<1>1. /\ used \in Nat /\ FracOne \in Nat \ {0} /\ TargetPct[b] \in Nat
  <2>1. FracOne \in Int /\ 0 <= FracOne
    BY FracAssumption
  <2>2. used \in 0..FracOne
    BY <2>1, ClampBounds
  <2>3. TargetPct[b] \in 1..100
    BY ConfigAssumption DEF ValidKnobs
  <2> QED BY <2>1, <2>2, <2>3, FracAssumption
<1>2. /\ headroom \in Int /\ room \in Nat /\ 100 * FracOne \in Nat \ {0}
  BY <1>1
<1>3. cap * room \in Nat
  BY <1>2
<1> DEFINE remaining == (cap * room) \div (100 * FracOne)
<1>4. remaining \in Nat /\ remaining * (100 * FracOne) <= cap * room
  <2> HIDE DEF room
  <2> QED BY <1>2, <1>3
<1>5. AnchorRemaining(b, cap, frac) = remaining
  BY DEF AnchorRemaining
<1>6. ASSUME remaining > 0
      PROVE  100 * (used * cap + remaining * FracOne) <= TargetPct[b] * FracOne * cap
  <2>1. room = headroom
    <3>1. CASE headroom < 0
      <4>1. cap * room = 0
        BY <3>1
      <4>2. remaining = 0
        BY <4>1, <1>2
      <4> QED BY <4>2, <1>6
    <3> QED BY <3>1, <1>2
  <2>2. cap * room = cap * (TargetPct[b] * FracOne) - cap * (100 * used)
    <3> HIDE DEF used
    <3> QED BY <2>1, <1>1
  <2>3. remaining * (100 * FracOne) <= cap * (TargetPct[b] * FracOne) - cap * (100 * used)
    BY <2>2, <1>4
  <2> HIDE DEF remaining, used
  <2> QED BY <2>3, <1>1, <1>4
<1> QED
  BY <1>4, <1>5, <1>6

-----------------------------------------------------------------------------
(* Decisions.                                                                 *)

\* The two shapes a decision has.
LEMMA AllowDecision ==
  ASSUME NEW reason \in Reasons
  PROVE  /\ Allow(reason) \in Decision /\ Allow(reason).allow = TRUE
         /\ Allow(reason).retry = None
  BY DEF Allow, Decision, NatOrNone

LEMMA RejectDecision ==
  ASSUME NEW retry \in Nat, NEW tier \in (0..100) \cup {None}, NEW reason \in Reasons
  PROVE  /\ RejectFor(retry, tier, reason) \in Decision
         /\ RejectFor(retry, tier, reason).allow = FALSE
         /\ RejectFor(retry, tier, reason).retry = retry
  BY DEF RejectFor, Decision, NatOrNone

\* The tiered layer decides, and a reject of it carries a Retry-After.
LEMMA TierDecisionFacts ==
  ASSUME NEW b \in Backends, NEW pct \in IntOrNone, NEW ctx \in NatOrNone
  PROVE  /\ TierDecision(b, pct, ctx) \in Decision
         /\ ~TierDecision(b, pct, ctx).allow => TierDecision(b, pct, ctx).retry \in Nat \ {0}
<1> DEFINE active  == GoverningTier(b, Clamp(pct, 0, 100 * FracOne))
           exceeds == {t \in active : ctx > t.max_context}
           d       == TierDecision(b, pct, ctx)
<1>1. Thresholds[b] \subseteq Tier
  BY ConfigAssumption DEF ValidKnobs
<1>2. exceeds \subseteq Tier
  BY <1>1 DEF GoverningTier
<1>3. ASSUME exceeds # {}
      PROVE  (CHOOSE t \in exceeds : TRUE) \in Tier
  BY <1>2, <1>3
<1>5. CASE pct = None \/ ctx = None \/ active = {} \/ exceeds = {}
  <2> HIDE DEF active, exceeds
  <2>1. PICK reason \in {"metrics_unavailable", "prompt_unparseable",
                         "below_all_tiers", "within_tier"} : d = Allow(reason)
    BY <1>5 DEF TierDecision, active, exceeds
  <2>2. reason \in Reasons
    BY DEF Reasons, FailOpenReasons
  <2> HIDE DEF d
  <2>3. d \in Decision /\ d.allow = TRUE
    BY <2>1, <2>2, AllowDecision
  <2> QED BY <2>3 DEF d
<1>6. CASE ~(pct = None \/ ctx = None \/ active = {} \/ exceeds = {})
  <2> DEFINE t == CHOOSE t \in exceeds : TRUE
  <2>1. d = RejectFor(t.timeout_s, t.kv_pct, "exceeds_tier")
    BY <1>6 DEF TierDecision
  <2>2. t \in Tier
    BY <1>6, <1>3
  <2> HIDE DEF t, d
  <2>3. t.timeout_s \in Nat \ {0} /\ t.kv_pct \in 0..100
    BY <2>2 DEF Tier
  <2>4. "exceeds_tier" \in Reasons
    BY DEF Reasons, RejectReasons
  <2>5. d \in Decision /\ d.retry = t.timeout_s
    BY <2>1, <2>3, <2>4, RejectDecision
  <2> QED BY <2>3, <2>5 DEF d
<1> QED
  BY <1>5, <1>6

\* A scaled Retry-After is a positive number of seconds within its bounds.
LEMMA ScaledRetryAfterFacts ==
  ASSUME NEW b \in Backends, NEW effective \in Nat, NEW remaining \in Int
  PROVE  /\ ScaledRetryAfter(b, effective, remaining) \in RetryMin[b]..RetryMax[b]
         /\ RetryMin[b] \in Nat \ {0} /\ RetryMax[b] \in Nat
<1>1. /\ RetryMin[b] \in Nat \ {0} /\ RetryMax[b] \in Nat /\ RetryMin[b] <= RetryMax[b]
  BY ConfigAssumption DEF ValidKnobs
<1>2. CASE remaining <= 0
  <2>1. ScaledRetryAfter(b, effective, remaining) = RetryMax[b]
    BY <1>2 DEF ScaledRetryAfter
  <2> QED BY <1>1, <2>1
<1>3. CASE remaining > 0
  <2>1. RetryMin[b] * effective \in Nat
    BY <1>1
  <2>2. CeilDiv(RetryMin[b] * effective, remaining) \in Nat
    BY <2>1, <1>3, CeilDivNat
  <2> DEFINE raw == RetryMin[b] + CeilDiv(RetryMin[b] * effective, remaining)
  <2>3. raw \in Int
    BY <1>1, <2>2
  <2>4. ScaledRetryAfter(b, effective, remaining) = Clamp(raw, RetryMin[b], RetryMax[b])
    BY <1>3 DEF ScaledRetryAfter
  <2> HIDE DEF raw
  <2>5. Clamp(raw, RetryMin[b], RetryMax[b]) \in RetryMin[b]..RetryMax[b]
    BY <1>1, <2>3 DEF Clamp
  <2> QED BY <1>1, <2>4, <2>5
<1> QED
  BY <1>1, <1>2, <1>3

\* The autoconfig layer allows a request only within the headroom, and a
\* reject of it carries a Retry-After.
LEMMA AutoDecisionFacts ==
  ASSUME NEW b \in Backends, NEW remaining \in IntOrNone, NEW ctx \in NatOrNone
  PROVE  /\ AutoDecision(b, remaining, ctx) \in Decision
         /\ ~AutoDecision(b, remaining, ctx).allow
              => AutoDecision(b, remaining, ctx).retry \in Nat \ {0}
         /\ AutoDecision(b, remaining, ctx).allow
              <=> remaining = None \/ ctx = None \/ Charge(b, ctx) <= remaining
<1> DEFINE d == AutoDecision(b, remaining, ctx)
           fits == remaining = None \/ ctx = None \/ Charge(b, ctx) <= remaining
<1>1. CASE fits
  <2>1. PICK reason \in {"auto_unanchored", "prompt_unparseable", "auto_within_headroom"} :
          d = Allow(reason)
    BY <1>1 DEF AutoDecision
  <2>2. reason \in Reasons
    BY DEF Reasons, FailOpenReasons
  <2> HIDE DEF d, fits
  <2>3. d \in Decision /\ d.allow = TRUE
    BY <2>1, <2>2, AllowDecision
  <2> QED BY <1>1, <2>3 DEF d, fits
<1>2. CASE ~fits
  <2> DEFINE retry == ScaledRetryAfter(b, Charge(b, ctx), remaining)
  <2>1. d = RejectFor(retry, None, "auto_exceeds_headroom")
    BY <1>2 DEF AutoDecision
  <2>2. remaining \in Int /\ Charge(b, ctx) \in Nat
    BY <1>2, ChargeNat DEF IntOrNone
  <2>3. retry \in Nat \ {0}
    <3>1. retry \in RetryMin[b]..RetryMax[b] /\ RetryMin[b] \in Nat \ {0} /\ RetryMax[b] \in Nat
      BY <2>2, ScaledRetryAfterFacts
    <3> HIDE DEF retry
    <3> QED BY <3>1
  <2> HIDE DEF retry, d, fits
  <2>4. "auto_exceeds_headroom" \in Reasons
    BY DEF Reasons, RejectReasons
  <2>5. d \in Decision /\ d.allow = FALSE /\ d.retry \in Nat \ {0}
    BY <2>1, <2>3, <2>4, RejectDecision
  <2> QED BY <1>2, <2>5 DEF d, fits
<1> QED
  BY <1>1, <1>2

\* A combined decision allows iff both layers do; a reject carries a Retry-After
\* and an allow does not.
LEMMA CombineFacts ==
  ASSUME NEW tier \in Decision, NEW auto \in Decision,
         ~tier.allow => tier.retry \in Nat \ {0},
         ~auto.allow => auto.retry \in Nat \ {0}
  PROVE  /\ Combine(tier, auto) \in Decision
         /\ Combine(tier, auto).allow <=> tier.allow /\ auto.allow
         /\ ~Combine(tier, auto).allow => Combine(tier, auto).retry \in Nat \ {0}
         /\ Combine(tier, auto).allow => Combine(tier, auto).retry = None
<1>2. CASE tier.allow /\ auto.allow
  <2>1. tier.reason \in Reasons /\ auto.reason \in Reasons
    BY DEF Decision
  <2> DEFINE why == IF tier.reason \in FailOpenReasons THEN tier.reason
                    ELSE IF auto.reason \in FailOpenReasons THEN auto.reason
                    ELSE "allowed"
  <2>2. Combine(tier, auto) = Allow(why)
    BY <1>2 DEF Combine
  <2>3. "allowed" \in Reasons
    BY DEF Reasons
  <2>4. why \in Reasons
    BY <2>1, <2>3
  <2> HIDE DEF why
  <2>5. Allow(why) \in Decision /\ Allow(why).allow = TRUE /\ Allow(why).retry = None
    BY <2>4, AllowDecision
  <2> QED BY <1>2, <2>2, <2>5
<1>3. CASE ~(tier.allow /\ auto.allow)
  <2>1. /\ Combine(tier, auto) \in {tier, auto}
        /\ ~Combine(tier, auto).allow
    BY <1>3 DEF Combine
  <2> QED BY <1>3, <2>1
<1> QED
  BY <1>2, <1>3

\* The decision of one candidate: exactly a reject carries a Retry-After, and
\* comes only of a fresh usage and a size that is known; a request admitted on a
\* fresh usage against an anchored counter fits in its headroom.
LEMMA EvaluateFacts ==
  ASSUME NEW b \in Backends, NEW frac \in IntOrNone, NEW is_fresh \in BOOLEAN,
         NEW remaining \in IntOrNone, NEW ctx \in NatOrNone
  PROVE  /\ Evaluate(b, frac, is_fresh, remaining, ctx) \in Decision
         /\ ~Evaluate(b, frac, is_fresh, remaining, ctx).allow
              => /\ Evaluate(b, frac, is_fresh, remaining, ctx).retry \in Nat \ {0}
                 /\ is_fresh /\ frac # None /\ ctx # None
         /\ Evaluate(b, frac, is_fresh, remaining, ctx).allow
              => Evaluate(b, frac, is_fresh, remaining, ctx).retry = None
         /\ (/\ Evaluate(b, frac, is_fresh, remaining, ctx).allow
             /\ is_fresh /\ frac # None /\ remaining # None /\ ctx # None)
              => Charge(b, ctx) <= remaining
<1> DEFINE Good(x) == x \in Decision /\ (~x.allow => x.retry \in Nat \ {0})
           d == Evaluate(b, frac, is_fresh, remaining, ctx)
<1>1. CASE frac = None \/ ~is_fresh
  <2> DEFINE tier == TierDecision(b, None, ctx)
             auto == Allow("metrics_unavailable")
  <2>1. tier = auto
    BY DEF TierDecision
  <2>2. "metrics_unavailable" \in Reasons
    BY DEF Reasons, FailOpenReasons
  <2>3. auto \in Decision /\ auto.allow = TRUE
    BY <2>2, AllowDecision
  <2>4. d = Combine(tier, auto)
    BY <1>1 DEF Evaluate
  <2> HIDE DEF tier, auto, d
  <2>5. d \in Decision /\ d.allow /\ d.retry = None
    BY <2>1, <2>3, <2>4, CombineFacts
  <2> QED BY <1>1, <2>5 DEF d
<1>2. CASE frac # None /\ is_fresh
  <2> DEFINE tier == TierDecision(b, 100 * frac, ctx)
             auto == AutoDecision(b, remaining, ctx)
  <2>1. 100 * frac \in IntOrNone
    BY <1>2 DEF IntOrNone
  <2>2. Good(tier)
    <3> DEFINE pct == 100 * frac
    <3> HIDE DEF pct
    <3>1. TierDecision(b, pct, ctx) \in Decision
          /\ (~TierDecision(b, pct, ctx).allow => TierDecision(b, pct, ctx).retry \in Nat \ {0})
      BY <2>1, TierDecisionFacts DEF pct
    <3> QED BY <3>1 DEF pct
  <2>3. /\ Good(auto)
        /\ auto.allow <=> remaining = None \/ ctx = None \/ Charge(b, ctx) <= remaining
    BY AutoDecisionFacts
  <2>4. d = Combine(tier, auto)
    BY <1>2 DEF Evaluate
  <2>5. ctx = None => tier.allow
    BY DEF TierDecision, Allow
  <2>6. ctx = None => auto.allow
    BY DEF AutoDecision, Allow
  <2> HIDE DEF tier, auto, d
  <2>7. Good(d) /\ (d.allow <=> tier.allow /\ auto.allow) /\ (d.allow => d.retry = None)
    BY <2>2, <2>3, <2>4, CombineFacts
  <2> QED BY <1>2, <2>3, <2>5, <2>6, <2>7 DEF d
<1> QED
  BY <1>1, <1>2

-----------------------------------------------------------------------------
(* fill: the first eligible candidate, or none.                               *)

\* fill selects None or an index of the list, and the candidate at that index
\* passes the prefilter and no earlier one does.
LEMMA SelectFillFacts ==
  ASSUME NEW cands \in Seq(Backends), NEW ctx, NEW views
  PROVE  LET i == SelectFill(cands, ctx, views)
             Pass(j) == Eligible(At(cands, j), ctx, views[At(cands, j)])
         IN  \/ i = None /\ \A j \in Indices(cands) : ~Pass(j)
             \/ /\ i \in Indices(cands) /\ Pass(i)
                /\ \A j \in Indices(cands) : j < i => ~Pass(j)
<1> DEFINE eligible == {i \in Indices(cands) : Eligible(At(cands, i), ctx, views[At(cands, i)])}
           First(i) == \A j \in eligible : i <= j
<1>1. eligible \subseteq Int /\ IsFiniteSet(eligible)
  <2>1. Len(cands) \in Nat
    OBVIOUS
  <2>2. IsFiniteSet(Indices(cands))
    BY <2>1, FS_Interval DEF Indices
  <2>3. eligible \subseteq Indices(cands) /\ Indices(cands) \subseteq Int
    BY DEF Indices
  <2> QED BY <2>2, <2>3, FS_Subset
<1>2. CASE eligible = {}
  BY <1>2 DEF SelectFill
<1>3. CASE eligible # {}
  <2>1. \E i \in eligible : First(i)
    <3> HIDE DEF eligible
    <3> QED BY <1>1, <1>3, FiniteIntBounds
  <2>2. SelectFill(cands, ctx, views) = CHOOSE i \in eligible : First(i)
    BY <1>3 DEF SelectFill
  <2> DEFINE i == SelectFill(cands, ctx, views)
  <2> HIDE DEF i
  <2>3. i \in eligible /\ First(i)
    BY <2>1, <2>2 DEF i
  <2>4. i \in Int /\ \A j \in eligible : j \in Int /\ ~(j < i)
    BY <1>1, <2>3
  <2> QED BY <2>3, <2>4 DEF i
<1> QED
  BY <1>2, <1>3

-----------------------------------------------------------------------------
(* even: the first of the smallest spreads.                                   *)

Widths(V) == {x - y : x, y \in V}

Widest(V, d) == \A x, y \in V : x - y <= d

\* The widest difference within a finite non-empty set of integers exists.
LEMMA WidestDifference ==
  ASSUME NEW V, IsFiniteSet(V), V # {}, V \subseteq Int
  PROVE  /\ Widths(V) \subseteq Int
         /\ \E d \in Widths(V) : Widest(V, d)
<1>1. PICK low \in V : \A y \in V : low <= y
  BY FiniteIntBounds
<1>2. PICK high \in V : \A y \in V : y <= high
  BY FiniteIntBounds
<1>3. ASSUME NEW x \in V, NEW y \in V PROVE x - y <= high - low
  <2>1. x \in Int /\ y \in Int /\ low \in Int /\ high \in Int /\ low <= y /\ x <= high
    BY <1>1, <1>2
  <2> QED BY <2>1
<1>4. high - low \in Widths(V)
  BY DEF Widths
<1>5. Widest(V, high - low)
  BY <1>3 DEF Widest
<1>6. Widths(V) \subseteq Int
  BY DEF Widths
<1> QED
  BY <1>4, <1>5, <1>6

\* The spread of a projectable candidate is an integer (it is none for a
\* candidate without usage or capacity).
LEMMA SpreadInt ==
  ASSUME NEW cands \in Seq(Backends), NEW i \in Indices(cands), NEW ctx \in NatOrNone,
         NEW views \in [Backends -> CandidateView], Projectable(views[At(cands, i)])
  PROVE  Spread(cands, i, ctx, views) \in Int
<1> DEFINE b      == At(cands, i)
           known  == {j \in Indices(cands) \ {i} : views[At(cands, j)].usage # None}
           own    == views[b].usage * views[b].capacity + Charge(b, ctx) * FracOne
           others == {views[At(cands, j)].usage * views[b].capacity : j \in known}
           values == ProjectedUsages(cands, i, ctx, views)
<1>1. \A j \in Indices(cands) : At(cands, j) \in Backends
  BY DEF Indices, At
<1>2. \A c \in Backends : views[c].usage \in IntOrNone /\ views[c].capacity \in NatOrNone
  BY DEF CandidateView
<1>3. views[b].usage \in Int /\ views[b].capacity \in Nat
  BY <1>1, <1>2 DEF Projectable, IntOrNone, NatOrNone
<1>4. own \in Int
  <2>1. Charge(b, ctx) \in Nat /\ FracOne \in Nat
    BY <1>1, ChargeNat, FracAssumption
  <2> QED BY <1>3, <2>1
<1>5. \A j \in known : views[At(cands, j)].usage * views[b].capacity \in Int
  <2>1. ASSUME NEW j \in known
        PROVE  views[At(cands, j)].usage * views[b].capacity \in Int
    <3>1. views[At(cands, j)].usage \in Int
      BY <1>1, <1>2 DEF IntOrNone
    <3> HIDE DEF b
    <3> QED BY <1>3, <3>1
  <2> QED BY <2>1
<1>6. IsFiniteSet(others)
  <2>1. Len(cands) \in Nat
    OBVIOUS
  <2>2. IsFiniteSet(Indices(cands))
    BY <2>1, FS_Interval DEF Indices
  <2>3. IsFiniteSet(known)
    BY <2>2, FS_Subset
  <2> DEFINE scaled == [j \in known |-> views[At(cands, j)].usage * views[b].capacity]
  <2>4. scaled \in Surjection(known, others)
    BY DEF Surjection
  <2> QED BY <2>3, <2>4, FS_Surjection
<1>7. values = others \cup {own}
  BY DEF ProjectedUsages
<1>8. values \subseteq Int /\ values # {} /\ IsFiniteSet(values)
  <2>1. IsFiniteSet(others \cup {own})
    BY <1>6, FS_AddElement
  <2>2. others \subseteq Int
    BY <1>5
  <2> HIDE DEF others, own, values
  <2> QED BY <1>4, <1>7, <2>1, <2>2
<1>9. Spread(cands, i, ctx, views) = CHOOSE d \in Widths(values) : Widest(values, d)
  BY DEF Spread, Widths, Widest
<1> HIDE DEF values
<1>10. Widths(values) \subseteq Int /\ \E d \in Widths(values) : Widest(values, d)
  BY <1>8, WidestDifference
<1> QED
  BY <1>9, <1>10

\* Fractions compare by cross multiplication, and the comparison is transitive.
LEMMA CrossTransitive ==
  ASSUME NEW a \in Int, NEW c \in Int, NEW e \in Int,
         NEW b \in Nat \ {0}, NEW d \in Nat \ {0}, NEW f \in Nat \ {0},
         a * d <= c * b, c * f <= e * d
  PROVE  /\ a * f <= e * b
         /\ a * d < c * b \/ c * f < e * d => a * f < e * b
<1>1. /\ a * d \in Int /\ c * b \in Int /\ c * f \in Int
      /\ e * d \in Int /\ a * f \in Int /\ e * b \in Int
  OBVIOUS
<1>2. /\ (a * d) * f <= (c * b) * f
      /\ a * d < c * b => (a * d) * f < (c * b) * f
  <2> DEFINE p == a * d
             q == c * b
  <2>1. p \in Int /\ q \in Int /\ p <= q
    BY <1>1
  <2> HIDE DEF p, q
  <2>2. p * f <= q * f /\ (p < q => p * f < q * f)
    BY <2>1
  <2> QED BY <2>2 DEF p, q
<1>3. /\ (c * f) * b <= (e * d) * b
      /\ c * f < e * d => (c * f) * b < (e * d) * b
  <2> DEFINE p == c * f
             q == e * d
  <2>1. p \in Int /\ q \in Int /\ p <= q
    BY <1>1
  <2> HIDE DEF p, q
  <2>2. p * b <= q * b /\ (p < q => p * b < q * b)
    BY <2>1
  <2> QED BY <2>2 DEF p, q
<1>4. /\ (a * d) * f = d * (a * f)
      /\ (c * b) * f = (c * f) * b
      /\ (e * d) * b = d * (e * b)
  OBVIOUS
<1> DEFINE p == a * f
           q == e * b
           mid == (c * f) * b
<1>5. p \in Int /\ q \in Int /\ mid \in Int
  BY <1>1
<1>6. /\ d * p <= mid /\ mid <= d * q
      /\ (a * d < c * b => d * p < mid) /\ (c * f < e * d => mid < d * q)
  BY <1>2, <1>3, <1>4
<1> HIDE DEF p, q, mid
<1>7. d * p \in Int /\ d * q \in Int
  BY <1>5
<1>8. d * p <= d * q /\ (a * d < c * b \/ c * f < e * d => d * p < d * q)
  BY <1>5, <1>6, <1>7
<1>9. (d * p <= d * q => p <= q) /\ (d * p < d * q => p < q)
  BY <1>5
<1> QED
  BY <1>8, <1>9 DEF p, q

\* even selects an index of the list: one that can be projected, if any can,
\* whose spread no other has a smaller one than, and the first of those.
LEMMA SelectEvenFacts ==
  ASSUME NEW cands \in Seq(Backends), cands # <<>>, NEW ctx \in NatOrNone,
         NEW views \in [Backends -> CandidateView]
  PROVE  LET i == SelectEven(cands, ctx, views)
             Known(j) == Projectable(views[At(cands, j)])
             Less(j, k) == Spread(cands, j, ctx, views) * views[At(cands, k)].capacity
                             < Spread(cands, k, ctx, views) * views[At(cands, j)].capacity
         IN  /\ i \in Indices(cands)
             /\ \A j \in Indices(cands) : Known(j) =>
                  Known(i) /\ ~Less(j, i) /\ (j < i => Less(i, j))
<1> DEFINE known == {i \in Indices(cands) : Projectable(views[At(cands, i)])}
           num(i) == Spread(cands, i, ctx, views)
           den(i) == views[At(cands, i)].capacity
           Less(i, j) == num(i) * den(j) < num(j) * den(i)
           First(i) == \A j \in known : ~Less(j, i) /\ (j < i => Less(i, j))
           Ahead(i, j) == Less(i, j) \/ (~Less(j, i) /\ i < j)
<1>1. IsFiniteSet(known) /\ known \subseteq Int
  <2>1. Len(cands) \in Nat
    OBVIOUS
  <2>2. IsFiniteSet(Indices(cands)) /\ Indices(cands) \subseteq Int
    BY <2>1, FS_Interval DEF Indices
  <2> QED BY <2>2, FS_Subset
<1>2. \A i \in known : num(i) \in Int /\ den(i) \in Nat \ {0}
  <2>1. ASSUME NEW i \in known PROVE num(i) \in Int /\ den(i) \in Nat \ {0}
    <3>1. num(i) \in Int
      BY SpreadInt
    <3>2. At(cands, i) \in Backends
      BY DEF Indices, At
    <3>3. den(i) \in NatOrNone /\ den(i) # None /\ den(i) > 0
      BY <3>2 DEF CandidateView, Projectable
    <3> QED BY <3>1, <3>3 DEF NatOrNone
  <2> QED BY <2>1
<1>3. 0 \in Indices(cands)
  BY DEF Indices
<1>4. CASE known = {}
  BY <1>3, <1>4 DEF SelectEven
<1>5. CASE known # {}
  <2> DEFINE R == {p \in known \X known : Ahead(p[1], p[2])}
  <2>1. \A i, j \in known : <<i, j>> \in R <=> Ahead(i, j)
    OBVIOUS
  <2> HIDE DEF R, known, num, den
  <2>2. \A i \in known : <<i, i>> \notin R
    <3>1. ASSUME NEW i \in known PROVE ~Ahead(i, i)
      BY <1>1, <1>2
    <3> HIDE DEF Ahead
    <3> QED BY <2>1, <3>1
  <2>3. ASSUME NEW x \in known, NEW y \in known, NEW z \in known,
               Ahead(x, y), Ahead(y, z)
        PROVE  Ahead(x, z)
    <3>1. /\ num(x) \in Int /\ num(y) \in Int /\ num(z) \in Int
          /\ den(x) \in Nat \ {0} /\ den(y) \in Nat \ {0} /\ den(z) \in Nat \ {0}
          /\ x \in Int /\ y \in Int /\ z \in Int
      BY <1>1, <1>2
    <3>2. num(x) * den(y) <= num(y) * den(x) /\ num(y) * den(z) <= num(z) * den(y)
      BY <2>3, <3>1
    <3>3. /\ num(x) * den(z) <= num(z) * den(x)
          /\ num(x) * den(y) < num(y) * den(x) \/ num(y) * den(z) < num(z) * den(y)
               => num(x) * den(z) < num(z) * den(x)
      BY <3>1, <3>2, CrossTransitive
    <3>4. num(x) * den(z) \in Int /\ num(z) * den(x) \in Int
      BY <3>1
    <3> QED BY <2>3, <3>1, <3>3, <3>4
  <2>4. \A x, y, z \in known : <<x, y>> \in R /\ <<y, z>> \in R => <<x, z>> \in R
    <3> HIDE DEF Ahead
    <3> QED BY <2>1, <2>3
  <2>5. PICK i \in known : \A j \in known : <<j, i>> \notin R
    BY <1>1, <1>5, <2>2, <2>4, FiniteMinimal
  <2>6. First(i)
    <3>1. \A j \in known : ~Ahead(j, i)
      BY <2>1, <2>5
    <3> QED BY <3>1
  <2>7. SelectEven(cands, ctx, views) = CHOOSE k \in known : First(k)
    BY <1>5 DEF SelectEven, known, num, den
  <2> DEFINE chosen == SelectEven(cands, ctx, views)
  <2> HIDE DEF chosen, First
  <2>8. chosen \in known /\ First(chosen)
    BY <2>6, <2>7 DEF chosen
  <2> QED BY <2>8 DEF chosen, First, known, num, den
<1> QED
  BY <1>4, <1>5

-----------------------------------------------------------------------------
(* Every policy.                                                              *)

\* The policy function returns an index of the list; fill alone may return
\* None, and never for a list no prefilter has excluded.
LEMMA SelectBackendRange ==
  ASSUME NEW cands \in Seq(Backends), cands # <<>>, NEW ctx \in NatOrNone,
         NEW spec, spec.policy \in Policies,
         NEW views \in [Backends -> CandidateView]
  PROVE  LET i == SelectBackend(spec, cands, ctx, views)
         IN  i \in Indices(cands) \/ (i = None /\ spec.policy = "fill")
<1> DEFINE i == SelectBackend(spec, cands, ctx, views)
<1>1. Len(cands) \in Nat \ {0} /\ 0 \in Indices(cands)
  BY DEF Indices
<1>2. CASE spec.policy \in {"round_robin", "primary_fallback"}
  <2>1. i = 0
    BY <1>2 DEF SelectBackend
  <2> QED BY <1>1, <2>1
<1>3. CASE spec.policy = "large_small"
  <2>1. i = SelectLargeSmall(cands, ctx, spec.threshold_tokens)
    BY <1>3 DEF SelectBackend
  <2>2. ASSUME Len(cands) # 1 PROVE 1 \in Indices(cands)
    <3> DEFINE n == Len(cands)
    <3>1. n \in Nat \ {0} /\ n # 1
      BY <1>1, <2>2
    <3> HIDE DEF n
    <3>2. 1 \in 0..(n - 1)
      BY <3>1
    <3> QED BY <3>2 DEF Indices, n
  <2>3. SelectLargeSmall(cands, ctx, spec.threshold_tokens) \in {0, 1}
        /\ (Len(cands) = 1 => SelectLargeSmall(cands, ctx, spec.threshold_tokens) = 0)
    BY DEF SelectLargeSmall
  <2> QED BY <1>1, <2>1, <2>2, <2>3
<1>4. CASE spec.policy = "even"
  <2>1. i = SelectEven(cands, ctx, views)
    BY <1>4 DEF SelectBackend
  <2>2. SelectEven(cands, ctx, views) \in Indices(cands)
    BY SelectEvenFacts
  <2> QED BY <2>1, <2>2
<1>5. CASE spec.policy = "fill"
  <2>1. i = SelectFill(cands, ctx, views)
    BY <1>5 DEF SelectBackend
  <2>2. SelectFill(cands, ctx, views) \in Indices(cands) \cup {None}
    BY SelectFillFacts
  <2> QED BY <1>5, <2>1, <2>2
<1> QED
  BY <1>2, <1>3, <1>4, <1>5 DEF Policies

-----------------------------------------------------------------------------
(* The feeds and the registry: types.                                         *)

\* A sample that anchors has a usage and a capacity, and one without an
\* observed body has neither.
LEMMA SampleFacts ==
  ASSUME NEW b \in Backends, NEW s \in Samples[b]
  PROVE  /\ s.observed \in BOOLEAN /\ s.usage \in IntOrNone
         /\ s.capacity \in NatOrNone /\ s.engine \in Engines
         /\ ~s.observed => s.usage = None /\ s.capacity = None
         /\ Anchors(s) => s.usage \in Int /\ s.capacity \in Nat
  BY KvFeedAssumption DEF Sample, Anchors, IntOrNone, NatOrNone

LEMMA MetricsTickType ==
  ASSUME FeedTypeOK, NEW b \in Backends, NEW s \in Samples[b], MetricsTick(b, s)
  PROVE  FeedTypeOK'
<1>1. /\ s.observed \in BOOLEAN /\ s.usage \in IntOrNone
      /\ s.capacity \in NatOrNone /\ s.engine \in Engines
      /\ Anchors(s) => s.usage \in Int /\ s.capacity \in Nat
  BY SampleFacts
<1>2. usage' \in [Backends -> IntOrNone]
  <2>1. usage' = [usage EXCEPT ![b] = IF s.usage = None THEN usage[b] ELSE s.usage]
    BY DEF MetricsTick, UpdateCaches
  <2> QED BY <1>1, <2>1 DEF FeedTypeOK
<1>3. fresh' \in [Backends -> BOOLEAN]
  <2>1. fresh' = [fresh EXCEPT ![b] = fresh[b] \/ s.usage # None]
    BY DEF MetricsTick, UpdateCaches
  <2>2. (fresh[b] \/ s.usage # None) \in BOOLEAN
    OBVIOUS
  <2> QED BY <2>1, <2>2 DEF FeedTypeOK
<1>4. capacity' \in [Backends -> NatOrNone]
  <2>1. capacity' = [capacity EXCEPT ![b] = IF s.capacity = None THEN capacity[b] ELSE s.capacity]
    BY DEF MetricsTick, UpdateCaches
  <2> QED BY <1>1, <2>1 DEF FeedTypeOK
<1>5. counter' \in [Backends -> IntOrNone]
  <2> DEFINE level == IF Anchors(s) THEN AnchorRemaining(b, s.capacity, s.usage)
                      ELSE IF s.observed /\ s.capacity = None THEN None
                      ELSE counter[b]
  <2>1. counter' = [counter EXCEPT ![b] = level]
    BY DEF MetricsTick, Reanchor
  <2>2. level \in IntOrNone
    <3>1. Anchors(s) => AnchorRemaining(b, s.capacity, s.usage) \in Nat
      BY <1>1, AnchorRemainingBounds
    <3>2. counter[b] \in IntOrNone /\ None \in IntOrNone
      BY DEF FeedTypeOK, IntOrNone
    <3> QED BY <3>1, <3>2 DEF IntOrNone
  <2> HIDE DEF level
  <2> QED BY <2>1, <2>2 DEF FeedTypeOK
<1>6. anchor_seq' \in [Backends -> Nat]
  <2>1. anchor_seq' = [anchor_seq EXCEPT ![b] = IF Anchors(s) THEN anchor_seq[b] + 1
                                                ELSE anchor_seq[b]]
    BY DEF MetricsTick, Reanchor
  <2> QED BY <2>1 DEF FeedTypeOK
<1>7. anchor' \in [Backends -> [usage : Int, capacity : Nat]]
  <2>1. anchor' = [anchor EXCEPT ![b] =
          IF Anchors(s) THEN [usage |-> s.usage, capacity |-> s.capacity] ELSE anchor[b]]
    BY DEF MetricsTick, Reanchor
  <2>2. anchor[b] \in [usage : Int, capacity : Nat]
    BY DEF FeedTypeOK
  <2>3. Anchors(s) => [usage |-> s.usage, capacity |-> s.capacity] \in [usage : Int, capacity : Nat]
    BY <1>1
  <2> QED BY <2>1, <2>2, <2>3 DEF FeedTypeOK
<1>8. /\ alert' \in [Backends -> [engine : Engines, metrics_unavailable : BOOLEAN,
                                  capacity_unavailable : BOOLEAN]]
      /\ seen' \in [Backends -> [last_engine : Engines \cup {None},
                                 unavailable : BOOLEAN \cup {None},
                                 capacity_missing : BOOLEAN \cup {None}]]
  <2> DEFINE unavailable      == ~Recognized(s)
             capacity_missing == s.capacity = None
  <2>1. unavailable \in BOOLEAN /\ capacity_missing \in BOOLEAN
    OBVIOUS
  <2>2. seen' = [seen EXCEPT ![b] =
          [last_engine      |-> IF s.observed THEN s.engine ELSE seen[b].last_engine,
           unavailable      |-> unavailable,
           capacity_missing |-> IF s.observed THEN capacity_missing
                                ELSE seen[b].capacity_missing]]
    BY DEF MetricsTick, RaiseAlerts
  <2>3. alert' = [alert EXCEPT ![b] =
          [engine |-> IF s.observed /\ s.engine # seen[b].last_engine
                      THEN s.engine ELSE alert[b].engine,
           metrics_unavailable |-> IF unavailable # seen[b].unavailable
                                   THEN unavailable ELSE alert[b].metrics_unavailable,
           capacity_unavailable |->
             IF s.observed /\ capacity_missing # seen[b].capacity_missing
             THEN capacity_missing ELSE alert[b].capacity_unavailable]]
    BY DEF MetricsTick, RaiseAlerts
  <2>4. /\ seen[b].last_engine \in Engines \cup {None}
        /\ seen[b].capacity_missing \in BOOLEAN \cup {None}
        /\ alert[b].engine \in Engines
        /\ alert[b].metrics_unavailable \in BOOLEAN
        /\ alert[b].capacity_unavailable \in BOOLEAN
    BY DEF FeedTypeOK
  <2> HIDE DEF unavailable, capacity_missing
  <2> QED BY <1>1, <2>1, <2>2, <2>3, <2>4 DEF FeedTypeOK
<1> QED
  BY <1>2, <1>3, <1>4, <1>5, <1>6, <1>7, <1>8 DEF FeedTypeOK

LEMMA FeedAgesType ==
  ASSUME FeedTypeOK, NEW b \in Backends, FeedAges(b)
  PROVE  FeedTypeOK'
  BY DEF FeedTypeOK, FeedAges

LEMMA DiscoverType ==
  ASSUME RegistryTypeOK, NEW b \in Backends, NEW discovered \in SUBSET Models,
         Discover(b, discovered)
  PROVE  RegistryTypeOK'
<1>1. ExplicitModels[b] \in SUBSET Models
  BY ConfigAssumption DEF ValidBackends
<1> QED
  BY <1>1 DEF Discover, Sync, RegistryTypeOK

LEMMA FeedInitType == FeedInit => FeedTypeOK
  BY DEF FeedInit, FeedTypeOK, IntOrNone, NatOrNone, Engines

LEMMA RegistryInitType == RegistryInit => RegistryTypeOK
  BY DEF RegistryInit, RegistryTypeOK

-----------------------------------------------------------------------------
(* The anchor and the alerts.                                                 *)

LEMMA MetricsTickAnchors ==
  ASSUME FeedTypeOK, AnchorMatchesUsage, NEW b \in Backends, NEW s \in Samples[b],
         MetricsTick(b, s)
  PROVE  AnchorMatchesUsage'
<1>1. /\ usage' = [usage EXCEPT ![b] = IF s.usage = None THEN usage[b] ELSE s.usage]
      /\ counter' = [counter EXCEPT ![b] =
           IF Anchors(s) THEN AnchorRemaining(b, s.capacity, s.usage)
           ELSE IF s.observed /\ s.capacity = None THEN None
           ELSE counter[b]]
      /\ anchor' = [anchor EXCEPT ![b] =
           IF Anchors(s) THEN [usage |-> s.usage, capacity |-> s.capacity] ELSE anchor[b]]
  BY DEF MetricsTick, UpdateCaches, Reanchor
<1>2. ASSUME NEW d \in Backends, counter'[d] # None PROVE usage'[d] = anchor'[d].usage
  <2>1. CASE d # b
    BY <1>1, <1>2, <2>1 DEF AnchorMatchesUsage, FeedTypeOK
  <2>2. CASE d = b /\ Anchors(s)
    BY <1>1, <2>2 DEF Anchors, FeedTypeOK
  <2>3. CASE d = b /\ ~Anchors(s)
    <3>1. counter'[b] = counter[b] /\ ~(s.observed /\ s.capacity = None)
      BY <1>1, <1>2, <2>3 DEF FeedTypeOK
    <3>2. s.usage = None
      BY <3>1, <2>3, SampleFacts DEF Anchors
    <3> QED BY <1>1, <1>2, <2>3, <3>1, <3>2 DEF AnchorMatchesUsage, FeedTypeOK
  <2> QED BY <2>1, <2>2, <2>3
<1> QED BY <1>2 DEF AnchorMatchesUsage

LEMMA MetricsTickAlerts ==
  ASSUME FeedTypeOK, CapacityAlertTruthful, NEW b \in Backends, NEW s \in Samples[b],
         MetricsTick(b, s)
  PROVE  CapacityAlertTruthful'
<1> DEFINE unavailable      == ~Recognized(s)
           capacity_missing == s.capacity = None
<1>1. unavailable \in BOOLEAN /\ capacity_missing \in BOOLEAN /\ s.observed \in BOOLEAN
  BY SampleFacts
<1>2. \A d \in Backends \ {b} :
        alert'[d] = alert[d] /\ seen'[d] = seen[d] /\ counter'[d] = counter[d]
  BY DEF MetricsTick, RaiseAlerts, Reanchor, FeedTypeOK
<1>3. /\ seen'[b].unavailable = unavailable
      /\ seen'[b].capacity_missing =
           IF s.observed THEN capacity_missing ELSE seen[b].capacity_missing
  BY DEF MetricsTick, RaiseAlerts, FeedTypeOK
<1>4. /\ alert'[b].metrics_unavailable =
           IF unavailable # seen[b].unavailable THEN unavailable
           ELSE alert[b].metrics_unavailable
      /\ alert'[b].capacity_unavailable =
           IF s.observed /\ capacity_missing # seen[b].capacity_missing
           THEN capacity_missing ELSE alert[b].capacity_unavailable
  BY DEF MetricsTick, RaiseAlerts, FeedTypeOK
<1>5. /\ s.observed /\ capacity_missing => counter'[b] = None
      /\ ~s.observed => counter'[b] = counter[b]
  BY DEF MetricsTick, Reanchor, Anchors, FeedTypeOK
<1>6. /\ alert[b].metrics_unavailable \in BOOLEAN
      /\ alert[b].capacity_unavailable \in BOOLEAN
      /\ seen[b].unavailable \in BOOLEAN \cup {None}
      /\ seen[b].capacity_missing \in BOOLEAN \cup {None}
      /\ None \notin BOOLEAN
  BY ConfigAssumption DEF FeedTypeOK
<1>7. /\ alert[b].capacity_unavailable <=> seen[b].capacity_missing = TRUE
      /\ alert[b].capacity_unavailable => counter[b] = None
      /\ alert[b].metrics_unavailable <=> seen[b].unavailable = TRUE
  BY DEF CapacityAlertTruthful
<1> HIDE DEF unavailable, capacity_missing
<1>8. /\ alert'[b].capacity_unavailable <=> seen'[b].capacity_missing = TRUE
      /\ alert'[b].capacity_unavailable => counter'[b] = None
      /\ alert'[b].metrics_unavailable <=> seen'[b].unavailable = TRUE
  BY <1>1, <1>3, <1>4, <1>5, <1>6, <1>7
<1> QED BY <1>2, <1>8 DEF CapacityAlertTruthful

LEMMA FeedAgesKeeps ==
  ASSUME NEW b \in Backends, FeedAges(b)
  PROVE  /\ AnchorMatchesUsage => AnchorMatchesUsage'
         /\ CapacityAlertTruthful => CapacityAlertTruthful'
  BY DEF FeedAges, AnchorMatchesUsage, CapacityAlertTruthful

LEMMA FeedInitTruthful == FeedInit => AnchorMatchesUsage /\ CapacityAlertTruthful
<1> SUFFICES ASSUME FeedInit, NEW b \in Backends
             PROVE  /\ counter[b] = None
                    /\ alert[b].capacity_unavailable <=> seen[b].capacity_missing = TRUE
                    /\ alert[b].capacity_unavailable => counter[b] = None
                    /\ alert[b].metrics_unavailable <=> seen[b].unavailable = TRUE
  BY DEF AnchorMatchesUsage, CapacityAlertTruthful
<1>1. /\ alert[b].capacity_unavailable = FALSE /\ alert[b].metrics_unavailable = FALSE
      /\ seen[b].capacity_missing = None /\ seen[b].unavailable = None
      /\ counter[b] = None
  BY DEF FeedInit
<1>2. None # TRUE
  BY ConfigAssumption
<1> QED
  BY <1>1, <1>2

-----------------------------------------------------------------------------
(* The registry.                                                              *)

\* The first owner in config order is before every other one.
LEMMA FirstOwner ==
  ASSUME RegistryTypeOK, NEW m \in Models, Serving(m) # {}
  PROVE  \E b \in Serving(m) : \A c \in Serving(m) \ {b} : Before(b, c)
<1> DEFINE S == {i \in 1..Len(BackendOrder) : BackendOrder[i] \in Serving(m)}
           R == {p \in S \X S : p[1] < p[2]}
<1>1. /\ BackendOrder \in Seq(Backends) /\ Listed(BackendOrder) = Backends
      /\ DOMAIN BackendOrder = 1..Len(BackendOrder) /\ Len(BackendOrder) \in Nat
  BY ConfigAssumption DEF ValidBackends
<1>2. Serving(m) \subseteq Backends
  BY DEF Serving
<1>3. \A b \in Serving(m) : \E i \in S : BackendOrder[i] = b
  BY <1>1, <1>2 DEF Listed
<1>4. IsFiniteSet(S)
  <2>1. IsFiniteSet(1..Len(BackendOrder))
    BY <1>1, FS_Interval
  <2> QED BY <2>1, FS_Subset
<1>5. S # {} /\ S \subseteq Nat
  BY <1>1, <1>3
<1>6. \A x \in S : <<x, x>> \notin R
  BY <1>5
<1>7. \A x, y, z \in S : <<x, y>> \in R /\ <<y, z>> \in R => <<x, z>> \in R
  BY <1>5
<1>8. PICK i \in S : \A j \in S : <<j, i>> \notin R
  <2> HIDE DEF S, R
  <2> QED BY <1>4, <1>5, <1>6, <1>7, FiniteMinimal
<1>9. ASSUME NEW j \in S PROVE i <= j
  <2>1. ~(j < i)
    BY <1>8
  <2>2. i \in Nat /\ j \in Nat
    BY <1>5
  <2> QED BY <2>1, <2>2
<1>10. ASSUME NEW c \in Serving(m), c # BackendOrder[i] PROVE Before(BackendOrder[i], c)
  <2>1. PICK j \in S : BackendOrder[j] = c
    BY <1>3
  <2>2. i < j
    BY <1>5, <1>9, <1>10, <2>1
  <2> QED BY <1>1, <2>1, <2>2 DEF Before
<1> QED
  BY <1>10

\* No backend is before itself, nor before one that is before it.
LEMMA BeforeStrict ==
  ASSUME NEW b \in Backends, NEW c \in Backends, Before(b, c)
  PROVE  ~Before(c, b)
<1>1. /\ NoRepeats(BackendOrder) /\ DOMAIN BackendOrder \subseteq Nat
  BY ConfigAssumption DEF ValidBackends
<1> QED
  BY <1>1 DEF Before, NoRepeats

\* Exactly one of the owners of a model wins it, for any number of backends and
\* however their owned models overlap (models.py:155-198).
THEOREM RegistryListsOnce == RegistryTypeOK => ListedOnce
<1> SUFFICES ASSUME RegistryTypeOK, NEW m \in Models
             PROVE  IF Serving(m) = {} THEN \A b \in Backends : <<m, b>> \notin Items
                    ELSE \E b \in Backends : {e \in Items : e[1] = m} = {<<m, b>>}
  BY DEF ListedOnce
<1>1. \A e \in Items : e = <<e[1], e[2]>> /\ e[2] \in Backends /\ Wins(e[2], e[1])
  BY DEF Items
<1>2. \A b \in Backends : Wins(b, m) <=> <<m, b>> \in Items
  BY DEF Items
<1>3. CASE Serving(m) = {}
  BY <1>2, <1>3 DEF Wins
<1>4. ASSUME Serving(m) # {} PROVE \E b \in Backends : Wins(b, m)
  <2>1. CASE Serving(m) \cap FlaggedDefault # {}
    BY <2>1 DEF Wins, Serving
  <2>2. CASE Serving(m) \cap FlaggedDefault = {}
    BY <1>4, <2>2, FirstOwner DEF Wins, Serving
  <2> QED BY <2>1, <2>2
<1>5. ASSUME NEW b \in Backends, NEW c \in Backends, Wins(b, m), Wins(c, m) PROVE b = c
  <2>1. \A x, y \in FlaggedDefault : x = y
    BY ConfigAssumption DEF ValidBackends
  <2>2. CASE b \in FlaggedDefault \/ c \in FlaggedDefault
    BY <1>5, <2>1, <2>2 DEF Wins
  <2>3. CASE b \notin FlaggedDefault /\ c \notin FlaggedDefault /\ b # c
    <3>1. Before(b, c) /\ Before(c, b)
      BY <1>5, <2>3 DEF Wins
    <3> QED BY <3>1, BeforeStrict
  <2> QED BY <2>2, <2>3
<1>6. CASE Serving(m) # {}
  <2>1. PICK b \in Backends : Wins(b, m)
    BY <1>4, <1>6
  <2>2. {e \in Items : e[1] = m} = {<<m, b>>}
    BY <1>1, <1>2, <1>5, <2>1
  <2> QED BY <1>6, <2>2
<1> QED
  BY <1>3, <1>6
=============================================================================
