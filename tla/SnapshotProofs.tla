--------------------------- MODULE SnapshotProofs ----------------------------
(* The promises of one snapshot, for every configuration and every snapshot.  *)
EXTENDS RoutingSnapshot, ComponentProofs

\* A snapshot is well typed, and stays what it was.
SnapshotTyped == q \in Snapshot

LEMMA SnapshotTypedAlways == Spec => []SnapshotTyped
<1>1. Init => SnapshotTyped
  BY SnapshotAssumption DEF Init, SnapshotTyped
<1>2. SnapshotTyped /\ [Next]_q => SnapshotTyped'
  BY DEF SnapshotTyped, Next
<1> QED
  BY <1>1, <1>2, PTL DEF Spec

\* What a snapshot holds of each backend.
LEMMA SnapshotFacts ==
  ASSUME SnapshotTyped
  PROVE  /\ q.cands \in Seq(Backends) /\ q.cands # <<>> /\ Len(q.cands) \in Nat \ {0}
         /\ q.ctx \in NatOrNone
         /\ q.views \in [Backends -> CandidateView]
         /\ \A b \in Backends : /\ q.views[b].usage \in IntOrNone
                                /\ q.views[b].remaining \in IntOrNone
                                /\ q.views[b].capacity \in NatOrNone
         /\ \A i \in Indices(q.cands) : At(q.cands, i) \in Backends
<1>1. /\ q.cands \in Seq(Backends) /\ q.cands # <<>> /\ q.ctx \in NatOrNone
      /\ q.views \in [Backends -> CandidateView]
  BY DEF SnapshotTyped, Snapshot
<1>2. Len(q.cands) \in Nat \ {0}
  BY <1>1
<1>3. \A b \in Backends : q.views[b] \in CandidateView
  BY <1>1
<1>4. \A i \in Indices(q.cands) : At(q.cands, i) \in Backends
  BY <1>1, <1>2 DEF Indices, At
<1> QED
  BY <1>1, <1>2, <1>3, <1>4 DEF CandidateView

-----------------------------------------------------------------------------
(* fill against primary_fallback.                                             *)

\* The walk's index does not wrap before the end of the list, and wraps once.
LEMMA WalkIndexValue ==
  ASSUME NEW cands \in Seq(Backends), NEW s \in Indices(cands), NEW k \in Indices(cands)
  PROVE  WalkIndex(cands, s, k) =
           IF s + k < Len(cands) THEN s + k ELSE s + k - Len(cands)
<1> DEFINE n == Len(cands)
<1>1. n \in Nat /\ s \in 0..(n - 1) /\ k \in 0..(n - 1)
  BY DEF Indices
<1>2. WalkIndex(cands, s, k) = (s + k) % n
  BY DEF WalkIndex
<1> HIDE DEF n
<1>3. (s + k) % n = IF s + k < n THEN s + k ELSE s + k - n
  BY <1>1
<1> QED
  BY <1>2, <1>3 DEF n

\* A candidate that fails fill's prefilter is rejected by the walk.
LEMMA IneligibleRejected ==
  ASSUME SnapshotTyped, NEW b \in Backends, ~Eligible(b, q.ctx, q.views[b])
  PROVE  ~Verdict(b, q.ctx).allow
<1> DEFINE v == q.views[b]
           fresh_v == v.usage # None
<1>1. /\ v.usage \in IntOrNone /\ v.remaining \in IntOrNone /\ q.ctx \in NatOrNone
      /\ fresh_v \in BOOLEAN
  BY SnapshotFacts
<1>2. /\ q.ctx # None /\ v.usage # None /\ v.remaining # None
      /\ ~(Charge(b, q.ctx) <= v.remaining)
  BY DEF Eligible
<1>3. Verdict(b, q.ctx) = Evaluate(b, v.usage, fresh_v, v.remaining, q.ctx)
  BY DEF Verdict
<1> HIDE DEF v
<1>4. Evaluate(b, v.usage, fresh_v, v.remaining, q.ctx).allow /\ fresh_v
        => Charge(b, q.ctx) <= v.remaining
  BY <1>1, <1>2, EvaluateFacts
<1> QED
  BY <1>2, <1>3, <1>4

\* fill starts at a candidate, and the walk would reject every earlier one.
LEMMA FillStartFacts ==
  ASSUME SnapshotTyped
  PROVE  /\ FillStart \in Indices(q.cands)
         /\ \A j \in Indices(q.cands) :
              j < FillStart => ~Verdict(At(q.cands, j), q.ctx).allow
<1> DEFINE i == SelectFill(q.cands, q.ctx, q.views)
           Pass(j) == Eligible(At(q.cands, j), q.ctx, q.views[At(q.cands, j)])
<1>1. \/ i = None /\ \A j \in Indices(q.cands) : ~Pass(j)
      \/ /\ i \in Indices(q.cands) /\ Pass(i)
         /\ \A j \in Indices(q.cands) : j < i => ~Pass(j)
  <2>1. q.cands \in Seq(Backends)
    BY SnapshotFacts
  <2> QED BY <2>1, SelectFillFacts
<1>2. FillStart = IF i = None THEN 0 ELSE i
  BY DEF FillStart
<1>3. Indices(q.cands) \subseteq Nat /\ 0 \in Indices(q.cands) /\ None \notin Nat
  BY SnapshotFacts, ConfigAssumption DEF Indices
<1>4. \A j \in Indices(q.cands) : ~Pass(j) => ~Verdict(At(q.cands, j), q.ctx).allow
  BY SnapshotFacts, IneligibleRejected
<1> HIDE DEF i, Pass
<1>5. FillStart \in Indices(q.cands) /\ \A j \in Indices(q.cands) : j < FillStart => ~Pass(j)
  BY <1>1, <1>2, <1>3
<1> QED
  BY <1>4, <1>5

LEMMA FillAgrees == SnapshotTyped => FillAgreesWithPrimary
<1> SUFFICES ASSUME SnapshotTyped, NEW i \in Indices(q.cands)
             PROVE  ArrivesAt(FillStart, i) <=> ArrivesAt(0, i)
  BY DEF FillAgreesWithPrimary
<1> DEFINE n == Len(q.cands)
           s == FillStart
           Admits(j) == Verdict(At(q.cands, j), q.ctx).allow
<1>1. n \in Nat \ {0} /\ q.cands \in Seq(Backends) /\ Indices(q.cands) = 0..(n - 1)
  BY SnapshotFacts DEF Indices
<1>2. s \in 0..(n - 1) /\ \A j \in 0..(n - 1) : j < s => ~Admits(j)
  BY <1>1, FillStartFacts
<1>3. \A t, k \in 0..(n - 1) :
        WalkIndex(q.cands, t, k) = IF t + k < n THEN t + k ELSE t + k - n
  BY <1>1, WalkIndexValue
<1>4. \A t \in 0..(n - 1) : ArrivesAt(t, i) <=>
        \E k \in 0..(n - 1) : /\ WalkIndex(q.cands, t, k) = i
                              /\ Admits(i)
                              /\ \A j \in 0..(k - 1) : ~Admits(WalkIndex(q.cands, t, j))
  BY <1>1 DEF ArrivesAt, WalkAt
<1>5. 0 \in 0..(n - 1) /\ i \in 0..(n - 1)
  BY <1>1
<1> HIDE DEF n, s, Admits
<1>6. ASSUME ArrivesAt(s, i)
      PROVE  ArrivesAt(0, i)
  <2>1. PICK k \in 0..(n - 1) : /\ WalkIndex(q.cands, s, k) = i
                                /\ Admits(i)
                                /\ \A j \in 0..(k - 1) : ~Admits(WalkIndex(q.cands, s, j))
    BY <1>2, <1>4, <1>6
  <2>2. s <= i
    BY <1>2, <1>5, <2>1
  <2>3. s + k < n /\ i = s + k
    BY <1>1, <1>2, <1>3, <2>1, <2>2
  <2>4. \A j \in 0..(i - 1) : WalkIndex(q.cands, 0, j) = j
    BY <1>1, <1>3, <1>5
  <2>5. ASSUME NEW j \in 0..(i - 1), s <= j
        PROVE  ~Admits(j)
    <3>1. j - s \in 0..(k - 1) /\ j - s \in 0..(n - 1)
      BY <1>1, <1>2, <2>1, <2>3, <2>5
    <3>2. WalkIndex(q.cands, s, j - s) = j
      BY <1>1, <1>2, <1>3, <1>5, <2>5, <3>1
    <3> QED BY <2>1, <3>1, <3>2
  <2>6. \A j \in 0..(i - 1) : ~Admits(WalkIndex(q.cands, 0, j))
    BY <1>1, <1>2, <1>5, <2>4, <2>5
  <2>7. WalkIndex(q.cands, 0, i) = i
    BY <1>1, <1>3, <1>5
  <2> QED BY <1>4, <1>5, <2>1, <2>6, <2>7
<1>7. ASSUME ArrivesAt(0, i)
      PROVE  ArrivesAt(s, i)
  <2>1. PICK k \in 0..(n - 1) : /\ WalkIndex(q.cands, 0, k) = i
                                /\ Admits(i)
                                /\ \A j \in 0..(k - 1) : ~Admits(WalkIndex(q.cands, 0, j))
    BY <1>4, <1>5, <1>7
  <2>2. k = i /\ s <= i
    BY <1>1, <1>2, <1>3, <1>5, <2>1
  <2>3. i - s \in 0..(n - 1) /\ WalkIndex(q.cands, s, i - s) = i
    BY <1>1, <1>2, <1>3, <1>5, <2>2
  <2>4. ASSUME NEW j \in 0..((i - s) - 1)
        PROVE  ~Admits(WalkIndex(q.cands, s, j))
    <3>1. s + j \in 0..(k - 1) /\ s + j \in 0..(n - 1) /\ j \in 0..(n - 1)
      BY <1>1, <1>2, <1>5, <2>2, <2>4
    <3>2. WalkIndex(q.cands, s, j) = s + j /\ WalkIndex(q.cands, 0, s + j) = s + j
      BY <1>1, <1>2, <1>3, <1>5, <3>1
    <3> QED BY <2>1, <3>1, <3>2
  <2> QED BY <1>2, <1>4, <2>1, <2>3, <2>4
<1> QED
  BY <1>6, <1>7 DEF s

\* With nothing moving meanwhile, fill and primary_fallback give a request to
\* the same candidate: README.md:138-146, for every configuration.
THEOREM FillAgreesWithPrimaryAlways == Spec => []FillAgreesWithPrimary
  BY SnapshotTypedAlways, FillAgrees, PTL

-----------------------------------------------------------------------------
(* The target.                                                                *)

LEMMA ReachesTarget == SnapshotTyped => AdmissionReachesTargetAtMost
<1> SUFFICES ASSUME SnapshotTyped, NEW b \in Backends,
                    q.ctx # None, q.ctx > 0,
                    q.views[b].usage # None, q.views[b].capacity # None,
                    Evaluate(b, q.views[b].usage, TRUE,
                             AnchorRemaining(b, q.views[b].capacity, q.views[b].usage),
                             q.ctx).allow
             PROVE  100 * (Clamp(q.views[b].usage, 0, FracOne) * q.views[b].capacity
                             + Charge(b, q.ctx) * FracOne)
                      <= TargetPct[b] * FracOne * q.views[b].capacity
  BY DEF AdmissionReachesTargetAtMost
<1> DEFINE frac == q.views[b].usage
           cap == q.views[b].capacity
           remaining == AnchorRemaining(b, cap, frac)
           charge == Charge(b, q.ctx)
           used == Clamp(frac, 0, FracOne) * cap
           limit == TargetPct[b] * FracOne * cap
<1>1. frac \in Int /\ cap \in Nat /\ q.ctx \in Nat
  BY SnapshotFacts DEF IntOrNone, NatOrNone
<1>2. remaining \in Nat /\ (remaining > 0 => 100 * (used + remaining * FracOne) <= limit)
  BY <1>1, AnchorRemainingBounds
<1>3. charge \in Nat /\ q.ctx <= charge
  BY <1>1, ChargeNat DEF NatOrNone
<1>4. charge <= remaining
  <2>1. remaining \in IntOrNone /\ remaining # None /\ frac \in IntOrNone /\ q.ctx \in NatOrNone
    BY <1>1, <1>2, ConfigAssumption DEF IntOrNone, NatOrNone
  <2> HIDE DEF frac, cap, remaining, charge
  <2>2. Evaluate(b, frac, TRUE, remaining, q.ctx).allow
    BY DEF frac, cap, remaining
  <2>3. Charge(b, q.ctx) <= remaining
    BY <2>1, <2>2, EvaluateFacts DEF frac
  <2> QED BY <2>3 DEF charge
<1>5. used \in Int /\ limit \in Int
  <2>1. FracOne \in Nat \ {0} /\ TargetPct[b] \in Nat
    BY FracAssumption, ConfigAssumption DEF ValidKnobs
  <2>2. Clamp(frac, 0, FracOne) \in Int
    BY <1>1, <2>1 DEF Clamp
  <2> HIDE DEF frac, cap
  <2> QED BY <1>1, <2>1, <2>2
<1> HIDE DEF frac, cap, remaining, charge, used, limit
<1>6. remaining > 0 /\ 100 * (used + remaining * FracOne) <= limit
  BY <1>1, <1>2, <1>3, <1>4
<1>7. charge * FracOne <= remaining * FracOne /\ charge * FracOne \in Int
      /\ remaining * FracOne \in Int
  BY <1>2, <1>3, <1>4, FracAssumption
<1>8. 100 * (used + charge * FracOne) <= limit
  BY <1>5, <1>6, <1>7
<1> QED
  BY <1>8 DEF frac, cap, charge, used, limit

\* What a request admitted against a counter just anchored adds keeps the
\* backend at or below its target: router.py's floor, ceil and inclusive test
\* together, for every capacity, margin and target.
THEOREM AdmissionReachesTargetAlways == Spec => []AdmissionReachesTargetAtMost
  BY SnapshotTypedAlways, ReachesTarget, PTL

-----------------------------------------------------------------------------
(* even.                                                                      *)

LEMMA EvenIsFirst == SnapshotTyped => EvenIsFirstSmallestSpread
<1> SUFFICES ASSUME SnapshotTyped PROVE EvenIsFirstSmallestSpread
  OBVIOUS
<1> DEFINE i == SelectEven(q.cands, q.ctx, q.views)
           known == {j \in Indices(q.cands) : Projectable(q.views[At(q.cands, j)])}
           num(j) == Spread(q.cands, j, q.ctx, q.views)
           den(j) == q.views[At(q.cands, j)].capacity
<1>1. /\ i \in Indices(q.cands)
      /\ \A j \in known : i \in known /\ ~(num(j) * den(i) < num(i) * den(j))
  BY SnapshotFacts, SelectEvenFacts
<1>2. \A j \in known : num(j) \in Int /\ den(j) \in Nat
  <2> SUFFICES ASSUME NEW j \in known PROVE num(j) \in Int /\ den(j) \in Nat
    OBVIOUS
  <2>1. At(q.cands, j) \in Backends /\ den(j) \in NatOrNone
    BY SnapshotFacts
  <2>2. den(j) \in Nat
    BY <2>1 DEF Projectable, NatOrNone
  <2>3. num(j) \in Int
    BY SnapshotFacts, SpreadInt
  <2> QED BY <2>2, <2>3
<1>3. \A j \in known : num(i) * den(j) <= num(j) * den(i)
  <2> SUFFICES ASSUME NEW j \in known PROVE num(i) * den(j) <= num(j) * den(i)
    OBVIOUS
  <2> HIDE DEF known, i, num, den
  <2>1. /\ num(j) \in Int /\ den(j) \in Nat /\ num(i) \in Int /\ den(i) \in Nat
        /\ ~(num(j) * den(i) < num(i) * den(j))
    BY <1>1, <1>2
  <2> DEFINE x == num(j) * den(i)
             y == num(i) * den(j)
  <2>2. x \in Int /\ y \in Int /\ ~(x < y)
    BY <2>1
  <2> HIDE DEF x, y
  <2>3. y <= x
    BY <2>2
  <2> QED BY <2>3 DEF x, y
<1>4. i \notin known => i = 0
  <2>1. i \notin known => known = {}
    BY <1>1
  <2> QED BY <2>1 DEF SelectEven
<1> HIDE DEF num
<1> QED
  BY <1>1, <1>3, <1>4 DEF EvenIsFirstSmallestSpread, num

\* even's scan keeps the first of the smallest spreads, whatever the number of
\* candidates and their capacities (routing.py:149-194).
THEOREM EvenIsFirstSmallestAlways == Spec => []EvenIsFirstSmallestSpread
  BY SnapshotTypedAlways, EvenIsFirst, PTL

-----------------------------------------------------------------------------
(* Retry-After.                                                               *)

\* A reject of the autoconfig layer scales Retry-After by an over-run: the
\* charge exceeds the headroom.
LEMMA AutoReject ==
  ASSUME NEW b \in Backends, NEW remaining \in IntOrNone, NEW ctx \in NatOrNone,
         ~AutoDecision(b, remaining, ctx).allow
  PROVE  /\ remaining \in Int /\ ctx \in Nat
         /\ remaining < Charge(b, ctx)
         /\ AutoDecision(b, remaining, ctx) =
              RejectFor(ScaledRetryAfter(b, Charge(b, ctx), remaining), None,
                        "auto_exceeds_headroom")
<1>1. remaining # None /\ ctx # None /\ ~(Charge(b, ctx) <= remaining)
  BY AutoDecisionFacts
<1>2. remaining \in Int /\ ctx \in Nat /\ Charge(b, ctx) \in Nat
  BY <1>1, ChargeNat DEF IntOrNone, NatOrNone
<1>3. remaining < Charge(b, ctx)
  BY <1>1, <1>2
<1> QED
  BY <1>1, <1>2, <1>3 DEF AutoDecision

\* An over-run waits at least twice the minimum, unless the cap is lower.
LEMMA ScaledOverrun ==
  ASSUME NEW b \in Backends, NEW effective \in Nat, NEW remaining \in Int, remaining < effective
  PROVE  \/ ScaledRetryAfter(b, effective, remaining) >= 2 * RetryMin[b]
         \/ ScaledRetryAfter(b, effective, remaining) = RetryMax[b]
<1> DEFINE min == RetryMin[b]
           max == RetryMax[b]
           c == CeilDiv(min * effective, remaining)
<1>1. min \in Nat \ {0} /\ max \in Nat /\ min <= max
  BY ConfigAssumption DEF ValidKnobs
<1>2. CASE remaining <= 0
  BY <1>2 DEF ScaledRetryAfter
<1>3. CASE remaining > 0
  <2>1. min * effective \in Nat /\ min * remaining \in Nat /\ min * remaining <= min * effective
    BY <1>1, <1>3
  <2>2. c \in Nat /\ min * effective <= c * remaining
    BY <1>3, <2>1, CeilDivNat
  <2> HIDE DEF c, min, max
  <2>3. min * remaining <= c * remaining
    BY <1>1, <1>3, <2>1, <2>2
  <2>4. min <= c
    BY <1>1, <1>3, <2>2, <2>3
  <2>5. ScaledRetryAfter(b, effective, remaining) = Clamp(min + c, min, max)
    BY <1>3 DEF ScaledRetryAfter, min, max, c
  <2>6. Clamp(min + c, min, max) >= 2 * min \/ Clamp(min + c, min, max) = max
    BY <1>1, <2>2, <2>4 DEF Clamp
  <2> QED BY <2>5, <2>6 DEF min, max
<1> QED
  BY <1>2, <1>3

\* A reject of the tiered layer says so.
LEMMA TierReject ==
  ASSUME NEW b \in Backends, NEW pct, NEW ctx, ~TierDecision(b, pct, ctx).allow
  PROVE  TierDecision(b, pct, ctx).reason = "exceeds_tier"
<1> DEFINE active == GoverningTier(b, Clamp(pct, 0, 100 * FracOne))
           exceeds == {t \in active : ctx > t.max_context}
           t0 == CHOOSE t \in exceeds : TRUE
<1>1. ~(pct = None \/ ctx = None \/ active = {} \/ exceeds = {})
  BY DEF TierDecision, Allow
<1>2. TierDecision(b, pct, ctx) = RejectFor(t0.timeout_s, t0.kv_pct, "exceeds_tier")
  BY <1>1 DEF TierDecision
<1> QED
  BY <1>2 DEF RejectFor

\* The verdict on a backend with a fresh usage combines the two layers; without
\* one it is an allow.
LEMMA VerdictLayers ==
  ASSUME SnapshotTyped, NEW b \in Backends, NEW ctx \in NatOrNone
  PROVE  LET v == q.views[b]
             tier == TierDecision(b, 100 * v.usage, ctx)
             auto == AutoDecision(b, v.remaining, ctx)
         IN  ~Verdict(b, ctx).allow =>
               /\ v.usage \in Int
               /\ Verdict(b, ctx) = Combine(tier, auto)
<1> DEFINE v == q.views[b]
           fresh_v == v.usage # None
<1>1. /\ v.usage \in IntOrNone /\ v.remaining \in IntOrNone /\ fresh_v \in BOOLEAN
  BY SnapshotFacts
<1>2. Verdict(b, ctx) = Evaluate(b, v.usage, fresh_v, v.remaining, ctx)
  BY DEF Verdict
<1> HIDE DEF v
<1>3. ~Verdict(b, ctx).allow => v.usage # None
  <2>1. ~Evaluate(b, v.usage, fresh_v, v.remaining, ctx).allow => v.usage # None
    BY <1>1, EvaluateFacts
  <2> QED BY <1>2, <2>1
<1>4. v.usage # None => v.usage \in Int
  BY <1>1 DEF IntOrNone
<1>5. v.usage # None => Verdict(b, ctx) =
        Combine(TierDecision(b, 100 * v.usage, ctx), AutoDecision(b, v.remaining, ctx))
  BY <1>2 DEF Evaluate
<1> QED
  BY <1>3, <1>4, <1>5 DEF v

\* A combined reject is the reject of a layer, and no layer's is longer.
LEMMA CombinedReject ==
  ASSUME NEW tier \in Decision, NEW auto \in Decision,
         ~tier.allow => tier.retry \in Nat \ {0},
         ~auto.allow => auto.retry \in Nat \ {0},
         ~Combine(tier, auto).allow
  PROVE  /\ \/ ~tier.allow /\ Combine(tier, auto) = tier
            \/ ~auto.allow /\ Combine(tier, auto) = auto
         /\ ~tier.allow => tier.retry <= Combine(tier, auto).retry
         /\ ~auto.allow => auto.retry <= Combine(tier, auto).retry
<1>1. ~(tier.allow /\ auto.allow)
  BY CombineFacts
<1>2. CASE auto.allow
  BY <1>1, <1>2 DEF Combine
<1>3. CASE tier.allow
  BY <1>1, <1>3 DEF Combine
<1>4. CASE ~auto.allow /\ ~tier.allow
  <2>1. CASE tier.retry >= auto.retry
    BY <1>4, <2>1 DEF Combine
  <2>2. CASE ~(tier.retry >= auto.retry)
    BY <1>4, <2>2 DEF Combine
  <2> QED BY <2>1, <2>2
<1> QED
  BY <1>2, <1>3, <1>4

LEMMA RetryInRange == SnapshotTyped => RetryAfterInRange
<1> SUFFICES ASSUME SnapshotTyped, q.ctx # None, NEW b \in Backends, ~Verdict(b, q.ctx).allow
             PROVE  /\ Verdict(b, q.ctx).retry >= 1
                    /\ Verdict(b, q.ctx).reason = "auto_exceeds_headroom" =>
                         /\ Verdict(b, q.ctx).retry <= RetryMax[b]
                         /\ \/ Verdict(b, q.ctx).retry >= 2 * RetryMin[b]
                            \/ Verdict(b, q.ctx).retry = RetryMax[b]
  BY DEF RetryAfterInRange
<1> DEFINE v == q.views[b]
           tier == TierDecision(b, 100 * v.usage, q.ctx)
           auto == AutoDecision(b, v.remaining, q.ctx)
           d == Verdict(b, q.ctx)
<1>1. v.remaining \in IntOrNone /\ q.ctx \in NatOrNone
  BY SnapshotFacts
<1>2. v.usage \in Int /\ d = Combine(tier, auto)
  BY <1>1, VerdictLayers
<1>3. 100 * v.usage \in IntOrNone
  BY <1>2 DEF IntOrNone
<1>4. tier \in Decision /\ (~tier.allow => tier.retry \in Nat \ {0})
  <2> DEFINE pct == 100 * v.usage
  <2> HIDE DEF pct
  <2>1. /\ TierDecision(b, pct, q.ctx) \in Decision
        /\ ~TierDecision(b, pct, q.ctx).allow => TierDecision(b, pct, q.ctx).retry \in Nat \ {0}
    BY <1>1, <1>3, TierDecisionFacts DEF pct
  <2> QED BY <2>1 DEF pct
<1>5. auto \in Decision /\ (~auto.allow => auto.retry \in Nat \ {0})
  BY <1>1, AutoDecisionFacts
<1>6. ~tier.allow => tier.reason = "exceeds_tier"
  BY TierReject
<1>7. ~auto.allow => /\ auto.retry \in RetryMin[b]..RetryMax[b]
                     /\ auto.retry >= 2 * RetryMin[b] \/ auto.retry = RetryMax[b]
  <2> SUFFICES ASSUME ~auto.allow
               PROVE  /\ auto.retry \in RetryMin[b]..RetryMax[b]
                      /\ auto.retry >= 2 * RetryMin[b] \/ auto.retry = RetryMax[b]
    OBVIOUS
  <2> DEFINE charge == Charge(b, q.ctx)
             scaled == ScaledRetryAfter(b, charge, v.remaining)
  <2>1. v.remaining \in Int /\ v.remaining < charge /\ auto.retry = scaled
    BY <1>1, AutoReject DEF RejectFor
  <2>2. charge \in Nat
    BY <1>1, ChargeNat
  <2> HIDE DEF charge, auto
  <2>3. scaled \in RetryMin[b]..RetryMax[b]
    BY <2>1, <2>2, ScaledRetryAfterFacts
  <2>4. scaled >= 2 * RetryMin[b] \/ scaled = RetryMax[b]
    BY <2>1, <2>2, ScaledOverrun
  <2> QED BY <2>1, <2>3, <2>4
<1>8. RetryMin[b] \in Nat /\ RetryMax[b] \in Nat
  BY ConfigAssumption DEF ValidKnobs
<1> HIDE DEF tier, auto, d
<1>9. \/ ~tier.allow /\ d = tier
      \/ ~auto.allow /\ d = auto
  <2>1. ~d.allow
    BY DEF d
  <2> QED BY <1>2, <1>4, <1>5, <2>1, CombinedReject
<1>10. /\ d.retry >= 1
       /\ d.reason = "auto_exceeds_headroom" =>
            d.retry <= RetryMax[b] /\ (d.retry >= 2 * RetryMin[b] \/ d.retry = RetryMax[b])
  <2>1. CASE ~tier.allow /\ d = tier
    BY <1>4, <1>6, <2>1
  <2>2. CASE ~auto.allow /\ d = auto
    BY <1>5, <1>7, <1>8, <2>2
  <2> QED BY <1>9, <2>1, <2>2
<1> QED
  BY <1>10 DEF d

\* Every refusal names a positive wait, and one for lack of headroom at least
\* twice the minimum or the cap (router.py:239-258).
THEOREM RetryAfterInRangeAlways == Spec => []RetryAfterInRange
  BY SnapshotTypedAlways, RetryInRange, PTL

-----------------------------------------------------------------------------
(* Monotonicity.                                                              *)

\* The governing tier is one: two tiers of a backend differ in kv_pct.
LEMMA GoverningTierUnique ==
  ASSUME NEW b \in Backends, NEW pct \in Int,
         NEW s \in GoverningTier(b, pct), NEW t \in GoverningTier(b, pct)
  PROVE  s = t
<1>1. /\ Thresholds[b] \subseteq Tier
      /\ \A x, y \in Thresholds[b] : x.kv_pct = y.kv_pct => x = y
  BY ConfigAssumption DEF ValidKnobs
<1>2. s \in Thresholds[b] /\ t \in Thresholds[b] /\ s.kv_pct <= t.kv_pct /\ t.kv_pct <= s.kv_pct
  BY DEF GoverningTier
<1>3. s.kv_pct \in 0..100 /\ t.kv_pct \in 0..100
  BY <1>1, <1>2 DEF Tier
<1>4. s.kv_pct = t.kv_pct
  BY <1>2, <1>3
<1> QED
  BY <1>1, <1>2, <1>4

\* The tiered layer rejects a larger request with the same tier.
LEMMA TierMonotone ==
  ASSUME NEW b \in Backends, NEW pct \in Int, NEW small \in Nat, NEW large \in Nat,
         small <= large, ~TierDecision(b, pct, small).allow
  PROVE  TierDecision(b, pct, large) = TierDecision(b, pct, small)
<1> DEFINE active == GoverningTier(b, Clamp(pct, 0, 100 * FracOne))
           Exceeds(ctx) == {t \in active : ctx > t.max_context}
           Chosen(ctx) == CHOOSE t \in Exceeds(ctx) : TRUE
           Reject(ctx) == RejectFor(Chosen(ctx).timeout_s, Chosen(ctx).kv_pct, "exceeds_tier")
<1>1. pct # None /\ small # None /\ large # None
  BY ConfigAssumption
<1>2. active # {} /\ Exceeds(small) # {}
  BY <1>1 DEF TierDecision, Allow
<1>3. Exceeds(small) = Exceeds(large)
  <2>1. active \subseteq Tier
    BY ConfigAssumption DEF ValidKnobs, GoverningTier
  <2>2. Exceeds(small) \subseteq Exceeds(large)
    <3> HIDE DEF active
    <3>1. \A t \in active : t.max_context \in Nat
      BY <2>1 DEF Tier
    <3> QED BY <3>1
  <2>3. Clamp(pct, 0, 100 * FracOne) \in Int
    BY FracAssumption DEF Clamp
  <2>4. \A s, t \in active : s = t
    BY <2>3, GoverningTierUnique
  <2> HIDE DEF active
  <2> QED BY <1>2, <2>2, <2>4
<1>4. /\ TierDecision(b, pct, small) = Reject(small)
      /\ TierDecision(b, pct, large) = Reject(large)
  <2>1. Exceeds(large) # {}
    BY <1>2, <1>3
  <2> QED BY <1>1, <1>2, <2>1 DEF TierDecision
<1> HIDE DEF Exceeds, active
<1> QED
  BY <1>3, <1>4

\* A larger over-run of the same headroom does not scale to a shorter wait.
LEMMA ScaledMonotone ==
  ASSUME NEW b \in Backends, NEW small \in Nat, NEW large \in Nat, small <= large,
         NEW remaining \in Int
  PROVE  ScaledRetryAfter(b, small, remaining) <= ScaledRetryAfter(b, large, remaining)
<1> DEFINE min == RetryMin[b]
           max == RetryMax[b]
           c(n) == CeilDiv(min * n, remaining)
<1>1. min \in Nat \ {0} /\ max \in Nat /\ min <= max
  BY ConfigAssumption DEF ValidKnobs
<1>2. CASE remaining <= 0
  BY <1>1, <1>2 DEF ScaledRetryAfter
<1>3. CASE remaining > 0
  <2>1. min * small \in Nat /\ min * large \in Nat /\ min * small <= min * large
    BY <1>1
  <2>2. c(small) \in Nat /\ c(large) \in Nat /\ c(small) <= c(large)
    BY <1>3, <2>1, CeilDivNat, CeilDivMonotone
  <2>3. /\ ScaledRetryAfter(b, small, remaining) = Clamp(min + c(small), min, max)
        /\ ScaledRetryAfter(b, large, remaining) = Clamp(min + c(large), min, max)
    BY <1>3 DEF ScaledRetryAfter
  <2> DEFINE x == c(small)
             y == c(large)
  <2> HIDE DEF c, min, max, x, y
  <2>4. x \in Nat /\ y \in Nat /\ x <= y
    BY <2>2 DEF x, y
  <2>5. Clamp(min + x, min, max) <= Clamp(min + y, min, max)
    BY <1>1, <2>4 DEF Clamp
  <2> QED BY <2>3, <2>5 DEF x, y
<1> QED
  BY <1>2, <1>3

\* The autoconfig layer rejects a larger request, with no shorter wait.
LEMMA AutoMonotone ==
  ASSUME NEW b \in Backends, NEW remaining \in IntOrNone, NEW small \in Nat, NEW large \in Nat,
         small <= large, ~AutoDecision(b, remaining, small).allow
  PROVE  /\ ~AutoDecision(b, remaining, large).allow
         /\ AutoDecision(b, remaining, small).retry <= AutoDecision(b, remaining, large).retry
<1>1. small \in NatOrNone /\ large \in NatOrNone /\ large # None
  BY ConfigAssumption DEF NatOrNone
<1>2. /\ remaining \in Int /\ remaining < Charge(b, small)
      /\ AutoDecision(b, remaining, small).retry = ScaledRetryAfter(b, Charge(b, small), remaining)
  BY <1>1, AutoReject DEF RejectFor
<1>3. /\ Charge(b, small) \in Nat /\ Charge(b, large) \in Nat
      /\ Charge(b, small) <= Charge(b, large)
  BY <1>1, ChargeNat, ChargeMonotone
<1>4. ~AutoDecision(b, remaining, large).allow
  <2>1. remaining # None /\ ~(Charge(b, large) <= remaining)
    BY <1>2, <1>3, ConfigAssumption
  <2> QED BY <1>1, <2>1, AutoDecisionFacts
<1>5. AutoDecision(b, remaining, large).retry = ScaledRetryAfter(b, Charge(b, large), remaining)
  BY <1>1, <1>4, AutoReject DEF RejectFor
<1> QED
  BY <1>2, <1>3, <1>4, <1>5, ScaledMonotone

LEMMA VerdictMonotone == SnapshotTyped => AdmissionMonotone
<1> SUFFICES ASSUME SnapshotTyped, q.ctx # None, NEW b \in Backends, NEW smaller \in 0..q.ctx,
                    ~Verdict(b, smaller).allow
             PROVE  ~Verdict(b, q.ctx).allow /\ Verdict(b, q.ctx).retry >= Verdict(b, smaller).retry
  BY DEF AdmissionMonotone
<1> DEFINE v == q.views[b]
           TierFor(ctx) == TierDecision(b, 100 * v.usage, ctx)
           AutoFor(ctx) == AutoDecision(b, v.remaining, ctx)
           Good(d) == d \in Decision /\ (~d.allow => d.retry \in Nat \ {0})
<1>1. q.ctx \in Nat /\ smaller \in Nat /\ smaller <= q.ctx /\ v.remaining \in IntOrNone
  BY SnapshotFacts DEF NatOrNone
<1>2. q.ctx \in NatOrNone /\ smaller \in NatOrNone
  BY <1>1 DEF NatOrNone
<1>3. v.usage \in Int /\ Verdict(b, smaller) = Combine(TierFor(smaller), AutoFor(smaller))
  BY <1>2, VerdictLayers
<1>4. Verdict(b, q.ctx) = Combine(TierFor(q.ctx), AutoFor(q.ctx))
  <2>1. v.usage # None
    BY <1>3, ConfigAssumption
  <2> QED BY <2>1 DEF Verdict, Evaluate
<1>5. \A ctx \in {smaller, q.ctx} : Good(TierFor(ctx)) /\ Good(AutoFor(ctx))
  <2> SUFFICES ASSUME NEW ctx \in NatOrNone PROVE Good(TierFor(ctx)) /\ Good(AutoFor(ctx))
    BY <1>2
  <2> DEFINE pct == 100 * v.usage
  <2>1. pct \in IntOrNone
    BY <1>3 DEF IntOrNone
  <2> HIDE DEF pct
  <2>2. /\ TierDecision(b, pct, ctx) \in Decision
        /\ ~TierDecision(b, pct, ctx).allow => TierDecision(b, pct, ctx).retry \in Nat \ {0}
    BY <2>1, TierDecisionFacts
  <2>3. Good(TierFor(ctx))
    BY <2>2 DEF pct
  <2>4. Good(AutoFor(ctx))
    BY <1>1, AutoDecisionFacts
  <2> QED BY <2>3, <2>4
<1>6. ~TierFor(smaller).allow => TierFor(q.ctx) = TierFor(smaller)
  <2>1. 100 * v.usage \in Int
    BY <1>3
  <2> QED BY <1>1, <2>1, TierMonotone
<1>7. ~AutoFor(smaller).allow =>
        ~AutoFor(q.ctx).allow /\ AutoFor(smaller).retry <= AutoFor(q.ctx).retry
  BY <1>1, AutoMonotone
<1> DEFINE t1 == TierFor(smaller)
           a1 == AutoFor(smaller)
           t2 == TierFor(q.ctx)
           a2 == AutoFor(q.ctx)
<1>8. /\ Good(t1) /\ Good(a1) /\ Good(t2) /\ Good(a2)
      /\ ~t1.allow => t2 = t1
      /\ ~a1.allow => ~a2.allow /\ a1.retry <= a2.retry
  BY <1>5, <1>6, <1>7
<1>9. ~Combine(t1, a1).allow
  BY <1>3
<1> HIDE DEF TierFor, AutoFor, t1, a1, t2, a2
<1>10. ~Combine(t2, a2).allow
  <2>1. ~(t1.allow /\ a1.allow)
    BY <1>8, <1>9, CombineFacts
  <2>2. ~(t2.allow /\ a2.allow)
    BY <1>8, <2>1
  <2> QED BY <1>8, <2>2, CombineFacts
<1>11. /\ \/ ~t1.allow /\ Combine(t1, a1) = t1
          \/ ~a1.allow /\ Combine(t1, a1) = a1
       /\ ~t2.allow => t2.retry <= Combine(t2, a2).retry
       /\ ~a2.allow => a2.retry <= Combine(t2, a2).retry
  BY <1>8, <1>9, <1>10, CombinedReject
<1>12. Combine(t2, a2).retry \in Nat
  BY <1>8, <1>10, CombineFacts
<1>13. Combine(t2, a2).retry >= Combine(t1, a1).retry
  <2>1. CASE ~t1.allow /\ Combine(t1, a1) = t1
    BY <1>8, <1>11, <1>12, <2>1
  <2>2. CASE ~a1.allow /\ Combine(t1, a1) = a1
    BY <1>8, <1>11, <1>12, <2>2
  <2> QED BY <1>11, <2>1, <2>2
<1> QED
  BY <1>3, <1>4, <1>10, <1>13 DEF t1, a1, t2, a2

\* Neither layer, nor their combination, admits a larger request where a
\* smaller one is rejected, or sends it back sooner.
THEOREM AdmissionMonotoneAlways == Spec => []AdmissionMonotone
  BY SnapshotTypedAlways, VerdictMonotone, PTL
=============================================================================
