--------------------------- MODULE RoutingSnapshot ---------------------------
(* Selection and admission on one frozen snapshot of the feeds: what a walk   *)
(* would do if no poller and no other request moved anything meanwhile.       *)
EXTENDS Routing

CONSTANT Snapshots    \* the snapshots a handler may read

Snapshot == [cands : Seq(Backends) \ {<<>>}, ctx : NatOrNone,
             views : [Backends -> CandidateView]]

ASSUME SnapshotAssumption == Snapshots \subseteq Snapshot

VARIABLE q

Init == q \in Snapshots

Next == UNCHANGED q

Spec == Init /\ [][Next]_q

-----------------------------------------------------------------------------
(* The decision of backend b in the snapshot, for a request of size ctx.      *)
Verdict(b, ctx) ==
  LET v == q.views[b] IN Evaluate(b, v.usage, v.usage # None, v.remaining, ctx)

\* The walk that starts at `start` arrives at candidate i: it is admitted and
\* whatever the walk visits before it is rejected.
ArrivesAt(start, i) ==
  \E k \in Indices(q.cands) :
    /\ WalkIndex(q.cands, start, k) = i
    /\ Verdict(At(q.cands, i), q.ctx).allow
    /\ \A j \in 0..(k - 1) : ~Verdict(WalkAt(q.cands, start, j), q.ctx).allow

FillStart ==
  LET i == SelectFill(q.cands, q.ctx, q.views) IN IF i = None THEN 0 ELSE i

\* fill and primary_fallback differ in where they start, never in the candidate
\* that gets the request (docs/plans/multi-backend.md, invariant 19): fill's
\* prefilter repeats one of the two tests of the walk and must agree with it.
FillAgreesWithPrimary ==
  \A i \in Indices(q.cands) : ArrivesAt(FillStart, i) <=> ArrivesAt(0, i)

\* A larger request is never admitted where a smaller one is rejected, and is
\* never told to come back sooner by the same backend in the same state.
AdmissionMonotone ==
  q.ctx # None =>
    \A b \in Backends : \A smaller \in 0..q.ctx :
      LET large == Verdict(b, q.ctx)
          small == Verdict(b, smaller)
      IN  ~small.allow => ~large.allow /\ large.retry >= small.retry

\* Retry-After is positive, and an autoconfig reject waits at least twice the
\* minimum unless the cap is lower (router.py, scaled_retry_after: "a small
\* over-run yields about 2 * min_s").
RetryAfterInRange ==
  q.ctx # None =>
    \A b \in Backends :
      LET d == Verdict(b, q.ctx)
      IN  ~d.allow =>
            /\ d.retry >= 1
            /\ d.reason = "auto_exceeds_headroom" =>
                 d.retry <= RetryMax[b] /\ (d.retry >= 2 * RetryMin[b] \/ d.retry = RetryMax[b])

\* A request admitted against a counter just anchored from the snapshot's usage
\* and capacity leaves the projected usage at or below the target.
AdmissionReachesTargetAtMost ==
  \A b \in Backends :
    LET v == q.views[b]
        remaining == AnchorRemaining(b, v.capacity, v.usage)
    IN  /\ q.ctx # None /\ q.ctx > 0
        /\ v.usage # None /\ v.capacity # None
        /\ Evaluate(b, v.usage, TRUE, remaining, q.ctx).allow
        =>
            100 * (Clamp(v.usage, 0, FracOne) * v.capacity + Charge(b, q.ctx) * FracOne)
              <= TargetPct[b] * FracOne * v.capacity

\* even's choice is the one of the scan that keeps the first strictly smaller
\* spread, each spread the exact rational of its candidate.
EvenIsFirstSmallestSpread ==
  LET i == SelectEven(q.cands, q.ctx, q.views)
      Imbalance(j) == [num |-> Spread(q.cands, j, q.ctx, q.views),
                       den |-> q.views[At(q.cands, j)].capacity]
      Known(j) == Projectable(q.views[At(q.cands, j)])
  IN  /\ i \in Indices(q.cands)
      /\ \A j \in Indices(q.cands) : Known(j) =>
           /\ Known(i)
           /\ Imbalance(i).num * Imbalance(j).den <= Imbalance(j).num * Imbalance(i).den
      /\ ~Known(i) => i = 0
=============================================================================
