------------------------------- MODULE Routing -------------------------------
(* routing.py: the pure choice of the candidate a request attempts first, and *)
(* the candidate list it chooses from (app.py, candidate resolution).         *)
(*                                                                            *)
(* Candidate indices are 0-based, as in the code; a candidate list is a       *)
(* sequence of backends without repetition.  A view is what one request reads *)
(* of one candidate's feed: usage (None when stale or never fetched), the     *)
(* remaining headroom and the cached capacity.                                *)
EXTENDS Admission

At(cands, i) == cands[i + 1]

Indices(cands) == 0..(Len(cands) - 1)

\* cands is `order` with the members outside `serving` dropped.
Filters(cands, order, serving) ==
  /\ Listed(cands) = Listed(order) \cap serving
  /\ \A i, j \in DOMAIN cands : i < j =>
       \E p, q \in DOMAIN order : p < q /\ order[p] = cands[i] /\ order[q] = cands[j]

CandidateView ==
  [usage : IntOrNone, remaining : IntOrNone, capacity : NatOrNone]

-----------------------------------------------------------------------------
SelectLargeSmall(cands, ctx, threshold_tokens) ==
  IF Len(cands) = 1 THEN 0
  ELSE IF ctx # None /\ threshold_tokens # None /\ ctx >= threshold_tokens THEN 0
  ELSE 1

(* even: the request's projected usage on candidate i against every other     *)
(* candidate's current usage, all over the denominator FracOne * capacity_i.  *)
Projectable(v) == v.usage # None /\ v.capacity # None /\ v.capacity > 0

ProjectedUsages(cands, i, ctx, views) ==
  LET b     == At(cands, i)
      known == {j \in Indices(cands) \ {i} : views[At(cands, j)].usage # None}
  IN  {views[b].usage * views[b].capacity + Charge(b, ctx) * FracOne}
        \cup {views[At(cands, j)].usage * views[b].capacity : j \in known}

Spread(cands, i, ctx, views) ==
  LET values == ProjectedUsages(cands, i, ctx, views)
  IN  CHOOSE d \in {x - y : x, y \in values} : \A x, y \in values : x - y <= d

\* Mutant of SelectEven: token counts of different backends compared as they are.
SelectEvenTokens(cands, ctx, views) ==
  LET known == {i \in Indices(cands) : Projectable(views[At(cands, i)])}
      Less(i, j) == Spread(cands, i, ctx, views) < Spread(cands, j, ctx, views)
  IN  IF known = {} THEN 0
      ELSE CHOOSE i \in known : \A j \in known : ~Less(j, i) /\ (j < i => Less(i, j))

SelectEven(cands, ctx, views) ==
  LET known == {i \in Indices(cands) : Projectable(views[At(cands, i)])}
      Less(i, j) == Spread(cands, i, ctx, views) * views[At(cands, j)].capacity
                      < Spread(cands, j, ctx, views) * views[At(cands, i)].capacity
  IN  IF known = {} THEN 0
      ELSE CHOOSE i \in known : \A j \in known : ~Less(j, i) /\ (j < i => Less(i, j))

\* Mutant of Eligible: an exactly fitting request is taken for a reject.
EligibleStrictly(b, ctx, v) ==
  ctx = None \/ v.usage = None \/ v.remaining = None \/ Charge(b, ctx) < v.remaining

\* fill's prefilter: the autoconfig layer would not reject the candidate.
Eligible(b, ctx, v) ==
  ctx = None \/ v.usage = None \/ v.remaining = None \/ Charge(b, ctx) <= v.remaining

SelectFill(cands, ctx, views) ==
  LET eligible == {i \in Indices(cands) : Eligible(At(cands, i), ctx, views[At(cands, i)])}
  IN  IF eligible = {} THEN None
      ELSE CHOOSE i \in eligible : \A j \in eligible : i <= j

SelectBackend(spec, cands, ctx, views) ==
  CASE spec.policy \in {"round_robin", "primary_fallback"} -> 0
    [] spec.policy = "large_small" -> SelectLargeSmall(cands, ctx, spec.threshold_tokens)
    [] spec.policy = "even"        -> SelectEven(cands, ctx, views)
    [] spec.policy = "fill"        -> SelectFill(cands, ctx, views)

-----------------------------------------------------------------------------
\* Mutant of WalkIndex: the walk stops at the end of the order, it does not wrap.
WalkIndexClamped(cands, start, k) == Clamp(start + k, 0, Len(cands) - 1)

(* The walk's order: candidate number k of the walk that starts at `start`.   *)
WalkIndex(cands, start, k) == (start + k) % Len(cands)

WalkAt(cands, start, k) == At(cands, WalkIndex(cands, start, k))
=============================================================================
