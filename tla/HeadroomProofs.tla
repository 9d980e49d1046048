--------------------------- MODULE HeadroomProofs ----------------------------
(* The headroom counters under the interleavings of handlers and pollers:     *)
(* what a rollback may give back, how far below zero a counter can go, and    *)
(* that they implement the ledger of KvLedger.                                *)
EXTENDS FailoverWalkProofs

-----------------------------------------------------------------------------
(* Rollbacks.                                                                 *)

\* RollbackIsOwed speaks of anchored counters only.  It is preserved because a
\* charge that was skipped met an unanchored counter, and a counter becomes
\* anchored only with a new sequence number: HoldsCurrent keeps both facts.
HoldsCurrent ==
  \A r \in Requests : pc[r] = "proxy" =>
    LET h == hold[r]
    IN  /\ h.seq <= anchor_seq[h.backend]
        /\ h.seq = anchor_seq[h.backend] /\ ~h.took => counter[h.backend] = None

LEMMA NextHoldsCurrent ==
  TypeOK /\ HoldsCurrent /\ [Next]_vars => HoldsCurrent'
<1> SUFFICES ASSUME TypeOK, HoldsCurrent, [Next]_vars PROVE HoldsCurrent'
  OBVIOUS
<1>1. CASE UNCHANGED vars
  BY <1>1 DEF vars, feedVars, walkVars, HoldsCurrent
<1>2. ASSUME NEW r \in Requests, Handler(r) PROVE HoldsCurrent'
  <2>1. anchor_seq' = anchor_seq
    BY <1>2, HandlerEffect DEF FeedFrame
  <2>2. \A q \in Requests : hold[q].backend \in Backends
    BY DEF TypeOK, Hold
  <2>3. ASSUME NEW q \in Requests, q # r, pc'[q] = pc[q], hold'[q] = hold[q], pc'[q] = "proxy"
        PROVE  /\ hold'[q].seq <= anchor_seq'[hold'[q].backend]
               /\ hold'[q].seq = anchor_seq'[hold'[q].backend] /\ ~hold'[q].took
                    => counter'[hold'[q].backend] = None
    <3>1. counter'[hold[q].backend] = None <=> counter[hold[q].backend] = None
      BY <1>2, <2>2, HandlerKeepsAnchors
    <3> QED BY <2>1, <2>3, <3>1 DEF HoldsCurrent
  <2>4. CASE Takes(r)
    <3>1. PICK b \in Backends, charge \in Nat, c \in Counters :
            /\ pc' = [pc EXCEPT ![r] = "proxy"]
            /\ counter' = [c EXCEPT ![b] = Minus(c[b], charge)]
            /\ hold' = [hold EXCEPT ![r] =
                 [backend |-> b, charge |-> charge, seq |-> anchor_seq[b],
                  took |-> c[b] # None, open |-> ~fresh[b], live |-> TRUE]]
      BY <2>4, ZenonT(30) DEF Takes
    <3>2. hold'[r].backend = b /\ hold'[r].seq = anchor_seq[b] /\ (hold'[r].took <=> c[b] # None)
      BY <3>1 DEF TypeOK
    <3>3. c[b] = None => counter'[b] = None
      BY <3>1 DEF Counters, Minus
    <3>4. anchor_seq[b] \in Nat
      BY DEF TypeOK, FeedTypeOK
    <3>5. \A q \in Requests \ {r} : pc'[q] = pc[q] /\ hold'[q] = hold[q]
      BY <3>1 DEF TypeOK
    <3> QED BY <2>1, <2>3, <3>2, <3>3, <3>4, <3>5 DEF HoldsCurrent
  <2>5. CASE Settles(r)
    <3>1. /\ pc'[r] # "proxy"
          /\ \A q \in Requests \ {r} : pc'[q] = pc[q] /\ hold'[q] = hold[q]
      BY <2>5 DEF Settles, TypeOK
    <3> QED BY <2>3, <3>1 DEF HoldsCurrent
  <2> QED BY <1>2, <2>4, <2>5, HandlerEffect
<1>3. ASSUME NEW b \in Backends, PollMetrics(b) PROVE HoldsCurrent'
  <2>1. PICK s \in Samples[b] : MetricsTick(b, s)
    BY <1>3 DEF PollMetrics
  <2>2. pc' = pc /\ hold' = hold
    BY <1>3 DEF PollMetrics
  <2>3. \A d \in Backends : anchor_seq[d] \in Nat
    BY DEF TypeOK, FeedTypeOK
  <2>4. \A d \in Backends :
          \/ anchor_seq'[d] = anchor_seq[d] + 1
          \/ anchor_seq'[d] = anchor_seq[d] /\ (counter[d] = None => counter'[d] = None)
    BY <2>1 DEF MetricsTick, Reanchor, TypeOK, FeedTypeOK
  <2>5. ASSUME NEW q \in Requests, pc[q] = "proxy"
        PROVE  LET h == hold[q]
               IN  /\ h.seq <= anchor_seq'[h.backend]
                   /\ h.seq = anchor_seq'[h.backend] /\ ~h.took => counter'[h.backend] = None
    <3> DEFINE h == hold[q]
               d == h.backend
    <3>1. d \in Backends /\ h.seq \in Nat
      BY DEF TypeOK, Hold
    <3>2. h.seq <= anchor_seq[d] /\ (h.seq = anchor_seq[d] /\ ~h.took => counter[d] = None)
      BY <2>5 DEF HoldsCurrent
    <3> QED BY <2>3, <2>4, <3>1, <3>2
  <2> QED BY <2>2, <2>5 DEF HoldsCurrent
<1>4. ASSUME NEW b \in Backends, Ages(b) \/ PollModels(b) PROVE HoldsCurrent'
  BY <1>4 DEF Ages, FeedAges, PollModels, feedVars, walkVars, HoldsCurrent
<1> QED
  BY <1>1, <1>2, <1>3, <1>4 DEF Next, Poller

\* A rollback never adds to an anchored counter what was not taken from it
\* (app.py:708-742 against poller.py:379-403).
THEOREM RollbackIsOwedAlways == Spec => []RollbackIsOwed
<1>1. Init => HoldsCurrent
  BY DEF Init, HoldsCurrent
<1>2. TypeOK /\ HoldsCurrent /\ [Next]_vars => HoldsCurrent'
  BY NextHoldsCurrent
<1>3. HoldsCurrent => RollbackIsOwed
  BY DEF HoldsCurrent, RollbackIsOwed
<1> QED
  BY <1>1, <1>2, <1>3, TypeCorrect, PTL DEF Spec

-----------------------------------------------------------------------------
(* Over-commitment.                                                           *)

\* A fresh cache holds a usage: is_stale is true of an empty one.
FreshKnown == \A b \in Backends : fresh[b] => usage[b] # None

LEMMA NextFreshKnown ==
  TypeOK /\ FreshKnown /\ [Next]_vars => FreshKnown'
<1> SUFFICES ASSUME TypeOK, FreshKnown, [Next]_vars PROVE FreshKnown'
  OBVIOUS
<1>1. CASE UNCHANGED vars
  BY <1>1 DEF vars, feedVars, FreshKnown
<1>2. ASSUME NEW r \in Requests, Handler(r) PROVE FreshKnown'
  BY <1>2, HandlerEffect DEF FeedFrame, FreshKnown
<1>3. ASSUME NEW b \in Backends, PollMetrics(b) PROVE FreshKnown'
  <2>1. PICK s \in Samples[b] : MetricsTick(b, s)
    BY <1>3 DEF PollMetrics
  <2>2. /\ usage' = [usage EXCEPT ![b] = IF s.usage = None THEN usage[b] ELSE s.usage]
        /\ fresh' = [fresh EXCEPT ![b] = fresh[b] \/ s.usage # None]
    BY <2>1 DEF MetricsTick, UpdateCaches
  <2> QED BY <2>2 DEF FreshKnown, TypeOK, FeedTypeOK
<1>4. ASSUME NEW b \in Backends, Ages(b) PROVE FreshKnown'
  BY <1>4 DEF Ages, FeedAges, FreshKnown, TypeOK, FeedTypeOK
<1>5. ASSUME NEW b \in Backends, PollModels(b) PROVE FreshKnown'
  BY <1>5 DEF PollModels, feedVars, FreshKnown
<1> QED
  BY <1>1, <1>2, <1>3, <1>4, <1>5 DEF Next, Poller

LEMMA NextOvercommit ==
  TypeOK /\ FreshKnown /\ OvercommitOnlyFailingOpen /\ [Next]_vars => OvercommitOnlyFailingOpen'
<1> SUFFICES ASSUME TypeOK, FreshKnown, OvercommitOnlyFailingOpen, [Next]_vars
             PROVE  OvercommitOnlyFailingOpen'
  OBVIOUS
<1>0. \A b \in Backends : blind[b] \in Nat /\ (counter[b] # None => counter[b] \in Int)
  BY DEF TypeOK, FeedTypeOK, IntOrNone
<1>1. CASE UNCHANGED vars
  BY <1>1 DEF vars, feedVars, walkVars, OvercommitOnlyFailingOpen
<1>2. ASSUME NEW r \in Requests, Handler(r) PROVE OvercommitOnlyFailingOpen'
  <2>1. ASSUME NEW c \in Counters, Grown(c), NEW b \in Backends, c[b] # None
        PROVE  c[b] \in Int /\ counter[b] \in Int /\ c[b] >= counter[b] /\ c[b] >= -blind[b]
    <3>1. c[b] \in Int /\ counter[b] # None /\ counter[b] \in Int /\ c[b] >= counter[b]
      BY <1>0, <2>1 DEF Grown, Counters, IntOrNone
    <3>2. counter[b] >= -blind[b]
      BY <3>1 DEF OvercommitOnlyFailingOpen
    <3> QED BY <1>0, <3>1, <3>2
  <2>2. CASE Takes(r)
    <3>1. PICK d \in Backends, charge \in Nat, c \in Counters :
            /\ Grown(c)
            /\ counter' = [c EXCEPT ![d] = Minus(c[d], charge)]
            /\ blind' = [blind EXCEPT ![d] =
                 IF ~fresh[d] /\ c[d] # None THEN blind[d] + charge ELSE blind[d]]
            /\ fresh[d] /\ usage[d] # None /\ c[d] # None => charge = 0 \/ charge <= c[d]
      BY <2>2 DEF Takes
    <3>2. ASSUME NEW b \in Backends, counter'[b] # None PROVE counter'[b] >= -blind'[b]
      <4>1. CASE b # d
        <5>1. counter'[b] = c[b] /\ blind'[b] = blind[b]
          BY <3>1, <4>1 DEF Counters, TypeOK
        <5> QED BY <2>1, <3>1, <3>2, <5>1
      <4>2. CASE b = d
        <5>1. /\ counter'[d] = Minus(c[d], charge)
              /\ blind'[d] = IF ~fresh[d] /\ c[d] # None THEN blind[d] + charge ELSE blind[d]
          BY <3>1 DEF Counters, TypeOK
        <5>2. c[d] # None /\ counter'[d] = c[d] - charge
          BY <3>2, <4>2, <5>1 DEF Minus
        <5>3. c[d] \in Int /\ c[d] >= -blind[d]
          BY <2>1, <3>1, <5>2
        <5>4. CASE fresh[d]
          <6>1. charge = 0 \/ charge <= c[d]
            BY <3>1, <5>2, <5>4 DEF FreshKnown
          <6>2. blind'[d] = blind[d]
            BY <5>1, <5>4
          <6> QED BY <1>0, <4>2, <5>2, <5>3, <6>1, <6>2
        <5>5. CASE ~fresh[d]
          <6>1. blind'[d] = blind[d] + charge
            BY <5>1, <5>2, <5>5
          <6> QED BY <1>0, <4>2, <5>2, <5>3, <6>1
        <5> QED BY <5>4, <5>5
      <4> QED BY <4>1, <4>2
    <3> QED BY <3>2 DEF OvercommitOnlyFailingOpen
  <2>3. CASE Settles(r)
    <3>1. PICK c \in Counters : Grown(c) /\ counter' = c /\ blind' = blind
      BY <2>3 DEF Settles
    <3> QED BY <2>1, <3>1 DEF OvercommitOnlyFailingOpen
  <2> QED BY <1>2, <2>2, <2>3, HandlerEffect
<1>3. ASSUME NEW b \in Backends, PollMetrics(b) PROVE OvercommitOnlyFailingOpen'
  <2>1. PICK s \in Samples[b] :
          /\ MetricsTick(b, s)
          /\ blind' = [blind EXCEPT ![b] = IF Anchors(s) THEN 0 ELSE blind[b]]
    BY <1>3 DEF PollMetrics
  <2>2. counter' = [counter EXCEPT ![b] =
          IF Anchors(s) THEN AnchorRemaining(b, s.capacity, s.usage)
          ELSE IF s.observed /\ s.capacity = None THEN None
          ELSE counter[b]]
    BY <2>1 DEF MetricsTick, Reanchor
  <2>3. ASSUME NEW d \in Backends, counter'[d] # None PROVE counter'[d] >= -blind'[d]
    <3>1. CASE d = b /\ Anchors(s)
      <4>1. counter'[d] = AnchorRemaining(b, s.capacity, s.usage) /\ blind'[d] = 0
        BY <2>1, <2>2, <3>1 DEF TypeOK, FeedTypeOK
      <4>2. AnchorRemaining(b, s.capacity, s.usage) \in Nat
        BY <3>1, SampleFacts, AnchorRemainingBounds
      <4> DEFINE level == AnchorRemaining(b, s.capacity, s.usage)
      <4> HIDE DEF level
      <4>3. level >= -0
        BY <4>2 DEF level
      <4> QED BY <4>1, <4>3 DEF level
    <3>2. CASE ~(d = b /\ Anchors(s))
      <4>1. counter'[d] = counter[d] /\ blind'[d] = blind[d]
        BY <2>1, <2>2, <2>3, <3>2 DEF TypeOK, FeedTypeOK
      <4> QED BY <2>3, <4>1 DEF OvercommitOnlyFailingOpen
    <3> QED BY <3>1, <3>2
  <2> QED BY <2>3 DEF OvercommitOnlyFailingOpen
<1>4. ASSUME NEW b \in Backends, Ages(b) \/ PollModels(b) PROVE OvercommitOnlyFailingOpen'
  BY <1>4 DEF Ages, FeedAges, PollModels, feedVars, walkVars, OvercommitOnlyFailingOpen
<1> QED
  BY <1>1, <1>2, <1>3, <1>4 DEF Next, Poller

\* No interleaving of admissions, rollbacks and re-anchors takes a counter
\* below zero by more than what was charged without a fresh usage to judge by.
THEOREM OvercommitOnlyFailingOpenAlways == Spec => []OvercommitOnlyFailingOpen
<1>1. Init => FreshKnown /\ OvercommitOnlyFailingOpen
  BY DEF Init, FeedInit, FreshKnown, OvercommitOnlyFailingOpen
<1>2. TypeOK /\ FreshKnown /\ [Next]_vars => FreshKnown'
  BY NextFreshKnown
<1>3. TypeOK /\ FreshKnown /\ OvercommitOnlyFailingOpen /\ [Next]_vars
        => OvercommitOnlyFailingOpen'
  BY NextOvercommit
<1> QED
  BY <1>1, <1>2, <1>3, TypeCorrect, PTL DEF Spec

-----------------------------------------------------------------------------
(* The ledger.                                                                *)

\* A charge is that of an input: a handler keeps the walk it set out on.
WalkFromInput ==
  \A r \in Requests : pc[r] # "new" => \E input \in Inputs : walk[r].ctx = input.ctx

\* The counters once r has rolled back what it holds, if it awaits an answer.
Back(r) == IF pc[r] = "proxy" THEN RolledBack(hold[r]) ELSE counter

\* r charges an input's need to a backend, against the counters c: with a fresh
\* usage, only what fits.
TakesFrom(r, c) ==
  \E b \in Backends, charge \in Charges :
    /\ charge \in Nat
    /\ pc' = [pc EXCEPT ![r] = "proxy"]
    /\ counter' = [c EXCEPT ![b] = Minus(c[b], charge)]
    /\ hold' = [hold EXCEPT ![r] =
         [backend |-> b, charge |-> charge, seq |-> anchor_seq[b],
          took |-> c[b] # None, open |-> ~fresh[b], live |-> TRUE]]
    /\ fresh[b] /\ usage[b] # None /\ c[b] # None => charge = 0 \/ charge <= c[b]

\* r awaits no answer any more: it holds no charge and leaves the counters c.
SettlesFrom(r, c) ==
  /\ pc'[r] \in Places \ {"new", "proxy"}
  /\ \A q \in Requests \ {r} : pc'[q] = pc[q] /\ hold'[q] = hold[q]
  /\ hold'[r].backend = hold[r].backend /\ hold'[r].seq = hold[r].seq
  /\ ~hold'[r].live
  /\ counter' = c

\* r is done, and the gate keeps what it was charged.
KeepsCharge(r) ==
  /\ pc' = [pc EXCEPT ![r] = "done"]
  /\ UNCHANGED <<hold, counter>>

LEMMA ResumeClaims ==
  ASSUME TypeOK, NEW r \in Requests, NEW w \in Walk, NEW input \in Inputs,
         w.ctx = input.ctx, NEW from \in Nat, NEW c \in Counters, NEW ev \in Seq(Event),
         NEW final, Resume(r, w, from, c, ev, final)
  PROVE  TakesFrom(r, c) \/ SettlesFrom(r, c)
<1>1. PICK k \in Nat, rj \in Seq(Reject), evk \in Seq(Event) :
        \/ Dec(w, k, c).allow /\ Attempt(r, w, k, c, rj, evk)
        \/ Exhaust(r, w, c, rj, evk, final)
  BY ResumeTurn
<1>2. CASE Dec(w, k, c).allow /\ Attempt(r, w, k, c, rj, evk)
  <2> DEFINE b      == Candidate(w, k)
             charge == Charge(b, w.ctx)
  <2>1. b \in Backends /\ w.ctx \in NatOrNone
    BY CandidateInBackends DEF Walk
  <2>2. charge \in Nat /\ charge \in Charges /\ (w.ctx = None => charge = 0)
    BY <2>1, ChargeNat DEF Charges
  <2>3. fresh[b] /\ usage[b] # None /\ c[b] # None /\ w.ctx # None => charge <= c[b]
    BY <1>2, DecFacts DEF TypeOK, Counters
  <2>4. /\ pc' = [pc EXCEPT ![r] = "proxy"]
        /\ counter' = [c EXCEPT ![b] = Minus(c[b], charge)]
        /\ hold' = [hold EXCEPT ![r] =
             [backend |-> b, charge |-> charge, seq |-> anchor_seq[b],
              took |-> c[b] # None, open |-> ~fresh[b], live |-> TRUE]]
    BY <1>2 DEF Attempt
  <2> HIDE DEF b, charge
  <2> QED BY <2>1, <2>2, <2>3, <2>4 DEF TakesFrom
<1>3. CASE Exhaust(r, w, c, rj, evk, final)
  <2>1. counter' = c /\ hold' = [hold EXCEPT ![r].live = FALSE]
    BY <1>3 DEF Exhaust
  <2>2. PICK place \in {"release429", "done"} : pc' = [pc EXCEPT ![r] = place]
    BY <1>3 DEF Exhaust
  <2>3. \A q \in Requests \ {r} : pc'[q] = pc[q] /\ hold'[q] = hold[q]
    BY <2>1, <2>2 DEF TypeOK
  <2>4. pc'[r] \in Places \ {"new", "proxy"}
    BY <2>2 DEF TypeOK, Places
  <2>5. /\ hold'[r].backend = hold[r].backend /\ hold'[r].seq = hold[r].seq
        /\ ~hold'[r].live
    BY <2>1 DEF TypeOK, Hold
  <2> QED BY <2>1, <2>3, <2>4, <2>5 DEF SettlesFrom
<1> QED
  BY <1>1, <1>2, <1>3

\* Whatever a handler does next, it gives back what it holds before it charges
\* again, or it keeps what it was charged and is done.
LEMMA HandlerClaims ==
  ASSUME TypeOK, WalkFromInput, NEW r \in Requests, Handler(r)
  PROVE  /\ pc[r] # "done"
         /\ TakesFrom(r, Back(r)) \/ SettlesFrom(r, Back(r)) \/ KeepsCharge(r)
<1> SUFFICES TakesFrom(r, Back(r)) \/ SettlesFrom(r, Back(r)) \/ KeepsCharge(r)
  BY DEF Handler, Arrive, UpstreamOk, UpstreamTransportError, Upstream5xx,
    Upstream5xxDiscarded, Released, Released429, Raises
<1> USE AtCandidate
<1>0. counter \in Counters /\ RolledBack(hold[r]) \in Counters
  BY CountersGrown, RolledBackGrown
<1>1. {"transport", "upstream_5xx"} \subseteq FailoverReasons
  BY DEF FailoverReasons
<1>2. CASE Arrive(r)
  <2>0. PICK input \in Inputs : \E w \in Walks(input) : Resume(r, w, 0, counter, <<>>, None)
    BY <1>2 DEF Arrive
  <2>1. PICK w \in Walks(input) : Resume(r, w, 0, counter, <<>>, None)
    BY <2>0
  <2>2. w \in Walk /\ w.ctx = input.ctx
    BY WalkAssumption, WalksType DEF TypeOK, Walks
  <2>3. <<>> \in Seq(Event)
    OBVIOUS
  <2>4. Back(r) = counter
    BY <1>2 DEF Arrive, Back
  <2> QED BY <1>0, <2>1, <2>2, <2>3, <2>4, ResumeClaims
<1>3. ASSUME pc[r] # "new", NEW c \in Counters, c = Back(r), NEW why \in FailoverReasons,
             NEW final, Resume(r, walk[r], off[r] + 1, c, Skipped(r, why), final)
      PROVE  TakesFrom(r, Back(r)) \/ SettlesFrom(r, Back(r))
  <2>1. PICK input \in Inputs : walk[r].ctx = input.ctx
    BY <1>3 DEF WalkFromInput
  <2> QED BY <1>3, <2>1, ResumeClaims
<1>4. CASE UpstreamTransportError(r) \/ Upstream5xx(r)
  <2> DEFINE c == RolledBack(hold[r])
  <2>1. pc[r] = "proxy" /\ Back(r) = c
    BY <1>4 DEF UpstreamTransportError, Upstream5xx, Back
  <2>2. CASE Resume(r, walk[r], off[r] + 1, c, Skipped(r, "transport"), None)
    BY <1>0, <1>1, <1>3, <2>1, <2>2
  <2>3. CASE \E final \in Backends \cup {None} :
               Resume(r, walk[r], off[r] + 1, c, Skipped(r, "upstream_5xx"), final)
    BY <1>0, <1>1, <1>3, <2>1, <2>3
  <2>4. UpstreamTransportError(r) =>
          Resume(r, walk[r], off[r] + 1, c, Skipped(r, "transport"), None)
    BY DEF UpstreamTransportError
  <2>5. Upstream5xx(r) =>
          \E final \in Backends \cup {None} :
            Resume(r, walk[r], off[r] + 1, c, Skipped(r, "upstream_5xx"), final)
    BY DEF Upstream5xx
  <2> QED BY <1>4, <2>2, <2>3, <2>4, <2>5
<1>5. CASE Released(r)
  BY <1>0, <1>1, <1>3, <1>5 DEF Released, Back
<1>6. CASE Upstream5xxDiscarded(r)
  <2>1. /\ pc[r] = "proxy" /\ pc' = [pc EXCEPT ![r] = "release"]
        /\ counter' = RolledBack(hold[r]) /\ hold' = [hold EXCEPT ![r].live = FALSE]
    BY <1>6 DEF Upstream5xxDiscarded
  <2>2. /\ pc'[r] \in Places \ {"new", "proxy"}
        /\ \A q \in Requests \ {r} : pc'[q] = pc[q] /\ hold'[q] = hold[q]
    BY <2>1 DEF TypeOK, Places
  <2>3. /\ hold'[r].backend = hold[r].backend /\ hold'[r].seq = hold[r].seq
        /\ ~hold'[r].live
    BY <2>1 DEF TypeOK, Hold
  <2> QED BY <2>1, <2>2, <2>3 DEF SettlesFrom, Back
<1>7. CASE UpstreamOk(r) \/ Released429(r) \/ Raises(r)
  <2>1. pc' = [pc EXCEPT ![r] = "done"] /\ UNCHANGED <<hold, counter>>
    BY <1>7 DEF UpstreamOk, Released429, Raises
  <2> QED BY <2>1 DEF KeepsCharge
<1> QED
  BY <1>2, <1>4, <1>5, <1>6, <1>7 DEF Handler

LEMMA NextWalkFromInput ==
  TypeOK /\ WalkFromInput /\ [Next]_vars => WalkFromInput'
<1> SUFFICES ASSUME TypeOK, WalkFromInput, [Next]_vars PROVE WalkFromInput'
  OBVIOUS
<1>1. CASE UNCHANGED <<pc, walk>>
  BY <1>1 DEF WalkFromInput
<1>2. ASSUME NEW r \in Requests, Handler(r) PROVE WalkFromInput'
  <2>1. ASSUME NEW q \in Requests \ {r} PROVE pc'[q] = pc[q]
    <3>1. CASE Takes(r)
      BY <3>1 DEF Takes, TypeOK
    <3>2. CASE Settles(r)
      BY <3>2 DEF Settles, TypeOK
    <3> QED BY <1>2, <3>1, <3>2, HandlerEffect
  <2>2. CASE Arrive(r)
    <3>1. PICK input \in Inputs : \E w \in Walks(input) : walk' = [walk EXCEPT ![r] = w]
      BY <2>2 DEF Arrive
    <3>2. PICK w \in Walks(input) : walk' = [walk EXCEPT ![r] = w]
      BY <3>1
    <3>3. w.ctx = input.ctx
      BY DEF Walks
    <3>4. walk'[r] = w /\ \A q \in Requests \ {r} : walk'[q] = walk[q]
      BY <3>2 DEF TypeOK
    <3> QED BY <2>1, <3>3, <3>4 DEF WalkFromInput
  <2>3. CASE ~Arrive(r)
    <3>1. walk' = walk /\ pc[r] # "new"
      BY <1>2, <2>3 DEF Handler, UpstreamOk, UpstreamTransportError, Upstream5xx,
        Upstream5xxDiscarded, Released, Released429, Raises, handlerFrame
    <3> QED BY <2>1, <3>1 DEF WalkFromInput
  <2> QED BY <2>2, <2>3
<1>3. ASSUME NEW b \in Backends, Poller(b) PROVE WalkFromInput'
  BY <1>1, <1>3 DEF Poller, PollMetrics, Ages, PollModels, walkVars
<1> QED
  BY <1>1, <1>2, <1>3 DEF Next, vars, walkVars

\* r is owed its charge: it awaits an answer, and its backend is still anchored
\* as it was when r was charged.
Owed(r) ==
  /\ pc[r] = "proxy"
  /\ counter[hold[r].backend] # None
  /\ anchor_seq[hold[r].backend] = hold[r].seq

\* What the ledger makes of a hold.
LEMMA ClaimFacts ==
  ASSUME TypeOK, NEW r \in Requests
  PROVE  /\ ClaimOf(r) # None <=> Owed(r)
         /\ Owed(r) => ClaimOf(r) = [backend |-> hold[r].backend, amount |-> hold[r].charge]
<1>1. hold[r].backend \in Backends /\ hold[r].charge \in Nat
  BY DEF TypeOK, Hold
<1>2. [backend |-> hold[r].backend, amount |-> hold[r].charge] # None
  BY <1>1, ClaimAssumption
<1> QED
  BY <1>2 DEF ClaimOf, Owed

\* The guarded rollback is the ledger's giving back.
LEMMA GivenBackIsBack ==
  ASSUME TypeOK, NEW r \in Requests
  PROVE  Ledger!GivenBack(r) = Back(r)
<1> DEFINE h == hold[r]
           b == h.backend
<1>1. b \in Backends /\ h.charge \in Nat
  BY DEF TypeOK, Hold
<1>2. counter \in [Backends -> IntOrNone]
  BY DEF TypeOK, FeedTypeOK
<1>3. [q \in Requests |-> ClaimOf(q)][r] = ClaimOf(r)
  OBVIOUS
<1>4. CASE Owed(r)
  <2>1. ClaimOf(r) = [backend |-> b, amount |-> h.charge] /\ ClaimOf(r) # None
    BY <1>4, ClaimFacts
  <2>2. Ledger!GivenBack(r) = [counter EXCEPT ![b] = counter[b] + h.charge]
    <3>1. ClaimOf(r).backend = b /\ ClaimOf(r).amount = h.charge
      BY <2>1
    <3> HIDE DEF h, b
    <3> QED BY <1>3, <2>1, <3>1, Zenon DEF Ledger!GivenBack
  <2>3. Plus(counter[b], h.charge) = counter[b] + h.charge
    BY <1>4 DEF Owed, Plus
  <2>4. Back(r) = [counter EXCEPT ![b] = Plus(counter[b], h.charge)]
    BY <1>4 DEF Owed, Back, RolledBack
  <2> QED BY <2>2, <2>3, <2>4
<1>5. CASE ~Owed(r)
  <2>1. Ledger!GivenBack(r) = counter
    BY <1>3, <1>5, ClaimFacts DEF Ledger!GivenBack
  <2>2. CASE pc[r] # "proxy" \/ anchor_seq[b] # h.seq
    BY <2>1, <2>2 DEF Back, RolledBack
  <2>3. CASE pc[r] = "proxy" /\ anchor_seq[b] = h.seq /\ counter[b] = None
    <3>1. Back(r) = [counter EXCEPT ![b] = Plus(counter[b], h.charge)]
      BY <2>3 DEF Back, RolledBack
    <3>2. Plus(counter[b], h.charge) = counter[b]
      BY <2>3 DEF Plus
    <3> QED BY <1>1, <1>2, <2>1, <3>1, <3>2
  <2> QED BY <1>5, <2>2, <2>3 DEF Owed
<1> QED
  BY <1>4, <1>5

\* A handler ends or makes no claim but its own.
LEMMA OthersClaim ==
  ASSUME TypeOK, NEW r \in Requests, Handler(r), NEW q \in Requests,
         pc'[q] = pc[q], hold'[q] = hold[q]
  PROVE  ClaimOf(q)' = ClaimOf(q)
<1>1. hold[q].backend \in Backends
  BY DEF TypeOK, Hold
<1>2. counter'[hold[q].backend] = None <=> counter[hold[q].backend] = None
  BY <1>1, HandlerKeepsAnchors
<1>3. anchor_seq' = anchor_seq
  BY HandlerEffect DEF FeedFrame
<1> QED
  BY <1>2, <1>3 DEF ClaimOf

LEMMA HandlerLedger ==
  ASSUME TypeOK, WalkFromInput, NEW r \in Requests, Handler(r)
  PROVE  Ledger!Next
<1> DEFINE claims == [q \in Requests |-> ClaimOf(q)]
<1>1. Back(r) \in Counters
  BY CountersGrown, RolledBackGrown, AtCandidate DEF Back
<1>2. ASSUME \A q \in Requests \ {r} : pc'[q] = pc[q] /\ hold'[q] = hold[q]
      PROVE  claims' = [claims EXCEPT ![r] = ClaimOf(r)']
  BY <1>2, OthersClaim
<1>3. CASE TakesFrom(r, Back(r))
  <2>1. PICK b \in Backends, charge \in Charges :
          /\ charge \in Nat
          /\ pc' = [pc EXCEPT ![r] = "proxy"]
          /\ counter' = [Back(r) EXCEPT ![b] = Minus(Back(r)[b], charge)]
          /\ hold' = [hold EXCEPT ![r] =
               [backend |-> b, charge |-> charge, seq |-> anchor_seq[b],
                took |-> Back(r)[b] # None, open |-> ~fresh[b], live |-> TRUE]]
    BY <1>3 DEF TakesFrom
  <2>2. /\ pc'[r] = "proxy" /\ hold'[r].backend = b /\ hold'[r].charge = charge
        /\ hold'[r].seq = anchor_seq[b]
        /\ \A q \in Requests \ {r} : pc'[q] = pc[q] /\ hold'[q] = hold[q]
    BY <2>1 DEF TypeOK
  <2>3. anchor_seq' = anchor_seq /\ (counter'[b] = None <=> counter[b] = None)
    BY HandlerEffect, HandlerKeepsAnchors DEF FeedFrame
  <2>4. Back(r)[b] = None <=> counter[b] = None
    <3>1. Grown(Back(r))
      BY CountersGrown, RolledBackGrown, AtCandidate DEF Back
    <3> QED BY <3>1 DEF Grown
  <2>5. ClaimOf(r)' = IF counter[b] = None THEN None ELSE [backend |-> b, amount |-> charge]
    BY <2>2, <2>3 DEF ClaimOf
  <2>6. claims' = [claims EXCEPT ![r] = ClaimOf(r)']
    BY <1>2, <2>2
  <2>7. CASE counter[b] = None
    <3>1. counter' = Back(r)
      <4>1. Minus(Back(r)[b], charge) = Back(r)[b]
        BY <2>4, <2>7 DEF Minus
      <4> QED BY <1>1, <2>1, <4>1 DEF Counters
    <3>2. Ledger!GiveBack(r)
      BY <2>5, <2>6, <2>7, <3>1, GivenBackIsBack DEF Ledger!GiveBack
    <3> QED BY <3>2 DEF Ledger!Next
  <2>8. CASE counter[b] # None
    <3>1. counter' = [Ledger!GivenBack(r) EXCEPT ![b] = Ledger!GivenBack(r)[b] - charge]
      BY <2>1, <2>4, <2>8, GivenBackIsBack DEF Minus
    <3>2. claims' = [claims EXCEPT ![r] = [backend |-> b, amount |-> charge]]
      BY <2>5, <2>6, <2>8
    <3>3. Ledger!Take(r, b, charge)
      BY <2>8, <3>1, <3>2 DEF Ledger!Take
    <3> QED BY <3>3 DEF Ledger!Next
  <2> QED BY <2>7, <2>8
<1>4. ASSUME NEW c, SettlesFrom(r, c)
      PROVE  counter' = c /\ claims' = [claims EXCEPT ![r] = None]
  <2>1. ClaimOf(r)' = None
    BY <1>4 DEF SettlesFrom, ClaimOf
  <2> QED BY <1>2, <1>4, <2>1 DEF SettlesFrom
<1>5. CASE SettlesFrom(r, Back(r))
  <2>1. Ledger!GiveBack(r)
    BY <1>4, <1>5, GivenBackIsBack DEF Ledger!GiveBack
  <2> QED BY <2>1 DEF Ledger!Next
<1>6. CASE KeepsCharge(r)
  <2>0. /\ pc'[r] = "done" /\ counter' = counter
        /\ \A q \in Requests \ {r} : pc'[q] = pc[q] /\ hold'[q] = hold[q]
    BY <1>6 DEF KeepsCharge, TypeOK
  <2>1. Ledger!Spend(r)
    <3>1. ClaimOf(r)' = None
      BY <2>0 DEF ClaimOf
    <3> QED BY <1>2, <2>0, <3>1 DEF Ledger!Spend
  <2> QED BY <2>1 DEF Ledger!Next
<1> QED
  BY <1>3, <1>5, <1>6, HandlerClaims

\* A sample anchors, unanchors or leaves the counter; only an anchor ends what
\* is owed, by outdating the number it was charged under.
LEMMA PollMetricsLedger ==
  ASSUME TypeOK, HoldsCurrent, NEW b \in Backends, PollMetrics(b)
  PROVE  [Ledger!Next]_(Ledger!ledgerVars)
<1> DEFINE claims == [q \in Requests |-> ClaimOf(q)]
<1>1. PICK s \in Samples[b] : MetricsTick(b, s)
  BY DEF PollMetrics
<1>2. pc' = pc /\ hold' = hold
  BY DEF PollMetrics
<1>3. /\ counter' = [counter EXCEPT ![b] =
           IF Anchors(s) THEN AnchorRemaining(b, s.capacity, s.usage)
           ELSE IF s.observed /\ s.capacity = None THEN None
           ELSE counter[b]]
      /\ anchor_seq' = [anchor_seq EXCEPT ![b] =
           IF Anchors(s) THEN anchor_seq[b] + 1 ELSE anchor_seq[b]]
  BY <1>1 DEF MetricsTick, Reanchor
<1>4. counter \in [Backends -> IntOrNone] /\ anchor_seq \in [Backends -> Nat]
  BY DEF TypeOK, FeedTypeOK
<1>5. ASSUME NEW q \in Requests, hold[q].backend # b
      PROVE  ClaimOf(q)' = ClaimOf(q)
  <2>1. hold[q].backend \in Backends
    BY DEF TypeOK, Hold
  <2>2. /\ counter'[hold[q].backend] = counter[hold[q].backend]
        /\ anchor_seq'[hold[q].backend] = anchor_seq[hold[q].backend]
    BY <1>3, <1>4, <1>5, <2>1
  <2> QED BY <1>2, <2>2 DEF ClaimOf
<1>6. ASSUME NEW level, counter' = [counter EXCEPT ![b] = level],
             \A q \in Requests : hold[q].backend = b => ClaimOf(q)' = None
      PROVE  Ledger!Supersede(b, level)
  <2>1. ASSUME NEW q \in Requests
        PROVE  ClaimOf(q)' =
                 IF ClaimOf(q) # None /\ ClaimOf(q).backend = b THEN None ELSE ClaimOf(q)
    <3>1. ClaimOf(q) # None => ClaimOf(q).backend = hold[q].backend
      BY ClaimFacts
    <3>2. CASE hold[q].backend = b
      BY <1>6, <3>1, <3>2
    <3>3. CASE hold[q].backend # b
      BY <1>5, <3>1, <3>3
    <3> QED BY <3>2, <3>3
  <2> QED BY <1>6, <2>1 DEF Ledger!Supersede
<1>7. CASE Anchors(s)
  <2> DEFINE level == AnchorRemaining(b, s.capacity, s.usage)
  <2>1. counter' = [counter EXCEPT ![b] = level] /\ anchor_seq'[b] = anchor_seq[b] + 1
    BY <1>3, <1>4, <1>7
  <2>2. ASSUME NEW q \in Requests, hold[q].backend = b
        PROVE  ClaimOf(q)' = None
    <3>1. pc[q] = "proxy" => hold[q].seq <= anchor_seq[b]
      BY <2>2 DEF HoldsCurrent
    <3>2. hold[q].seq \in Nat /\ anchor_seq[b] \in Nat
      BY <1>4 DEF TypeOK, Hold
    <3>3. pc[q] = "proxy" => anchor_seq'[b] # hold[q].seq
      BY <2>1, <3>1, <3>2
    <3> QED BY <1>2, <2>2, <3>3 DEF ClaimOf
  <2>3. level \in UNION {AnchorLevels(d) : d \in Backends}
    <3>1. level \in AnchorLevels(b)
      BY <1>7 DEF AnchorLevels
    <3> QED BY <3>1
  <2>4. Ledger!Supersede(b, level)
    <3> HIDE DEF level
    <3> QED BY <1>6, <2>1, <2>2
  <2>5. Ledger!Anchor(b)
    <3> HIDE DEF level
    <3> QED BY <2>3, <2>4 DEF Ledger!Anchor
  <2> QED BY <2>5 DEF Ledger!Next
<1>8. CASE ~Anchors(s) /\ s.observed /\ s.capacity = None
  <2>1. counter' = [counter EXCEPT ![b] = None] /\ counter'[b] = None
    BY <1>3, <1>4, <1>8
  <2>2. \A q \in Requests : hold[q].backend = b => ClaimOf(q)' = None
    BY <1>2, <2>1 DEF ClaimOf
  <2>3. Ledger!Unanchor(b)
    BY <1>6, <2>1, <2>2 DEF Ledger!Unanchor
  <2> QED BY <2>3 DEF Ledger!Next
<1>9. CASE ~Anchors(s) /\ ~(s.observed /\ s.capacity = None)
  <2>1. counter' = counter /\ anchor_seq' = anchor_seq
    BY <1>3, <1>4, <1>9
  <2>2. \A q \in Requests : ClaimOf(q)' = ClaimOf(q)
    BY <1>2, <2>1 DEF ClaimOf
  <2>3. claims' = claims
    BY <2>2
  <2> QED BY <2>1, <2>3 DEF Ledger!ledgerVars
<1> QED
  BY <1>7, <1>8, <1>9

LEMMA NextLedger ==
  TypeOK /\ HoldsCurrent /\ WalkFromInput /\ [Next]_vars => [Ledger!Next]_(Ledger!ledgerVars)
<1> SUFFICES ASSUME TypeOK, HoldsCurrent, WalkFromInput, [Next]_vars
             PROVE  [Ledger!Next]_(Ledger!ledgerVars)
  OBVIOUS
<1>1. CASE UNCHANGED <<counter, anchor_seq, pc, hold>>
  <2>1. \A q \in Requests : ClaimOf(q)' = ClaimOf(q)
    BY <1>1 DEF ClaimOf
  <2> QED BY <1>1, <2>1 DEF Ledger!ledgerVars
<1>2. ASSUME NEW r \in Requests, Handler(r) PROVE Ledger!Next
  BY <1>2, HandlerLedger
<1>3. ASSUME NEW b \in Backends, PollMetrics(b) PROVE [Ledger!Next]_(Ledger!ledgerVars)
  BY <1>3, PollMetricsLedger
<1>4. ASSUME NEW b \in Backends, Ages(b) \/ PollModels(b)
      PROVE  UNCHANGED <<counter, anchor_seq, pc, hold>>
  BY <1>4 DEF Ages, FeedAges, PollModels, feedVars, walkVars
<1>5. UNCHANGED vars => UNCHANGED <<counter, anchor_seq, pc, hold>>
  BY DEF vars, feedVars, walkVars
<1> QED
  BY <1>1, <1>2, <1>3, <1>4, <1>5 DEF Next, Poller

LEMMA InitLedger == Init => Ledger!Init
<1> SUFFICES ASSUME Init PROVE Ledger!Init
  OBVIOUS
<1>1. \A r \in Requests : ClaimOf(r) = None
  BY DEF Init, ClaimOf
<1> QED
  BY <1>1 DEF Init, FeedInit, Ledger!Init

\* The counters with their anchor_seq guard implement the ledger, for any number
\* of requests and backends: in every interleaving a charge is given back in
\* full, spent, or superseded by an anchor, once, and nothing else moves a
\* headroom (app.py:706-742, poller.py:379-405).
THEOREM LedgerImplemented == Spec => LedgerSpec
<1>1. Init => Ledger!Init /\ HoldsCurrent /\ WalkFromInput
  BY InitLedger DEF Init, HoldsCurrent, WalkFromInput
<1>2. TypeOK /\ HoldsCurrent /\ [Next]_vars => HoldsCurrent'
  BY NextHoldsCurrent
<1>3. TypeOK /\ WalkFromInput /\ [Next]_vars => WalkFromInput'
  BY NextWalkFromInput
<1>4. TypeOK /\ HoldsCurrent /\ WalkFromInput /\ [Next]_vars
        => [Ledger!Next]_(Ledger!ledgerVars)
  BY NextLedger
<1> QED
  BY <1>1, <1>2, <1>3, <1>4, TypeCorrect, PTL DEF Spec, LedgerSpec, Ledger!Spec

-----------------------------------------------------------------------------
(* The balance.                                                               *)

\* What the sums over claims rest on: finitely many requests have arrived, a
\* charge counts only while its request awaits the answer or is done, and none
\* is newer than the anchor of its backend.
HoldsInv ==
  /\ IsFiniteSet({r \in Requests : pc[r] # "new"})
  /\ \A r \in Requests :
       /\ pc[r] = "proxy" => hold[r].live
       /\ hold[r].live => pc[r] \in {"proxy", "done"}
       /\ hold[r].seq <= anchor_seq[hold[r].backend]

LEMMA HandlerHolds ==
  ASSUME TypeOK, HoldsInv, WalkFromInput, NEW r \in Requests, Handler(r)
  PROVE  HoldsInv'
<1> DEFINE arrived == {q \in Requests : pc[q] # "new"}
<1>1. /\ TakesFrom(r, Back(r)) \/ SettlesFrom(r, Back(r)) \/ KeepsCharge(r)
      /\ anchor_seq' = anchor_seq
  BY HandlerClaims, HandlerEffect DEF FeedFrame
<1>2. \A q \in Requests \ {r} : pc'[q] = pc[q] /\ hold'[q] = hold[q]
  BY <1>1 DEF TakesFrom, SettlesFrom, KeepsCharge, TypeOK
<1>3. IsFiniteSet(arrived')
  <2>1. IsFiniteSet(arrived \cup {r})
    BY FS_AddElement DEF HoldsInv
  <2>2. arrived' \subseteq arrived \cup {r}
    BY <1>2
  <2> QED BY <2>1, <2>2, FS_Subset
<1>4. /\ pc'[r] = "proxy" => hold'[r].live
      /\ hold'[r].live => pc'[r] \in {"proxy", "done"}
      /\ hold'[r].seq <= anchor_seq'[hold'[r].backend]
  <2>1. CASE TakesFrom(r, Back(r))
    <3>1. PICK b \in Backends : hold'[r].backend = b /\ hold'[r].seq = anchor_seq[b]
                                /\ hold'[r].live /\ pc'[r] = "proxy"
      BY <2>1 DEF TakesFrom, TypeOK
    <3>2. anchor_seq[b] \in Nat
      BY DEF TypeOK, FeedTypeOK
    <3> QED BY <1>1, <3>1, <3>2
  <2>2. CASE SettlesFrom(r, Back(r))
    BY <1>1, <2>2 DEF SettlesFrom, HoldsInv
  <2>3. CASE KeepsCharge(r)
    BY <1>1, <2>3 DEF KeepsCharge, HoldsInv, TypeOK
  <2> QED BY <1>1, <2>1, <2>2, <2>3
<1>5. ASSUME NEW q \in Requests, q # r
      PROVE  /\ pc'[q] = "proxy" => hold'[q].live
             /\ hold'[q].live => pc'[q] \in {"proxy", "done"}
             /\ hold'[q].seq <= anchor_seq'[hold'[q].backend]
  BY <1>1, <1>2, <1>5 DEF HoldsInv
<1> QED
  BY <1>3, <1>4, <1>5 DEF HoldsInv

LEMMA NextHoldsInv ==
  TypeOK /\ WalkFromInput /\ HoldsInv /\ [Next]_vars => HoldsInv'
<1> SUFFICES ASSUME TypeOK, WalkFromInput, HoldsInv, [Next]_vars PROVE HoldsInv'
  OBVIOUS
<1>1. CASE UNCHANGED <<pc, hold, anchor_seq>>
  BY <1>1 DEF HoldsInv
<1>2. ASSUME NEW r \in Requests, Handler(r) PROVE HoldsInv'
  BY <1>2, HandlerHolds
<1>3. ASSUME NEW b \in Backends, PollMetrics(b) PROVE HoldsInv'
  <2>1. pc' = pc /\ hold' = hold
    BY <1>3 DEF PollMetrics
  <2>2. \A d \in Backends : anchor_seq[d] \in Nat /\ anchor_seq'[d] \in {anchor_seq[d], anchor_seq[d] + 1}
    BY <1>3 DEF PollMetrics, MetricsTick, Reanchor, TypeOK, FeedTypeOK
  <2>3. ASSUME NEW q \in Requests PROVE hold[q].seq <= anchor_seq'[hold[q].backend]
    <3>1. hold[q].backend \in Backends /\ hold[q].seq \in Nat
      BY DEF TypeOK, Hold
    <3>2. hold[q].seq <= anchor_seq[hold[q].backend]
      BY DEF HoldsInv
    <3> QED BY <2>2, <3>1, <3>2
  <2> QED BY <2>1, <2>3 DEF HoldsInv
<1>4. ASSUME NEW b \in Backends, Ages(b) \/ PollModels(b) PROVE UNCHANGED <<pc, hold, anchor_seq>>
  BY <1>4 DEF Ages, FeedAges, PollModels, feedVars, walkVars
<1>5. UNCHANGED vars => UNCHANGED <<pc, hold, anchor_seq>>
  BY DEF vars, feedVars, walkVars
<1> QED
  BY <1>1, <1>2, <1>3, <1>4, <1>5 DEF Next, Poller

\* The headroom b was last anchored with.
Level(b) == AnchorRemaining(b, anchor[b].capacity, anchor[b].usage)

\* The claims that were admitted on a fresh usage.
Admitted(b) == {r \in Claims(b) : ~hold[r].open}

\* TargetRespected is not inductive by itself: that a request fits is tested
\* against the counter, so what must be kept is that the charges admitted on a
\* fresh usage fit into the headroom of the anchor, whatever others were charged.
AdmittedFits ==
  \A b \in Backends : counter[b] # None /\ Charged(Admitted(b)) > 0 =>
    Charged(Admitted(b)) <= Level(b)

LEMMA LevelNat ==
  ASSUME TypeOK, NEW b \in Backends
  PROVE  anchor[b].usage \in Int /\ anchor[b].capacity \in Nat /\ Level(b) \in Nat
<1>1. anchor[b].usage \in Int /\ anchor[b].capacity \in Nat
  BY DEF TypeOK, FeedTypeOK
<1> QED
  BY <1>1, AnchorRemainingBounds DEF Level

\* Claims are those of requests that arrived.
LEMMA ClaimsFinite ==
  ASSUME HoldsInv, NEW b \in Backends
  PROVE  /\ Claims(b) \in SUBSET Requests /\ IsFiniteSet(Claims(b))
         /\ Admitted(b) \in SUBSET Claims(b) /\ IsFiniteSet(Admitted(b))
<1>1. Claims(b) \subseteq {r \in Requests : pc[r] # "new"}
  BY DEF Claims, HoldsInv
<1>2. IsFiniteSet(Claims(b))
  BY <1>1, FS_Subset DEF HoldsInv
<1>3. Admitted(b) \subseteq Claims(b)
  BY DEF Admitted
<1> QED
  BY <1>2, <1>3, FS_Subset DEF Claims

LEMMA ChargedFacts ==
  ASSUME TypeOK, NEW rs \in SUBSET Requests, IsFiniteSet(rs)
  PROVE  /\ Charged(rs) \in Nat
         /\ \A r \in rs : Charged(rs) = hold[r].charge + Charged(rs \ {r})
         /\ \A qs \in SUBSET rs : Charged(qs) <= Charged(rs)
<1> DEFINE f == [r \in Requests |-> hold[r].charge]
<1>1. \A r \in rs : f[r] = hold[r].charge /\ f[r] \in Nat
  BY DEF TypeOK, Hold
<1> HIDE DEF f
<1>2. /\ SumFunctionOnSet(f, rs) \in Nat
      /\ \A r \in rs : SumFunctionOnSet(f, rs) = f[r] + SumFunctionOnSet(f, rs \ {r})
      /\ \A qs \in SUBSET rs : SumFunctionOnSet(f, qs) <= SumFunctionOnSet(f, rs)
  BY <1>1, SumType, SumRemoves, SumMonotone
<1>3. \A qs : Charged(qs) = SumFunctionOnSet(f, qs)
  BY DEF Charged, f
<1> QED
  BY <1>1, <1>2, <1>3

\* What the others were charged is the same after a step of r, and the charge
\* of r is added to it.
LEMMA ChargedNext ==
  ASSUME TypeOK, TypeOK', NEW r \in Requests, \A q \in Requests \ {r} : hold'[q] = hold[q],
         NEW rest \in SUBSET (Requests \ {r}), IsFiniteSet(rest)
  PROVE  /\ Charged(rest)' = Charged(rest)
         /\ Charged(rest \cup {r})' = hold'[r].charge + Charged(rest)
<1> DEFINE f == [q \in Requests |-> hold[q].charge]
           g == [q \in Requests |-> hold'[q].charge]
<1>1. \A q \in rest : g[q] = f[q] /\ g[q] \in Int
  BY DEF TypeOK, Hold
<1>2. g[r] = hold'[r].charge /\ g[r] \in Int /\ r \notin rest
  BY DEF TypeOK, Hold
<1>3. Charged(rest) = SumFunctionOnSet(f, rest)
  BY DEF Charged
<1>4. /\ Charged(rest)' = SumFunctionOnSet(g, rest)
      /\ Charged(rest \cup {r})' = SumFunctionOnSet(g, rest \cup {r})
  BY DEF Charged
<1> HIDE DEF f, g
<1>5. SumFunctionOnSet(g, rest) = SumFunctionOnSet(f, rest)
  BY <1>1, SumEqual
<1>6. SumFunctionOnSet(g, rest \cup {r}) = g[r] + SumFunctionOnSet(g, rest)
  BY <1>1, <1>2, SumAdds
<1> QED
  BY <1>2, <1>3, <1>4, <1>5, <1>6

\* With what r holds rolled back, an anchored counter is the headroom of its
\* anchor less the charges of the others.
LEMMA BackBalance ==
  ASSUME TypeOK, HoldsCurrent, HoldsInv, LedgerBalance, NEW r \in Requests, pc[r] # "done",
         NEW b \in Backends, counter[b] # None
  PROVE  Back(r)[b] = Level(b) - Charged(Claims(b) \ {r})
<1> DEFINE h == hold[r]
<1>1. counter[b] = Level(b) - Charged(Claims(b)) /\ counter[b] \in Int
  BY DEF LedgerBalance, Level, TypeOK, FeedTypeOK, IntOrNone
<1>2. h \in Hold /\ h.backend \in Backends /\ h.charge \in Nat
  BY DEF TypeOK, Hold
<1>3. CASE r \in Claims(b)
  <2>1. /\ h.backend = b /\ h.live /\ h.seq = anchor_seq[b]
        /\ pc[r] = "proxy"
    BY <1>3 DEF Claims, HoldsInv
  <2>2. Back(r)[b] = counter[b] + h.charge
    BY <1>2, <2>1 DEF Back, RolledBack, Plus, TypeOK, FeedTypeOK
  <2>3. Charged(Claims(b)) = h.charge + Charged(Claims(b) \ {r})
    BY <1>3, ClaimsFinite, ChargedFacts
  <2>4. Charged(Claims(b) \ {r}) \in Nat /\ Level(b) \in Nat
    <3>1. IsFiniteSet(Claims(b) \ {r}) /\ Claims(b) \ {r} \in SUBSET Requests
      BY ClaimsFinite, FS_Subset
    <3> QED BY <3>1, ChargedFacts, LevelNat
  <2> QED BY <1>1, <1>2, <2>2, <2>3, <2>4
<1>4. CASE r \notin Claims(b)
  <2>1. Claims(b) \ {r} = Claims(b)
    BY <1>4
  <2>2. Back(r)[b] = counter[b]
    <3>1. CASE pc[r] # "proxy" \/ anchor_seq[h.backend] # h.seq
      BY <3>1 DEF Back, RolledBack
    <3>2. CASE h.backend # b
      BY <1>2, <3>2 DEF Back, RolledBack, TypeOK, FeedTypeOK
    <3>3. CASE pc[r] = "proxy" /\ anchor_seq[h.backend] = h.seq /\ h.backend = b
      <4>1. h.took /\ h.live
        BY <3>3 DEF HoldsCurrent, HoldsInv, TypeOK, Hold
      <4> QED BY <1>4, <3>3, <4>1 DEF Claims
    <3> QED BY <3>1, <3>2, <3>3
  <2> QED BY <1>1, <2>1, <2>2
<1> QED
  BY <1>3, <1>4

\* The claims of b and those admitted on a fresh usage, but for r's.
LEMMA RestFacts ==
  ASSUME TypeOK, HoldsInv, NEW r \in Requests, NEW b \in Backends
  PROVE  LET rest == Claims(b) \ {r}
             fits == Admitted(b) \ {r}
         IN  /\ rest \in SUBSET (Requests \ {r}) /\ IsFiniteSet(rest) /\ Charged(rest) \in Nat
             /\ fits \in SUBSET (Requests \ {r}) /\ IsFiniteSet(fits) /\ Charged(fits) \in Nat
             /\ Charged(fits) <= Charged(rest)
             /\ Charged(fits) <= Charged(Admitted(b))
<1> DEFINE rest == Claims(b) \ {r}
           fits == Admitted(b) \ {r}
<1>1. rest \in SUBSET (Requests \ {r}) /\ fits \in SUBSET rest /\ fits \in SUBSET Admitted(b)
      /\ Admitted(b) \in SUBSET Requests
  BY ClaimsFinite
<1>2. IsFiniteSet(rest) /\ IsFiniteSet(fits) /\ IsFiniteSet(Admitted(b))
  BY ClaimsFinite, FS_Subset
<1> HIDE DEF rest, fits
<1>3. rest \in SUBSET Requests
  BY <1>1
<1>4. Charged(rest) \in Nat /\ Charged(fits) <= Charged(rest)
  BY <1>1, <1>2, <1>3, ChargedFacts
<1>5. Charged(fits) \in Nat /\ Charged(fits) <= Charged(Admitted(b))
  BY <1>1, <1>2, <1>3, ChargedFacts
<1> QED
  BY <1>1, <1>2, <1>4, <1>5 DEF rest, fits

LEMMA HandlerBalance ==
  ASSUME TypeOK, TypeOK', HoldsCurrent, HoldsInv, WalkFromInput, FreshKnown,
         LedgerBalance, AdmittedFits, NEW r \in Requests, Handler(r)
  PROVE  LedgerBalance' /\ AdmittedFits'
<1>1. /\ pc[r] # "done"
      /\ TakesFrom(r, Back(r)) \/ SettlesFrom(r, Back(r)) \/ KeepsCharge(r)
      /\ UNCHANGED <<anchor, anchor_seq>>
  BY HandlerClaims, HandlerEffect DEF FeedFrame
<1>2. \A q \in Requests \ {r} : hold'[q] = hold[q]
  BY <1>1 DEF TakesFrom, SettlesFrom, KeepsCharge, TypeOK
<1> SUFFICES ASSUME NEW b \in Backends, counter'[b] # None
             PROVE  /\ counter'[b] = Level(b) - Charged(Claims(b))'
                    /\ Charged(Admitted(b))' > 0 => Charged(Admitted(b))' <= Level(b)
  BY <1>1 DEF LedgerBalance, AdmittedFits, Level
<1>3. counter[b] # None
  BY HandlerKeepsAnchors
<1>4. Level(b) \in Nat /\ (Charged(Admitted(b)) > 0 => Charged(Admitted(b)) <= Level(b))
  BY <1>3, LevelNat DEF AdmittedFits
<1>5. PICK rest, fits : rest = Claims(b) \ {r} /\ fits = Admitted(b) \ {r}
  OBVIOUS
<1>6. /\ rest \in SUBSET (Requests \ {r}) /\ IsFiniteSet(rest) /\ Charged(rest) \in Nat
      /\ fits \in SUBSET (Requests \ {r}) /\ IsFiniteSet(fits) /\ Charged(fits) \in Nat
      /\ Charged(fits) <= Charged(rest) /\ Charged(fits) <= Charged(Admitted(b))
  BY <1>5, RestFacts
<1>7. Charged(Admitted(b)) \in Nat
  <2>1. Admitted(b) \in SUBSET Requests
    BY ClaimsFinite
  <2> QED BY <2>1, ClaimsFinite, ChargedFacts
<1>8. Charged(fits) > 0 => Charged(fits) <= Level(b)
  BY <1>4, <1>6, <1>7
<1>9. Back(r)[b] = Level(b) - Charged(rest)
  BY <1>1, <1>3, <1>5, BackBalance
<1>10. \A q \in Requests \ {r} :
         (q \in Claims(b)' <=> q \in rest) /\ (q \in Admitted(b)' <=> q \in fits)
  BY <1>1, <1>2, <1>5 DEF Claims, Admitted
<1>11. Claims(b)' \subseteq Requests /\ Admitted(b)' \subseteq Claims(b)'
  BY DEF Claims, Admitted
<1>12. ASSUME r \notin Claims(b)'
       PROVE  Charged(Claims(b))' = Charged(rest) /\ Charged(Admitted(b))' = Charged(fits)
  <2>1. Claims(b)' = rest /\ Admitted(b)' = fits
    BY <1>6, <1>10, <1>11, <1>12
  <2> QED BY <1>2, <1>6, <2>1, ChargedNext DEF Charged
<1>13. CASE TakesFrom(r, Back(r))
  <2>1. PICK d \in Backends, charge \in Nat :
          /\ counter' = [Back(r) EXCEPT ![d] = Minus(Back(r)[d], charge)]
          /\ hold' = [hold EXCEPT ![r] =
               [backend |-> d, charge |-> charge, seq |-> anchor_seq[d],
                took |-> Back(r)[d] # None, open |-> ~fresh[d], live |-> TRUE]]
          /\ fresh[d] /\ usage[d] # None /\ Back(r)[d] # None
               => charge = 0 \/ charge <= Back(r)[d]
    BY <1>13 DEF TakesFrom
  <2>2. /\ hold'[r].backend = d /\ hold'[r].charge = charge /\ hold'[r].seq = anchor_seq[d]
        /\ (hold'[r].took <=> Back(r)[d] # None) /\ (hold'[r].open <=> ~fresh[d])
        /\ hold'[r].live
    BY <2>1 DEF TypeOK
  <2>3. Back(r) \in Counters
    BY CountersGrown, RolledBackGrown, AtCandidate DEF Back
  <2>4. CASE d # b
    <3>1. r \notin Claims(b)'
      BY <2>2, <2>4 DEF Claims
    <3>2. counter'[b] = Back(r)[b]
      BY <2>1, <2>3, <2>4 DEF Counters
    <3> QED BY <1>8, <1>9, <1>12, <3>1, <3>2
  <2>5. CASE d = b
    <3>1. counter'[b] = Back(r)[b] - charge /\ Back(r)[b] # None
      <4>1. counter'[b] = Minus(Back(r)[b], charge)
        BY <2>1, <2>3, <2>5 DEF Counters
      <4> QED BY <4>1 DEF Minus
    <3>2. r \in Claims(b)' /\ (r \in Admitted(b)' <=> fresh[b])
      BY <1>1, <2>2, <2>5, <3>1 DEF Claims, Admitted
    <3>3. Claims(b)' = rest \cup {r}
      BY <1>6, <1>10, <1>11, <3>2
    <3>4. Charged(Claims(b))' = charge + Charged(rest)
      BY <1>2, <1>6, <2>2, <3>3, ChargedNext DEF Charged
    <3>5. counter'[b] = Level(b) - Charged(Claims(b))'
      BY <1>4, <1>6, <1>9, <3>1, <3>4
    <3>6. CASE fresh[b]
      <4>1. Admitted(b)' = fits \cup {r}
        BY <1>6, <1>10, <1>11, <3>2, <3>6
      <4>2. Charged(Admitted(b))' = charge + Charged(fits)
        BY <1>2, <1>6, <2>2, <4>1, ChargedNext DEF Charged
      <4>3. charge = 0 \/ charge <= Level(b) - Charged(rest)
        BY <1>9, <2>1, <2>5, <3>1, <3>6 DEF FreshKnown
      <4> QED BY <1>4, <1>6, <1>8, <3>5, <4>2, <4>3
    <3>7. CASE ~fresh[b]
      <4>1. Admitted(b)' = fits
        BY <1>6, <1>10, <1>11, <3>2, <3>7
      <4>2. Charged(Admitted(b))' = Charged(fits)
        BY <1>2, <1>6, <4>1, ChargedNext DEF Charged
      <4> QED BY <1>8, <3>5, <4>2
    <3> QED BY <3>6, <3>7
  <2> QED BY <2>4, <2>5
<1>14. CASE SettlesFrom(r, Back(r))
  <2>1. r \notin Claims(b)' /\ counter' = Back(r)
    BY <1>14 DEF SettlesFrom, Claims
  <2> QED BY <1>8, <1>9, <1>12, <2>1
<1>15. CASE KeepsCharge(r)
  <2>1. hold' = hold /\ counter' = counter
    BY <1>15 DEF KeepsCharge
  <2>2. Charged(Claims(b))' = Charged(Claims(b)) /\ Charged(Admitted(b))' = Charged(Admitted(b))
    BY <1>1, <2>1 DEF Charged, Claims, Admitted
  <2>3. counter[b] = Level(b) - Charged(Claims(b))
    BY <1>3 DEF LedgerBalance, Level
  <2> QED BY <1>4, <2>1, <2>2, <2>3
<1> QED
  BY <1>1, <1>13, <1>14, <1>15

LEMMA PollMetricsBalance ==
  ASSUME TypeOK, HoldsInv, LedgerBalance, AdmittedFits, NEW b \in Backends, PollMetrics(b)
  PROVE  LedgerBalance' /\ AdmittedFits'
<1>1. PICK s \in Samples[b] :
        /\ hold' = hold
        /\ counter' = [counter EXCEPT ![b] =
             IF Anchors(s) THEN AnchorRemaining(b, s.capacity, s.usage)
             ELSE IF s.observed /\ s.capacity = None THEN None
             ELSE counter[b]]
        /\ anchor_seq' = [anchor_seq EXCEPT ![b] =
             IF Anchors(s) THEN anchor_seq[b] + 1 ELSE anchor_seq[b]]
        /\ anchor' = [anchor EXCEPT ![b] =
             IF Anchors(s) THEN [usage |-> s.usage, capacity |-> s.capacity] ELSE anchor[b]]
  BY DEF PollMetrics, MetricsTick, Reanchor
<1> SUFFICES ASSUME NEW d \in Backends, counter'[d] # None
             PROVE  /\ counter'[d] = Level(d)' - Charged(Claims(d))'
                    /\ Charged(Admitted(d))' > 0 => Charged(Admitted(d))' <= Level(d)'
  BY DEF LedgerBalance, AdmittedFits, Level
<1>2. CASE d = b /\ Anchors(s)
  <2>1. /\ counter'[d] = AnchorRemaining(b, s.capacity, s.usage)
        /\ anchor_seq'[d] = anchor_seq[d] + 1
        /\ anchor'[d].usage = s.usage /\ anchor'[d].capacity = s.capacity
    BY <1>1, <1>2 DEF TypeOK, FeedTypeOK
  <2>2. Level(d)' = counter'[d] /\ counter'[d] \in Nat
    BY <1>2, <2>1, SampleFacts, AnchorRemainingBounds DEF Level
  <2>3. Claims(d)' = {}
    <3>1. ASSUME NEW r \in Requests PROVE ~(hold[r].backend = d /\ hold[r].seq = anchor_seq'[d])
      <4>1. hold[r].seq <= anchor_seq[hold[r].backend]
        BY DEF HoldsInv
      <4>2. hold[r].seq \in Nat /\ anchor_seq[d] \in Nat
        BY DEF TypeOK, FeedTypeOK, Hold
      <4> QED BY <2>1, <4>1, <4>2
    <3> QED BY <1>1, <3>1 DEF Claims
  <2>4. Admitted(d)' = {}
    BY <2>3 DEF Admitted
  <2>5. Charged(Claims(d))' = 0 /\ Charged(Admitted(d))' = 0
    BY <2>3, <2>4, SumEmpty DEF Charged
  <2> QED BY <2>2, <2>5
<1>3. CASE ~(d = b /\ Anchors(s))
  <2>1. counter'[d] = counter[d] /\ anchor_seq'[d] = anchor_seq[d] /\ anchor'[d] = anchor[d]
    BY <1>1, <1>3 DEF TypeOK, FeedTypeOK
  <2>2. Claims(d)' = Claims(d)
    BY <1>1, <2>1 DEF Claims
  <2>3. Admitted(d)' = Admitted(d)
    BY <1>1, <2>2 DEF Admitted
  <2>4. /\ Charged(Claims(d))' = Charged(Claims(d)) /\ Level(d)' = Level(d)
        /\ Charged(Admitted(d))' = Charged(Admitted(d))
    BY <1>1, <2>1, <2>2, <2>3 DEF Charged, Level
  <2> QED BY <2>1, <2>4 DEF LedgerBalance, AdmittedFits, Level
<1> QED
  BY <1>2, <1>3

\* The inductive invariant of the balance.
BalanceInv ==
  /\ HoldsCurrent /\ HoldsInv /\ WalkFromInput /\ FreshKnown
  /\ LedgerBalance /\ AdmittedFits

LEMMA InitBalance == Init => BalanceInv
<1> SUFFICES ASSUME Init PROVE BalanceInv
  OBVIOUS
<1>1. \A r \in Requests : pc[r] = "new" /\ hold[r] = NoHold
  BY DEF Init
<1>2. \A b \in Backends : counter[b] = None /\ anchor_seq[b] = 0 /\ fresh[b] = FALSE
  BY DEF Init, FeedInit
<1>3. HoldsInv
  <2>1. {r \in Requests : pc[r] # "new"} = {}
    BY <1>1
  <2>2. NoHold.seq = 0 /\ NoHold.backend \in Backends /\ NoHold.live = FALSE
    BY DefaultBackendFacts DEF NoHold
  <2> QED BY <1>1, <1>2, <2>1, <2>2, FS_EmptySet DEF HoldsInv
<1> QED
  BY <1>1, <1>2, <1>3
  DEF BalanceInv, HoldsCurrent, WalkFromInput, FreshKnown, LedgerBalance, AdmittedFits

LEMMA NextBalance == TypeOK /\ TypeOK' /\ BalanceInv /\ [Next]_vars => BalanceInv'
<1> SUFFICES ASSUME TypeOK, TypeOK', BalanceInv, [Next]_vars PROVE BalanceInv'
  OBVIOUS
<1>1. HoldsCurrent' /\ HoldsInv' /\ WalkFromInput' /\ FreshKnown'
  BY NextHoldsCurrent, NextHoldsInv, NextWalkFromInput, NextFreshKnown DEF BalanceInv
<1>2. CASE UNCHANGED <<counter, anchor, anchor_seq, hold>>
  BY <1>1, <1>2 DEF BalanceInv, LedgerBalance, AdmittedFits, Charged, Claims, Admitted, Level
<1>3. ASSUME NEW r \in Requests, Handler(r) PROVE BalanceInv'
  BY <1>1, <1>3, HandlerBalance DEF BalanceInv
<1>4. ASSUME NEW b \in Backends, PollMetrics(b) PROVE BalanceInv'
  BY <1>1, <1>4, PollMetricsBalance DEF BalanceInv
<1>5. ASSUME NEW b \in Backends, Ages(b) \/ PollModels(b)
      PROVE  UNCHANGED <<counter, anchor, anchor_seq, hold>>
  BY <1>5 DEF Ages, FeedAges, PollModels, feedVars, walkVars
<1>6. UNCHANGED vars => UNCHANGED <<counter, anchor, anchor_seq, hold>>
  BY DEF vars, feedVars, walkVars
<1> QED
  BY <1>2, <1>3, <1>4, <1>5, <1>6 DEF Next, Poller

LEMMA Balanced == Spec => [](TypeOK /\ BalanceInv)
  BY InitBalance, NextBalance, TypeCorrect, PTL DEF Spec

\* However many requests are charged, rolled back and re-anchored past, a
\* counter is its anchor's headroom less the charges that count against it
\* (app.py:708-742, poller.py:384-403).
THEOREM LedgerBalanceAlways == Spec => []LedgerBalance
<1>1. BalanceInv => LedgerBalance
  BY DEF BalanceInv
<1> QED
  BY <1>1, Balanced, PTL

LEMMA WithinTarget == TypeOK /\ BalanceInv => TargetRespected
<1> SUFFICES ASSUME TypeOK, BalanceInv, NEW b \in Backends, counter[b] # None,
                    Charged(Admitted(b)) > 0
             PROVE  100 * (Clamp(anchor[b].usage, 0, FracOne) * anchor[b].capacity
                             + Charged(Admitted(b)) * FracOne)
                      <= TargetPct[b] * FracOne * anchor[b].capacity
  BY DEF TargetRespected, Admitted
<1> DEFINE level    == Level(b)
           admitted == Charged(Admitted(b))
           used     == Clamp(anchor[b].usage, 0, FracOne) * anchor[b].capacity
           limit    == TargetPct[b] * FracOne * anchor[b].capacity
<1>1. anchor[b].usage \in Int /\ anchor[b].capacity \in Nat /\ level \in Nat
  BY LevelNat
<1>2. admitted \in Nat /\ admitted <= level
  <2>1. IsFiniteSet(Admitted(b)) /\ Admitted(b) \in SUBSET Requests
    BY ClaimsFinite DEF BalanceInv
  <2> QED BY <2>1, ChargedFacts DEF BalanceInv, AdmittedFits
<1>3. level > 0 => 100 * (used + level * FracOne) <= limit
  BY <1>1, AnchorRemainingBounds DEF Level
<1>4. FracOne \in Nat /\ used \in Int /\ limit \in Int
  <2>1. FracOne \in Nat /\ TargetPct[b] \in Nat
    BY FracAssumption, ConfigAssumption DEF ValidKnobs
  <2>2. Clamp(anchor[b].usage, 0, FracOne) \in Int
    BY <1>1, <2>1 DEF Clamp
  <2> QED BY <1>1, <2>1, <2>2
<1>5. admitted > 0
  OBVIOUS
<1> HIDE DEF level, admitted, used, limit
<1>6. admitted * FracOne <= level * FracOne /\ admitted * FracOne \in Int /\ level * FracOne \in Int
  BY <1>1, <1>2, <1>4
<1>7. 100 * (used + admitted * FracOne) <= limit
  BY <1>1, <1>2, <1>3, <1>4, <1>5, <1>6
<1> QED
  BY <1>7 DEF admitted, used, limit

\* What any number of concurrent requests are admitted for between two anchors
\* keeps the projected usage at or below the target (router.py:205-250).
THEOREM TargetRespectedAlways == Spec => []TargetRespected
  BY Balanced, WithinTarget, PTL
=============================================================================
