---------------------------- MODULE FailoverWalk -----------------------------
(* app.py's _handle_generation: one request resolves its candidates, picks    *)
(* the first, and walks them until one answers, composed with the pollers     *)
(* that move the feeds and the registry under it.                             *)
(*                                                                            *)
(* Handlers and pollers are tasks of one asyncio loop, so a step here is what *)
(* runs between two awaits.  A handler awaits in three places: the proxied    *)
(* call, the release of a discarded streaming 5xx before the next candidate,  *)
(* and the same release before the final 429.  A run of rejected candidates   *)
(* has no await and is part of the step that precedes it.                     *)
EXTENDS Routing, KvFeed, ModelRegistry

CONSTANTS
  Requests,      \* one handler task each
  Inputs         \* the (model, ctx, stream) a request may carry

Input == [model : Models, ctx : NatOrNone, stream : BOOLEAN]

ASSUME WalkAssumption == Inputs \subseteq Input

VARIABLES
  pc,        \* where the handler of each request is
  walk,      \* its input, its candidates and the index its walk starts at
  off,       \* the walk offset of the candidate it is at
  rejects,   \* the rejects collected so far, in walk order
  hold,      \* the last charge it took, and the anchor_seq read with it
  events,    \* the stats it recorded, in order
  reply,     \* the answer its client gets
  rr,        \* RoutingState: the round-robin index of each model
  blind      \* history: charged failing open since the last anchor of a backend

walkVars == <<pc, walk, off, rejects, hold, events, reply, rr, blind>>
vars == <<feedVars, owned, walkVars>>

-----------------------------------------------------------------------------
(* Types.                                                                     *)

Places == {"new", "proxy", "release", "release429", "done"}

CandidateLists == {cs \in UNION {[1..n -> Backends] : n \in 1..Len(BackendOrder)} :
                     \A i, j \in DOMAIN cs : cs[i] = cs[j] => i = j}

Walk == [model : Models, ctx : NatOrNone, stream : BOOLEAN,
         cands : CandidateLists, start : Nat]

Reject == [backend : Backends, retry : Nat, tier : (0..100) \cup {None}, reason : Reasons]

Hold == [backend : Backends, charge : Nat, seq : Nat, took : BOOLEAN,
         open : BOOLEAN, live : BOOLEAN]

FailoverReasons == {"reject", "transport", "upstream_5xx"}

Event == [kind : {"failover"}, from : Backends, to : Backends, reason : FailoverReasons]
    \cup [kind : {"forwarded"}, backend : Backends]
    \cup [kind : {"rejected"}, backend : Backends \cup {None}]
    \cup [kind : {"rejection"}, backend : Backends \cup {None},
          reason : Reasons \cup {"all_backends_failed"}, tier : (0..100) \cup {None}]

Reply == [status : {"none", "ok", "5xx", "429", "502", "500"},
          backend : Backends \cup {None}, retry : NatOrNone]

NoReply == [status |-> "none", backend |-> None, retry |-> None]

NoHold == [backend |-> DefaultBackend, charge |-> 0, seq |-> 0, took |-> FALSE,
           open |-> FALSE, live |-> FALSE]

NoWalk == [model |-> CHOOSE m \in Models : TRUE, ctx |-> None, stream |-> FALSE,
           cands |-> <<DefaultBackend>>, start |-> 0]

TypeOK ==
  /\ FeedTypeOK
  /\ RegistryTypeOK
  /\ pc \in [Requests -> Places]
  /\ walk \in [Requests -> Walk]
  /\ off \in [Requests -> Nat]
  /\ rejects \in [Requests -> Seq(Reject)]
  /\ hold \in [Requests -> Hold]
  /\ events \in [Requests -> Seq(Event)]
  /\ reply \in [Requests -> Reply]
  /\ rr \in [Models -> Nat]
  /\ blind \in [Backends -> Nat]

Init ==
  /\ FeedInit
  /\ RegistryInit
  /\ pc = [r \in Requests |-> "new"]
  /\ walk = [r \in Requests |-> NoWalk]
  /\ off = [r \in Requests |-> 0]
  /\ rejects = [r \in Requests |-> <<>>]
  /\ hold = [r \in Requests |-> NoHold]
  /\ events = [r \in Requests |-> <<>>]
  /\ reply = [r \in Requests |-> NoReply]
  /\ rr = [m \in Models |-> 0]
  /\ blind = [b \in Backends |-> 0]

-----------------------------------------------------------------------------
(* Candidate resolution and selection.                                        *)

RoundRobinOver(cands) ==
  [policy |-> "round_robin", order |-> cands, threshold_tokens |-> None]

\* The routing entry of the model, else round_robin over its owners.
SpecOf(model) ==
  IF model \in DOMAIN RoutingSpecs THEN RoutingSpecs[model] ELSE RoundRobinOver(BackendOrder)

View(b) ==
  [usage     |-> IF fresh[b] THEN usage[b] ELSE None,
   remaining |-> counter[b],
   capacity  |-> capacity[b]]

Views == [b \in Backends |-> View(b)]

\* The serving members of the order, or the default backend if there is none.
Resolves(model, cands) ==
  LET order   == SpecOf(model).order
      serving == Serving(model) \cap Listed(order)
  IN  IF serving = {} THEN cands = <<DefaultBackend>> ELSE Filters(cands, order, serving)

\* The fallback to the default backend drops the entry for round_robin.
SpecInEffect(model) ==
  IF Serving(model) \cap Listed(SpecOf(model).order) = {}
  THEN RoundRobinOver(<<DefaultBackend>>) ELSE SpecOf(model)

\* fill with every candidate full starts at 0; round_robin is offset by the
\* model's index.
StartIndex(input, spec, cands) ==
  LET selected == SelectBackend(spec, cands, input.ctx, Views)
      i0       == IF selected = None THEN 0 ELSE selected
  IN  IF spec.policy = "round_robin"
      THEN (i0 + (rr[input.model] % Len(cands))) % Len(cands)
      ELSE i0

\* The one walk the handler of this input sets out on.
Walks(input) ==
  {[model |-> input.model, ctx |-> input.ctx, stream |-> input.stream, cands |-> cs,
    start |-> StartIndex(input, SpecInEffect(input.model), cs)] :
     cs \in {cs \in CandidateLists : Resolves(input.model, cs)}}

-----------------------------------------------------------------------------
(* One turn of the walk: from the offset it resumes at to its next await.     *)

Candidate(w, i) == WalkAt(w.cands, w.start, i)

\* The decision on candidate i of walk w, against the counters c.
Dec(w, i, c) ==
  LET b == Candidate(w, i) IN Evaluate(b, usage[b], fresh[b], c[b], w.ctx)

RejectOf(w, i, c) ==
  LET d == Dec(w, i, c)
  IN  [backend |-> Candidate(w, i), retry |-> d.retry, tier |-> d.tier, reason |-> d.reason]

Failover(w, i, why) ==
  [kind |-> "failover", from |-> Candidate(w, i), to |-> Candidate(w, i + 1), reason |-> why]

Forwarded(b) == [kind |-> "forwarded", backend |-> b]

\* Mutant of Refused: a refusal that names no backend is counted by reason only.
RefusedIfNamed(b, reason, tier) ==
  LET rejection == [kind |-> "rejection", backend |-> b, reason |-> reason, tier |-> tier]
  IN  IF b = None THEN <<rejection>> ELSE <<[kind |-> "rejected", backend |-> b], rejection>>

\* A refusal is counted twice: by backend and by reason; None is the label "none".
Refused(b, reason, tier) ==
  <<[kind |-> "rejected", backend |-> b],
    [kind |-> "rejection", backend |-> b, reason |-> reason, tier |-> tier]>>

Answer(status, b, retry) == [status |-> status, backend |-> b, retry |-> retry]

\* Mutant of FirstLongest: a tie goes to the last reject.
LastLongest(rj, i) ==
  \A j \in DOMAIN rj : rj[j].retry < rj[i].retry \/ (rj[j].retry = rj[i].retry /\ i >= j)

\* Number i is the first reject, in walk order, with the longest Retry-After.
FirstLongest(rj, i) ==
  \A j \in DOMAIN rj : rj[j].retry < rj[i].retry \/ (rj[j].retry = rj[i].retry /\ i <= j)

\* Candidate k admits the request: charge it, remember anchor_seq, and await.
Attempt(r, w, k, c, rj, ev) ==
  LET b      == Candidate(w, k)
      charge == Charge(b, w.ctx)
      open   == ~fresh[b]
  IN  /\ pc' = [pc EXCEPT ![r] = "proxy"]
      /\ off' = [off EXCEPT ![r] = k]
      /\ rejects' = [rejects EXCEPT ![r] = rj]
      /\ events' = [events EXCEPT ![r] = ev]
      /\ counter' = [c EXCEPT ![b] = Minus(@, charge)]
      /\ hold' = [hold EXCEPT ![r] =
           [backend |-> b, charge |-> charge, seq |-> anchor_seq[b],
            took |-> c[b] # None, open |-> open, live |-> TRUE]]
      /\ blind' = [blind EXCEPT ![b] = IF open /\ c[b] # None THEN @ + charge ELSE @]
      /\ UNCHANGED reply

\* No candidate is left: 429 if any rejected, else the last candidate's 5xx if
\* it answered (`final` is that backend, or None), else 502.
Exhaust(r, w, c, rj, ev, final) ==
  /\ off' = [off EXCEPT ![r] = Len(w.cands)]
  /\ rejects' = [rejects EXCEPT ![r] = rj]
  /\ hold' = [hold EXCEPT ![r].live = FALSE]
  /\ counter' = c
  /\ UNCHANGED blind
  /\ \/ /\ \E i \in DOMAIN rj :
             /\ FirstLongest(rj, i)
             /\ events' = [events EXCEPT ![r] =
                  ev \o Refused(rj[i].backend, rj[i].reason, rj[i].tier)]
             /\ reply' = [reply EXCEPT ![r] = Answer("429", rj[i].backend, rj[i].retry)]
        /\ pc' = [pc EXCEPT ![r] =
             IF final # None /\ w.stream THEN "release429" ELSE "done"]
     \/ /\ rj = <<>> /\ final # None
        /\ events' = [events EXCEPT ![r] = Append(ev, Forwarded(final))]
        /\ reply' = [reply EXCEPT ![r] = Answer("5xx", final, None)]
        /\ pc' = [pc EXCEPT ![r] = "done"]
     \/ /\ rj = <<>> /\ final = None
        /\ events' = [events EXCEPT ![r] = ev \o Refused(None, "all_backends_failed", None)]
        /\ reply' = [reply EXCEPT ![r] = Answer("502", None, None)]
        /\ pc' = [pc EXCEPT ![r] = "done"]

\* Resume the walk of r at offset `from`, with counters c and the events ev so
\* far: candidates from..k-1 reject, and candidate k admits or none is left.
Resume(r, w, from, c, ev, final) ==
  LET n == Len(w.cands)
  IN  \E k \in from..n :
        /\ \A i \in from..(k - 1) : ~Dec(w, i, c).allow
        /\ LET rj    == rejects[r] \o [i \in 1..(k - from) |-> RejectOf(w, from + i - 1, c)]
               skips == (IF k < n THEN k ELSE n - 1) - from
               evk   == ev \o [i \in 1..skips |-> Failover(w, from + i - 1, "reject")]
           IN  \/ k < n /\ Dec(w, k, c).allow /\ Attempt(r, w, k, c, rj, evk)
               \/ k = n /\ Exhaust(r, w, c, rj, evk, final)

-----------------------------------------------------------------------------
(* The handler's steps.                                                       *)

\* The request's body is read: resolve, select, and walk to the first await.
Arrive(r) ==
  /\ pc[r] = "new"
  /\ \E input \in Inputs : \E w \in Walks(input) :
       /\ walk' = [walk EXCEPT ![r] = w]
       /\ Resume(r, w, 0, counter, <<>>, None)
  /\ UNCHANGED <<usage, fresh, capacity, anchor_seq, alert, seen, anchor, owned, rr>>

handlerFrame ==
  UNCHANGED <<usage, fresh, capacity, anchor_seq, alert, seen, anchor, owned, walk>>

\* Mutant of UpstreamOk: the index moves on from where this walk found it.
UpstreamOkFromStart(r) ==
  LET w == walk[r]
  IN  /\ pc[r] = "proxy"
      /\ pc' = [pc EXCEPT ![r] = "done"]
      /\ rr' = [rr EXCEPT ![w.model] = (w.start + 1) % Len(w.cands)]
      /\ events' = [events EXCEPT ![r] = Append(@, Forwarded(Candidate(w, off[r])))]
      /\ reply' = [reply EXCEPT ![r] = Answer("ok", Candidate(w, off[r]), None)]
      /\ handlerFrame
      /\ UNCHANGED <<off, rejects, hold, counter, blind>>

\* The upstream answers below 500: its answer is the client's.
UpstreamOk(r) ==
  LET w == walk[r]
  IN  /\ pc[r] = "proxy"
      /\ pc' = [pc EXCEPT ![r] = "done"]
      /\ rr' = [rr EXCEPT ![w.model] = (@ + 1) % Len(w.cands)]
      /\ events' = [events EXCEPT ![r] = Append(@, Forwarded(Candidate(w, off[r])))]
      /\ reply' = [reply EXCEPT ![r] = Answer("ok", Candidate(w, off[r]), None)]
      /\ handlerFrame
      /\ UNCHANGED <<off, rejects, hold, counter, blind>>

\* Mutant of RolledBack: the charge goes back whatever was polled meanwhile.
RolledBackAlways(h) == [counter EXCEPT ![h.backend] = Plus(@, h.charge)]

\* The charge goes back only if the backend was not re-anchored meanwhile.
RolledBack(h) ==
  IF anchor_seq[h.backend] = h.seq
  THEN [counter EXCEPT ![h.backend] = Plus(@, h.charge)] ELSE counter

IsLast(r) == off[r] + 1 = Len(walk[r].cands)

\* The events once the candidate r is at has been skipped for the reason why.
Skipped(r, why) ==
  IF IsLast(r) THEN events[r] ELSE Append(events[r], Failover(walk[r], off[r], why))

\* Mutant of UpstreamTransportError: the offset wraps with the candidates, so
\* that the walk never runs out of them.
TransportErrorWraps(r) ==
  /\ pc[r] = "proxy"
  /\ Resume(r, walk[r], (off[r] + 1) % Len(walk[r].cands), RolledBack(hold[r]), events[r], None)
  /\ handlerFrame /\ UNCHANGED rr

\* The proxied call raises httpx.TransportError.
UpstreamTransportError(r) ==
  /\ pc[r] = "proxy"
  /\ Resume(r, walk[r], off[r] + 1, RolledBack(hold[r]), Skipped(r, "transport"), None)
  /\ handlerFrame /\ UNCHANGED rr

\* A 5xx is skipped, unless it is the last candidate's.
Upstream5xx(r) ==
  /\ pc[r] = "proxy"
  /\ IsLast(r) \/ ~walk[r].stream
  /\ Resume(r, walk[r], off[r] + 1, RolledBack(hold[r]), Skipped(r, "upstream_5xx"),
            IF IsLast(r) THEN hold[r].backend ELSE None)
  /\ handlerFrame /\ UNCHANGED rr

\* A streaming 5xx that is skipped is released first, which awaits.
Upstream5xxDiscarded(r) ==
  /\ pc[r] = "proxy"
  /\ ~IsLast(r) /\ walk[r].stream
  /\ pc' = [pc EXCEPT ![r] = "release"]
  /\ counter' = RolledBack(hold[r])
  /\ hold' = [hold EXCEPT ![r].live = FALSE]
  /\ handlerFrame /\ UNCHANGED <<off, rejects, events, reply, rr, blind>>

\* Mutant of Released: the candidate whose body was released is asked again.
ReleasedAsksAgain(r) ==
  /\ pc[r] = "release"
  /\ Resume(r, walk[r], off[r], counter, events[r], None)
  /\ handlerFrame /\ UNCHANGED rr

Released(r) ==
  /\ pc[r] = "release"
  /\ Resume(r, walk[r], off[r] + 1, counter, Skipped(r, "upstream_5xx"), None)
  /\ handlerFrame /\ UNCHANGED rr

\* The last candidate's 5xx is released and the 429 already decided is sent.
Released429(r) ==
  /\ pc[r] = "release429"
  /\ pc' = [pc EXCEPT ![r] = "done"]
  /\ handlerFrame
  /\ UNCHANGED <<off, rejects, hold, events, reply, rr, blind, counter>>

\* Any other exception leaves the handler: a decoding error of the proxied
\* call, or whatever reading the first chunk of a discarded body raises.
Raises(r) ==
  /\ \/ pc[r] = "proxy" /\ ~walk[r].stream
     \/ pc[r] \in {"release", "release429"}
  /\ pc' = [pc EXCEPT ![r] = "done"]
  /\ reply' = [reply EXCEPT ![r] = Answer("500", None, None)]
  /\ handlerFrame
  /\ UNCHANGED <<off, rejects, hold, events, rr, blind, counter>>

-----------------------------------------------------------------------------
(* The pollers' steps.                                                        *)

PollMetrics(b) ==
  /\ \E s \in Samples[b] :
       /\ MetricsTick(b, s)
       /\ blind' = [blind EXCEPT ![b] = IF Anchors(s) THEN 0 ELSE @]
  /\ UNCHANGED <<owned, pc, walk, off, rejects, hold, events, reply, rr>>

Ages(b) == FeedAges(b) /\ UNCHANGED <<owned, walkVars>>

PollModels(b) ==
  /\ \E discovered \in Served : Discover(b, discovered)
  /\ UNCHANGED <<feedVars, walkVars>>

Handler(r) ==
  \/ Arrive(r)
  \/ UpstreamOk(r)
  \/ UpstreamTransportError(r)
  \/ Upstream5xx(r)
  \/ Upstream5xxDiscarded(r)
  \/ Released(r)
  \/ Released429(r)
  \/ Raises(r)

Poller(b) == PollMetrics(b) \/ Ages(b) \/ PollModels(b)

Next == (\E r \in Requests : Handler(r)) \/ (\E b \in Backends : Poller(b))

Spec == Init /\ [][Next]_vars

\* The loop runs a ready handler, and every proxied call or release ends: the
\* upstream client has no read timeout (app.py's lifespan), so the latter is an
\* assumption on the upstreams.  Nothing is assumed of the pollers.
FairSpec == Spec /\ \A r \in Requests : WF_vars(Handler(r))

-----------------------------------------------------------------------------
(* Refinement: the counters with the anchor_seq guard implement the ledger of *)
(* KvLedger.  A request holds a claim while its call is in flight and its     *)
(* charge would be rolled back into an anchored counter.                      *)

\* The value that stands for no claim is not a claim.
ASSUME ClaimAssumption == None \notin [backend : Backends, amount : Nat]

ClaimOf(r) ==
  LET h == hold[r]
  IN  IF pc[r] = "proxy" /\ counter[h.backend] # None /\ anchor_seq[h.backend] = h.seq
      THEN [backend |-> h.backend, amount |-> h.charge] ELSE None

Charges == {Charge(b, input.ctx) : b \in Backends, input \in Inputs}

AnchorLevels(b) ==
  {AnchorRemaining(b, s.capacity, s.usage) : s \in {s \in Samples[b] : Anchors(s)}}

Ledger == INSTANCE KvLedger WITH
  Void <- None,
  Levels <- UNION {AnchorLevels(b) : b \in Backends},
  Amounts <- Charges,
  avail <- counter,
  claims <- [r \in Requests |-> ClaimOf(r)]

LedgerSpec == Ledger!Spec

-----------------------------------------------------------------------------
(* Properties.                                                                *)

\* A rollback gives back only what was taken: when the anchor_seq guard of
\* app.py:722 and 741 would re-add the charge to an anchored counter, that
\* charge was subtracted from this very anchor, never skipped while unanchored.
RollbackIsOwed ==
  \A r \in Requests :
    LET h == hold[r]
    IN  pc[r] = "proxy" /\ counter[h.backend] # None /\ h.seq = anchor_seq[h.backend]
          => h.took

\* The headroom goes below zero only by what was charged failing open since
\* the anchor: no interleaving of admissions, rollbacks and re-anchors lets
\* fresh decisions over-commit a backend.
OvercommitOnlyFailingOpen ==
  \A b \in Backends : counter[b] # None => counter[b] >= -blind[b]

\* Whatever the pollers do meanwhile, a walk ends and its client is answered:
\* no sequence of rejects, failures and re-anchors keeps a request going.
EveryRequestAnswered == \A r \in Requests : pc[r] = "proxy" ~> pc[r] = "done"
=============================================================================
