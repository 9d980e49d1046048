-------------------------- MODULE FailoverWalkProofs -------------------------
(* Theorems of FailoverWalk, for any number of backends, requests and anchors *)
(* and for every configuration that GateConfig admits.                        *)
EXTENDS WalkProperties, ComponentProofs, SequenceTheorems

-----------------------------------------------------------------------------
(* Candidate lists and the walk over them.                                    *)

\* A function on 1..n is a sequence of length n.
LEMMA FunctionIsSeq ==
  ASSUME NEW S, NEW n \in Nat, NEW f \in [1..n -> S]
  PROVE  f \in Seq(S) /\ Len(f) = n
  OBVIOUS

\* A candidate list is a non-empty sequence of backends.
LEMMA CandidateListFacts ==
  ASSUME NEW cs \in CandidateLists
  PROVE  /\ cs \in Seq(Backends)
         /\ Len(cs) \in Nat \ {0}
         /\ cs # <<>>
<1>1. PICK n \in 1..Len(BackendOrder) : cs \in [1..n -> Backends]
  BY DEF CandidateLists
<1>2. Len(BackendOrder) \in Nat
  BY ConfigAssumption DEF ValidBackends
<1>3. n \in Nat \ {0}
  BY <1>2
<1>4. cs \in Seq(Backends) /\ Len(cs) = n
  BY <1>1, <1>3, FunctionIsSeq
<1> QED
  BY <1>3, <1>4

\* The default backend is a backend, and by itself a candidate list.
LEMMA DefaultBackendFacts ==
  DefaultBackend \in Backends /\ <<DefaultBackend>> \in CandidateLists
<1>1. BackendOrder \in Seq(Backends) /\ BackendOrder # <<>> /\ FlaggedDefault \subseteq Backends
  BY ConfigAssumption DEF ValidBackends
<1>2. Len(BackendOrder) \in Nat \ {0} /\ BackendOrder[1] \in Backends
  BY <1>1
<1>3. DefaultBackend \in Backends
  BY <1>1, <1>2 DEF DefaultBackend
<1> DEFINE cs == <<DefaultBackend>>
<1>4. cs \in [1..1 -> Backends] /\ DOMAIN cs = 1..1
  BY <1>3
<1>5. 1 \in 1..Len(BackendOrder)
  BY <1>2
<1>6. \A i, j \in DOMAIN cs : cs[i] = cs[j] => i = j
  BY <1>4
<1> HIDE DEF cs
<1> QED
  BY <1>3, <1>4, <1>5, <1>6 DEF CandidateLists, cs

\* Every offset of a walk names a backend of its list.
LEMMA CandidateInBackends ==
  ASSUME NEW w \in Walk, NEW i \in Nat
  PROVE  Candidate(w, i) \in Backends
<1> DEFINE n == Len(w.cands)
           k == (w.start + i) % n
<1>1. w.cands \in CandidateLists /\ w.start \in Nat
  BY DEF Walk
<1>2. w.cands \in Seq(Backends) /\ n \in Nat \ {0}
  BY <1>1, CandidateListFacts
<1>3. k \in 0..(n - 1)
  <2> HIDE DEF n
  <2> QED BY <1>1, <1>2
<1>4. k + 1 \in 1..n
  <2> HIDE DEF n, k
  <2> QED BY <1>2, <1>3
<1>5. w.cands[k + 1] \in Backends
  <2> HIDE DEF k
  <2> QED BY <1>2, <1>4
<1> QED
  BY <1>5 DEF Candidate, WalkAt, WalkIndex, At

-----------------------------------------------------------------------------
(* A handler sets out on a walk.                                              *)

\* What a handler reads of the feeds is well-formed.
LEMMA ViewsType ==
  ASSUME FeedTypeOK
  PROVE  Views \in [Backends -> CandidateView]
<1>1. ASSUME NEW b \in Backends PROVE View(b) \in CandidateView
  <2>1. /\ usage[b] \in IntOrNone /\ counter[b] \in IntOrNone
        /\ capacity[b] \in NatOrNone /\ None \in IntOrNone
    BY DEF FeedTypeOK, IntOrNone
  <2> QED BY <2>1 DEF View, CandidateView
<1> QED
  BY <1>1 DEF Views

\* The routing entry in effect names one of the five policies.
LEMMA SpecInEffectPolicy ==
  ASSUME NEW m \in Models
  PROVE  SpecInEffect(m).policy \in Policies
<1>1. m \in DOMAIN RoutingSpecs => RoutingSpecs[m].policy \in Policies
  BY ConfigAssumption DEF ValidRouting, RoutingSpec
<1>2. \A cs : RoundRobinOver(cs).policy = "round_robin"
  BY DEF RoundRobinOver
<1>3. SpecOf(m).policy \in Policies
  BY <1>1, <1>2 DEF SpecOf, Policies
<1> QED
  BY <1>2, <1>3 DEF SpecInEffect, Policies

\* Whatever the policy, a walk starts at an index of its list.
LEMMA StartIndexRange ==
  ASSUME FeedTypeOK, rr \in [Models -> Nat], NEW input \in Input,
         NEW cs \in CandidateLists
  PROVE  StartIndex(input, SpecInEffect(input.model), cs) \in 0..(Len(cs) - 1)
<1> DEFINE spec     == SpecInEffect(input.model)
           selected == SelectBackend(spec, cs, input.ctx, Views)
           i0       == IF selected = None THEN 0 ELSE selected
           turn     == rr[input.model]
           n        == Len(cs)
<1>1. input.model \in Models /\ input.ctx \in NatOrNone
  BY DEF Input
<1>2. cs \in Seq(Backends) /\ n \in Nat \ {0} /\ cs # <<>>
  BY CandidateListFacts
<1>3. spec.policy \in Policies
  BY <1>1, SpecInEffectPolicy
<1>4. Views \in [Backends -> CandidateView]
  BY ViewsType
<1>5. selected \in Indices(cs) \/ selected = None
  <2> HIDE DEF spec
  <2> QED BY <1>1, <1>2, <1>3, <1>4, SelectBackendRange
<1>6. i0 \in 0..(n - 1)
  <2> HIDE DEF selected
  <2>1. 0 \in 0..(n - 1)
    <3> HIDE DEF n
    <3> QED BY <1>2
  <2> QED BY <1>5, <2>1 DEF Indices
<1>7. turn \in Nat
  BY <1>1
<1> HIDE DEF selected, i0, turn, n
<1>8. (i0 + (turn % n)) % n \in 0..(n - 1)
  <2>1. turn % n \in Nat
    BY <1>2, <1>7
  <2>2. i0 + (turn % n) \in Nat
    BY <1>6, <2>1
  <2> QED BY <1>2, <2>2
<1> QED
  BY <1>6, <1>8 DEF StartIndex, selected, i0, turn, n

LEMMA WalksType ==
  ASSUME FeedTypeOK, rr \in [Models -> Nat], NEW input \in Input,
         NEW w \in Walks(input)
  PROVE  w \in Walk
<1>1. PICK cs \in CandidateLists :
        w = [model |-> input.model, ctx |-> input.ctx, stream |-> input.stream,
             cands |-> cs, start |-> StartIndex(input, SpecInEffect(input.model), cs)]
  BY DEF Walks
<1> DEFINE start == StartIndex(input, SpecInEffect(input.model), cs)
<1>2. start \in Nat
  <2>1. start \in 0..(Len(cs) - 1)
    BY StartIndexRange
  <2>2. Len(cs) \in Nat
    BY CandidateListFacts
  <2> HIDE DEF start
  <2> QED BY <2>1, <2>2
<1>3. input.model \in Models /\ input.ctx \in NatOrNone /\ input.stream \in BOOLEAN
  BY DEF Input
<1> HIDE DEF start
<1> QED
  BY <1>1, <1>2, <1>3 DEF Walk, start

-----------------------------------------------------------------------------
(* One turn of the walk.                                                      *)

\* The decision on a candidate, against any counters.
LEMMA DecFacts ==
  ASSUME FeedTypeOK, NEW w \in Walk, NEW i \in Nat, NEW c \in [Backends -> IntOrNone]
  PROVE  LET b == Candidate(w, i)
         IN  /\ b \in Backends
             /\ Dec(w, i, c) \in Decision
             /\ ~Dec(w, i, c).allow => Dec(w, i, c).retry \in Nat \ {0}
             /\ (/\ Dec(w, i, c).allow
                 /\ fresh[b] /\ usage[b] # None /\ c[b] # None /\ w.ctx # None)
                  => Charge(b, w.ctx) <= c[b]
<1> DEFINE b == Candidate(w, i)
<1>1. b \in Backends
  BY CandidateInBackends
<1>2. Dec(w, i, c) = Evaluate(b, usage[b], fresh[b], c[b], w.ctx)
  BY DEF Dec
<1> HIDE DEF b
<1>3. /\ usage[b] \in IntOrNone /\ fresh[b] \in BOOLEAN /\ c[b] \in IntOrNone
      /\ w.ctx \in NatOrNone
  BY <1>1 DEF FeedTypeOK, Walk
<1> QED
  BY <1>1, <1>2, <1>3, EvaluateFacts DEF b

\* The rejects of a run of rejected candidates are a sequence of rejects.
LEMMA RejectRunType ==
  ASSUME FeedTypeOK, NEW w \in Walk, NEW from \in Nat, NEW k \in Nat, from <= k,
         NEW c \in [Backends -> IntOrNone], \A i \in from..(k - 1) : ~Dec(w, i, c).allow
  PROVE  [i \in 1..(k - from) |-> RejectOf(w, from + i - 1, c)] \in Seq(Reject)
<1> DEFINE n == k - from
           run == [i \in 1..n |-> RejectOf(w, from + i - 1, c)]
<1>1. n \in Nat
  OBVIOUS
<1>2. ASSUME NEW i \in 1..n
      PROVE  RejectOf(w, from + i - 1, c) \in Reject
  <2> DEFINE j == from + i - 1
             d == Dec(w, j, c)
  <2>1. j \in Nat /\ j \in from..(k - 1)
    BY <1>1
  <2> HIDE DEF j
  <2>2. d \in Decision /\ d.retry \in Nat /\ Candidate(w, j) \in Backends
    BY <2>1, DecFacts
  <2> HIDE DEF d
  <2>3. d.tier \in (0..100) \cup {None} /\ d.reason \in Reasons
    BY <2>2 DEF Decision
  <2>4. RejectOf(w, j, c) = [backend |-> Candidate(w, j), retry |-> d.retry,
                             tier |-> d.tier, reason |-> d.reason]
    BY DEF RejectOf, d
  <2>5. RejectOf(w, j, c) \in Reject
    BY <2>2, <2>3, <2>4 DEF Reject
  <2> QED BY <2>5 DEF j
<1>3. run \in [1..n -> Reject]
  <2> HIDE DEF n
  <2> QED BY <1>2
<1> HIDE DEF n
<1>4. run \in Seq(Reject)
  <2> HIDE DEF run
  <2> QED BY <1>1, <1>3, FunctionIsSeq
<1> QED
  BY <1>4 DEF n

\* Each of the two kinds of event a turn of the walk adds is an event.
LEMMA EventTypes ==
  /\ \A b, c \in Backends, why \in FailoverReasons :
       [kind |-> "failover", from |-> b, to |-> c, reason |-> why] \in Event
  /\ \A b \in Backends : Forwarded(b) \in Event
  /\ \A b \in Backends \cup {None}, reason \in Reasons \cup {"all_backends_failed"},
        tier \in (0..100) \cup {None} :
       Refused(b, reason, tier) \in Seq(Event)
<1>1. \A b, c \in Backends, why \in FailoverReasons :
        [kind |-> "failover", from |-> b, to |-> c, reason |-> why] \in Event
  BY DEF Event
<1>2. \A b \in Backends : Forwarded(b) \in Event
  BY DEF Event, Forwarded
<1>3. ASSUME NEW b \in Backends \cup {None},
             NEW reason \in Reasons \cup {"all_backends_failed"},
             NEW tier \in (0..100) \cup {None}
      PROVE  Refused(b, reason, tier) \in Seq(Event)
  <2> DEFINE first  == [kind |-> "rejected", backend |-> b]
             second == [kind |-> "rejection", backend |-> b, reason |-> reason, tier |-> tier]
  <2>1. first \in Event
    BY DEF Event
  <2>2. second \in Event
    BY DEF Event
  <2> HIDE DEF first, second
  <2>3. <<first, second>> \in Seq(Event)
    BY <2>1, <2>2
  <2> QED BY <2>3 DEF Refused, first, second
<1> QED
  BY <1>1, <1>2, <1>3

\* So is a failover from one candidate of a walk to the next.
LEMMA FailoverType ==
  ASSUME NEW w \in Walk, NEW i \in Nat, NEW why \in FailoverReasons
  PROVE  Failover(w, i, why) \in Event
<1>1. Candidate(w, i) \in Backends /\ Candidate(w, i + 1) \in Backends
  BY CandidateInBackends
<1> QED
  BY <1>1, EventTypes DEF Failover

LEMMA FailoverRunType ==
  ASSUME NEW w \in Walk, NEW from \in Nat, NEW n \in Int
  PROVE  LET run == [i \in 1..n |-> Failover(w, from + i - 1, "reject")]
         IN  run \in Seq(Event) /\ Len(run) = IF n < 0 THEN 0 ELSE n
<1> DEFINE run == [i \in 1..n |-> Failover(w, from + i - 1, "reject")]
<1>1. ASSUME NEW i \in 1..n PROVE Failover(w, from + i - 1, "reject") \in Event
  <2> DEFINE j == from + i - 1
  <2>1. j \in Nat /\ "reject" \in FailoverReasons
    BY DEF FailoverReasons
  <2> HIDE DEF j
  <2>2. Failover(w, j, "reject") \in Event
    BY <2>1, FailoverType
  <2> QED BY <2>2 DEF j
<1>2. run \in [1..n -> Event]
  BY <1>1
<1>3. CASE n \in Nat
  <2> HIDE DEF run
  <2>1. run \in Seq(Event) /\ Len(run) = n
    BY <1>2, <1>3, FunctionIsSeq
  <2> QED BY <1>3, <2>1 DEF run
<1>4. CASE n < 0
  <2>1. 1..n = 1..0
    BY <1>4
  <2>2. run \in [1..0 -> Event] /\ 0 \in Nat
    BY <1>2, <2>1
  <2> HIDE DEF run
  <2>3. run \in Seq(Event) /\ Len(run) = 0
    BY <2>2, FunctionIsSeq
  <2> QED BY <1>4, <2>3 DEF run
<1>5. n \in Nat \/ n < 0
  OBVIOUS
<1> QED
  BY <1>3, <1>4, <1>5

-----------------------------------------------------------------------------
(* A turn keeps the types of what it changes.                                 *)

Counters == [Backends -> IntOrNone]

TurnTypeOK ==
  /\ pc \in [Requests -> Places]
  /\ off \in [Requests -> Nat]
  /\ rejects \in [Requests -> Seq(Reject)]
  /\ hold \in [Requests -> Hold]
  /\ events \in [Requests -> Seq(Event)]
  /\ reply \in [Requests -> Reply]
  /\ counter \in Counters
  /\ blind \in [Backends -> Nat]

LEMMA MinusPlusType ==
  ASSUME NEW x \in IntOrNone, NEW n \in Nat
  PROVE  /\ Minus(x, n) \in IntOrNone /\ Plus(x, n) \in IntOrNone
         /\ Minus(x, n) = None <=> x = None
         /\ Plus(x, n) = None <=> x = None
         /\ x # None => Minus(x, n) = x - n /\ Plus(x, n) = x + n
  BY ConfigAssumption DEF Minus, Plus, IntOrNone

LEMMA AttemptType ==
  ASSUME TypeOK, NEW r \in Requests, NEW w \in Walk, NEW k \in Nat, NEW c \in Counters,
         NEW rj \in Seq(Reject), NEW ev \in Seq(Event), Attempt(r, w, k, c, rj, ev)
  PROVE  TurnTypeOK'
<1> DEFINE b      == Candidate(w, k)
           charge == Charge(b, w.ctx)
           open   == ~fresh[b]
           taken  == [backend |-> b, charge |-> charge, seq |-> anchor_seq[b],
                      took |-> c[b] # None, open |-> open, live |-> TRUE]
<1>1. b \in Backends /\ charge \in Nat
  <2>1. b \in Backends /\ w.ctx \in NatOrNone
    BY CandidateInBackends DEF Walk
  <2> QED BY <2>1, ChargeNat
<1>2. anchor_seq[b] \in Nat /\ c[b] \in IntOrNone /\ blind[b] \in Nat
  BY <1>1 DEF TypeOK, FeedTypeOK, Counters
<1>3. /\ pc' = [pc EXCEPT ![r] = "proxy"]
      /\ off' = [off EXCEPT ![r] = k]
      /\ rejects' = [rejects EXCEPT ![r] = rj]
      /\ events' = [events EXCEPT ![r] = ev]
      /\ counter' = [c EXCEPT ![b] = Minus(c[b], charge)]
      /\ hold' = [hold EXCEPT ![r] = taken]
      /\ blind' = [blind EXCEPT ![b] =
           IF open /\ c[b] # None THEN blind[b] + charge ELSE blind[b]]
      /\ reply' = reply
  BY DEF Attempt
<1> HIDE DEF b, charge, open, taken
<1>4. pc' \in [Requests -> Places]
  BY <1>3 DEF TypeOK, Places
<1>5. off' \in [Requests -> Nat]
  BY <1>3 DEF TypeOK
<1>6. rejects' \in [Requests -> Seq(Reject)]
  BY <1>3 DEF TypeOK
<1>7. events' \in [Requests -> Seq(Event)]
  BY <1>3 DEF TypeOK
<1>8. hold' \in [Requests -> Hold]
  <2>1. (c[b] # None) \in BOOLEAN /\ open \in BOOLEAN
    BY DEF open
  <2>2. taken \in Hold
    BY <1>1, <1>2, <2>1 DEF taken, Hold
  <2> QED BY <1>3, <2>2 DEF TypeOK
<1>9. counter' \in Counters
  <2>1. Minus(c[b], charge) \in IntOrNone
    BY <1>1, <1>2, MinusPlusType
  <2> QED BY <1>3, <2>1 DEF Counters
<1>10. blind' \in [Backends -> Nat]
  <2>1. (IF open /\ c[b] # None THEN blind[b] + charge ELSE blind[b]) \in Nat
    BY <1>1, <1>2
  <2> QED BY <1>3, <2>1 DEF TypeOK
<1>11. reply' \in [Requests -> Reply]
  BY <1>3 DEF TypeOK
<1> QED
  BY <1>4, <1>5, <1>6, <1>7, <1>8, <1>9, <1>10, <1>11 DEF TurnTypeOK

\* The four kinds of answer the gate gives.
LEMMA AnswerType ==
  ASSUME NEW b \in Backends \cup {None}, NEW retry \in NatOrNone,
         NEW status \in {"none", "ok", "5xx", "429", "502", "500"}
  PROVE  Answer(status, b, retry) \in Reply
  BY DEF Answer, Reply

LEMMA ExhaustType ==
  ASSUME TypeOK, NEW r \in Requests, NEW w \in Walk, NEW c \in Counters,
         NEW rj \in Seq(Reject), NEW ev \in Seq(Event), NEW final \in Backends \cup {None},
         Exhaust(r, w, c, rj, ev, final)
  PROVE  TurnTypeOK'
<1>1. /\ off' = [off EXCEPT ![r] = Len(w.cands)]
      /\ rejects' = [rejects EXCEPT ![r] = rj]
      /\ hold' = [hold EXCEPT ![r].live = FALSE]
      /\ counter' = c
      /\ blind' = blind
  BY DEF Exhaust
<1>2. Len(w.cands) \in Nat
  BY CandidateListFacts DEF Walk
<1>3. off' \in [Requests -> Nat] /\ rejects' \in [Requests -> Seq(Reject)]
  BY <1>1, <1>2 DEF TypeOK
<1>4. hold' \in [Requests -> Hold]
  <2>1. hold[r] \in Hold
    BY DEF TypeOK
  <2>2. [hold[r] EXCEPT !.live = FALSE] \in Hold
    BY <2>1 DEF Hold
  <2> QED BY <1>1, <2>2 DEF TypeOK
<1>5. counter' \in Counters /\ blind' \in [Backends -> Nat]
  BY <1>1 DEF TypeOK
<1>6. PICK place \in {"release429", "done"} : pc' = [pc EXCEPT ![r] = place]
  BY DEF Exhaust
<1>7. pc' \in [Requests -> Places]
  BY <1>6 DEF TypeOK, Places
<1>8. \E evs \in Seq(Event), answer \in Reply :
        events' = [events EXCEPT ![r] = evs] /\ reply' = [reply EXCEPT ![r] = answer]
  <2>1. ASSUME NEW i \in DOMAIN rj,
               events' = [events EXCEPT ![r] =
                 ev \o Refused(rj[i].backend, rj[i].reason, rj[i].tier)],
               reply' = [reply EXCEPT ![r] = Answer("429", rj[i].backend, rj[i].retry)]
        PROVE  \E evs \in Seq(Event), answer \in Reply :
                 events' = [events EXCEPT ![r] = evs] /\ reply' = [reply EXCEPT ![r] = answer]
    <3>1. rj[i] \in Reject
      BY DEF TypeOK
    <3>2. /\ rj[i].backend \in Backends /\ rj[i].reason \in Reasons /\ rj[i].retry \in Nat
          /\ rj[i].tier \in (0..100) \cup {None}
      BY <3>1 DEF Reject
    <3>3. Refused(rj[i].backend, rj[i].reason, rj[i].tier) \in Seq(Event)
      BY <3>2, EventTypes
    <3>4. ev \o Refused(rj[i].backend, rj[i].reason, rj[i].tier) \in Seq(Event)
      BY <3>3, ConcatProperties
    <3>5. Answer("429", rj[i].backend, rj[i].retry) \in Reply
      BY <3>2, AnswerType DEF NatOrNone
    <3> QED BY <2>1, <3>4, <3>5
  <2>2. ASSUME final # None,
               events' = [events EXCEPT ![r] = Append(ev, Forwarded(final))],
               reply' = [reply EXCEPT ![r] = Answer("5xx", final, None)]
        PROVE  \E evs \in Seq(Event), answer \in Reply :
                 events' = [events EXCEPT ![r] = evs] /\ reply' = [reply EXCEPT ![r] = answer]
    <3>1. Forwarded(final) \in Event
      BY <2>2, EventTypes
    <3>2. Append(ev, Forwarded(final)) \in Seq(Event)
      BY <3>1
    <3>3. Answer("5xx", final, None) \in Reply
      BY AnswerType DEF NatOrNone
    <3> QED BY <2>2, <3>2, <3>3
  <2>3. ASSUME events' = [events EXCEPT ![r] = ev \o Refused(None, "all_backends_failed", None)],
               reply' = [reply EXCEPT ![r] = Answer("502", None, None)]
        PROVE  \E evs \in Seq(Event), answer \in Reply :
                 events' = [events EXCEPT ![r] = evs] /\ reply' = [reply EXCEPT ![r] = answer]
    <3>1. Refused(None, "all_backends_failed", None) \in Seq(Event)
      BY EventTypes
    <3>2. ev \o Refused(None, "all_backends_failed", None) \in Seq(Event)
      BY <3>1, ConcatProperties
    <3>3. Answer("502", None, None) \in Reply
      BY AnswerType DEF NatOrNone
    <3> QED BY <2>3, <3>2, <3>3
  <2> QED BY <2>1, <2>2, <2>3 DEF Exhaust
<1>9. events' \in [Requests -> Seq(Event)] /\ reply' \in [Requests -> Reply]
  BY <1>8 DEF TypeOK
<1> QED
  BY <1>3, <1>4, <1>5, <1>7, <1>9 DEF TurnTypeOK

\* Resuming a walk ends its turn in one of the two ways.
LEMMA ResumeTurn ==
  ASSUME TypeOK, NEW r \in Requests, NEW w \in Walk, NEW from \in Nat, NEW c \in Counters,
         NEW ev \in Seq(Event), NEW final, Resume(r, w, from, c, ev, final)
  PROVE  \E k \in Nat, rj \in Seq(Reject), evk \in Seq(Event) :
           \/ Dec(w, k, c).allow /\ Attempt(r, w, k, c, rj, evk)
           \/ Exhaust(r, w, c, rj, evk, final)
<1> DEFINE n        == Len(w.cands)
           run(k)   == [i \in 1..(k - from) |-> RejectOf(w, from + i - 1, c)]
           skips(k) == (IF k < n THEN k ELSE n - 1) - from
           fails(m) == [i \in 1..m |-> Failover(w, from + i - 1, "reject")]
<1>1. n \in Nat
  BY CandidateListFacts DEF Walk
<1>2. PICK k \in from..n :
        /\ \A i \in from..(k - 1) : ~Dec(w, i, c).allow
        /\ \/ /\ Dec(w, k, c).allow
              /\ Attempt(r, w, k, c, rejects[r] \o run(k), ev \o fails(skips(k)))
           \/ Exhaust(r, w, c, rejects[r] \o run(k), ev \o fails(skips(k)), final)
  BY DEF Resume
<1>3. k \in Nat /\ from <= k
  BY <1>1
<1>4. rejects[r] \o run(k) \in Seq(Reject)
  <2>1. run(k) \in Seq(Reject)
    <3>1. FeedTypeOK /\ c \in [Backends -> IntOrNone]
      BY DEF TypeOK, Counters
    <3>2. \A i \in from..(k - 1) : ~Dec(w, i, c).allow
      BY <1>2
    <3> QED BY <1>3, <3>1, <3>2, RejectRunType
  <2>2. rejects[r] \in Seq(Reject)
    BY DEF TypeOK
  <2> HIDE DEF run
  <2> QED BY <2>1, <2>2, ConcatProperties
<1>5. ev \o fails(skips(k)) \in Seq(Event)
  <2>1. skips(k) \in Int
    BY <1>1, <1>3
  <2> DEFINE m == skips(k)
  <2> HIDE DEF m
  <2>2. fails(m) \in Seq(Event)
    BY <2>1, FailoverRunType DEF m
  <2> HIDE DEF fails
  <2>3. ev \o fails(m) \in Seq(Event)
    BY <2>2, ConcatProperties
  <2> QED BY <2>3 DEF m
<1> HIDE DEF run, fails, skips, n
<1> QED
  BY <1>2, <1>3, <1>4, <1>5

LEMMA ResumeType ==
  ASSUME TypeOK, NEW r \in Requests, NEW w \in Walk, NEW from \in Nat, NEW c \in Counters,
         NEW ev \in Seq(Event), NEW final \in Backends \cup {None},
         Resume(r, w, from, c, ev, final)
  PROVE  TurnTypeOK'
<1>1. PICK k \in Nat, rj \in Seq(Reject), evk \in Seq(Event) :
        \/ Attempt(r, w, k, c, rj, evk)
        \/ Exhaust(r, w, c, rj, evk, final)
  BY ResumeTurn
<1> QED
  BY <1>1, AttemptType, ExhaustType

-----------------------------------------------------------------------------
(* What a handler's step does to the feeds.                                   *)

\* c is the counters with, at most, a charge given back to an anchored one.
Grown(c) ==
  /\ c \in Counters
  /\ \A b \in Backends :
       /\ c[b] = None <=> counter[b] = None
       /\ counter[b] # None => c[b] >= counter[b]

\* The handler of r charges a backend and awaits its answer: with a fresh
\* usage, only what fits.
Takes(r) ==
  \E b \in Backends, charge \in Nat, c \in Counters :
    /\ Grown(c)
    /\ pc' = [pc EXCEPT ![r] = "proxy"]
    /\ counter' = [c EXCEPT ![b] = Minus(c[b], charge)]
    /\ hold' = [hold EXCEPT ![r] =
         [backend |-> b, charge |-> charge, seq |-> anchor_seq[b],
          took |-> c[b] # None, open |-> ~fresh[b], live |-> TRUE]]
    /\ blind' = [blind EXCEPT ![b] =
         IF ~fresh[b] /\ c[b] # None THEN blind[b] + charge ELSE blind[b]]
    /\ fresh[b] /\ usage[b] # None /\ c[b] # None => charge = 0 \/ charge <= c[b]

\* The handler of r charges nothing and is not awaiting an upstream's answer.
Settles(r) ==
  \E c \in Counters, place \in Places \ {"proxy"} :
    /\ Grown(c)
    /\ pc' = [pc EXCEPT ![r] = place]
    /\ counter' = c
    /\ blind' = blind
    /\ \A q \in Requests \ {r} : hold'[q] = hold[q]

LEMMA CountersGrown ==
  ASSUME TypeOK
  PROVE  counter \in Counters /\ Grown(counter)
<1>1. counter \in Counters
  BY DEF TypeOK, FeedTypeOK, Counters
<1>2. \A b \in Backends : counter[b] # None => counter[b] \in Int
  BY <1>1 DEF Counters, IntOrNone
<1> QED
  BY <1>1, <1>2 DEF Grown

LEMMA RolledBackGrown ==
  ASSUME TypeOK, NEW h \in Hold
  PROVE  RolledBack(h) \in Counters /\ Grown(RolledBack(h))
<1>1. h.backend \in Backends /\ h.charge \in Nat
  BY DEF Hold
<1>2. counter \in Counters /\ Grown(counter)
  BY CountersGrown
<1>3. CASE anchor_seq[h.backend] = h.seq
  <2> DEFINE c == [counter EXCEPT ![h.backend] = Plus(counter[h.backend], h.charge)]
  <2>1. RolledBack(h) = c
    BY <1>3 DEF RolledBack
  <2>2. counter[h.backend] \in IntOrNone
    BY <1>1, <1>2 DEF Counters
  <2>3. /\ Plus(counter[h.backend], h.charge) \in IntOrNone
        /\ Plus(counter[h.backend], h.charge) = None <=> counter[h.backend] = None
        /\ counter[h.backend] # None =>
             Plus(counter[h.backend], h.charge) = counter[h.backend] + h.charge
    BY <1>1, <2>2, MinusPlusType
  <2>4. c \in Counters
    BY <1>2, <2>3 DEF Counters
  <2>5. ASSUME NEW b \in Backends
        PROVE  /\ c[b] = None <=> counter[b] = None
               /\ counter[b] # None => c[b] >= counter[b]
    <3>1. CASE b = h.backend
      <4>1. c[b] = Plus(counter[h.backend], h.charge)
        BY <1>2, <3>1 DEF Counters
      <4>2. counter[b] # None => counter[b] + h.charge >= counter[b]
        BY <1>1, <2>2, <3>1 DEF IntOrNone
      <4> QED BY <2>3, <3>1, <4>1, <4>2
    <3>2. CASE b # h.backend
      <4>1. c[b] = counter[b]
        BY <1>2, <3>2 DEF Counters
      <4> QED BY <1>2, <4>1 DEF Grown
    <3> QED BY <3>1, <3>2
  <2> HIDE DEF c
  <2> QED BY <2>1, <2>4, <2>5 DEF Grown
<1>4. CASE anchor_seq[h.backend] # h.seq
  BY <1>2, <1>4 DEF RolledBack
<1> QED
  BY <1>3, <1>4

LEMMA ResumeEffect ==
  ASSUME TypeOK, NEW r \in Requests, NEW w \in Walk, NEW from \in Nat, NEW c \in Counters,
         Grown(c), NEW ev \in Seq(Event), NEW final, Resume(r, w, from, c, ev, final)
  PROVE  Takes(r) \/ Settles(r)
<1>1. PICK k \in Nat, rj \in Seq(Reject), evk \in Seq(Event) :
        \/ Dec(w, k, c).allow /\ Attempt(r, w, k, c, rj, evk)
        \/ Exhaust(r, w, c, rj, evk, final)
  BY ResumeTurn
<1>2. CASE Dec(w, k, c).allow /\ Attempt(r, w, k, c, rj, evk)
  <2> DEFINE b      == Candidate(w, k)
             charge == Charge(b, w.ctx)
  <2>1. b \in Backends /\ charge \in Nat /\ (w.ctx = None => charge = 0)
    <3>1. b \in Backends /\ w.ctx \in NatOrNone
      BY CandidateInBackends DEF Walk
    <3> QED BY <3>1, ChargeNat
  <2>2. fresh[b] /\ usage[b] # None /\ c[b] # None /\ w.ctx # None => charge <= c[b]
    BY <1>2, DecFacts DEF TypeOK, Counters
  <2>3. /\ pc' = [pc EXCEPT ![r] = "proxy"]
        /\ counter' = [c EXCEPT ![b] = Minus(c[b], charge)]
        /\ hold' = [hold EXCEPT ![r] =
             [backend |-> b, charge |-> charge, seq |-> anchor_seq[b],
              took |-> c[b] # None, open |-> ~fresh[b], live |-> TRUE]]
        /\ blind' = [blind EXCEPT ![b] =
             IF ~fresh[b] /\ c[b] # None THEN blind[b] + charge ELSE blind[b]]
    BY <1>2 DEF Attempt
  <2> HIDE DEF b, charge
  <2> QED BY <2>1, <2>2, <2>3 DEF Takes
<1>3. CASE Exhaust(r, w, c, rj, evk, final)
  <2>1. counter' = c /\ blind' = blind /\ hold' = [hold EXCEPT ![r].live = FALSE]
    BY <1>3 DEF Exhaust
  <2>2. PICK place \in {"release429", "done"} : pc' = [pc EXCEPT ![r] = place]
    BY <1>3 DEF Exhaust
  <2>3. \A q \in Requests \ {r} : hold'[q] = hold[q]
    BY <2>1 DEF TypeOK
  <2>4. place \in Places \ {"proxy"}
    BY <2>2 DEF Places
  <2> QED BY <2>1, <2>2, <2>3, <2>4 DEF Settles
<1> QED
  BY <1>1, <1>2, <1>3

\* What the pollers own, no handler writes.
FeedFrame == UNCHANGED <<usage, fresh, capacity, anchor_seq, alert, seen, anchor, owned>>

\* The facts about a request's current candidate that its steps start from.
LEMMA AtCandidate ==
  ASSUME TypeOK, NEW r \in Requests
  PROVE  /\ walk[r] \in Walk /\ off[r] \in Nat /\ off[r] + 1 \in Nat
         /\ hold[r] \in Hold /\ hold[r].backend \in Backends
         /\ events[r] \in Seq(Event)
         /\ \A why \in FailoverReasons : Skipped(r, why) \in Seq(Event)
<1>1. walk[r] \in Walk /\ off[r] \in Nat /\ hold[r] \in Hold /\ events[r] \in Seq(Event)
  BY DEF TypeOK
<1>2. hold[r].backend \in Backends
  BY <1>1 DEF Hold
<1>3. ASSUME NEW why \in FailoverReasons PROVE Skipped(r, why) \in Seq(Event)
  <2>1. Failover(walk[r], off[r], why) \in Event
    BY <1>1, FailoverType
  <2> QED BY <1>1, <2>1 DEF Skipped
<1> QED
  BY <1>1, <1>2, <1>3

\* A step of a handler leaves the feeds' frame alone and either charges a
\* backend or settles.
LEMMA HandlerEffect ==
  ASSUME TypeOK, NEW r \in Requests, Handler(r)
  PROVE  FeedFrame /\ (Takes(r) \/ Settles(r))
<1> USE AtCandidate
<1>0. counter \in Counters /\ Grown(counter)
      /\ RolledBack(hold[r]) \in Counters /\ Grown(RolledBack(hold[r]))
  BY CountersGrown, RolledBackGrown
<1>1. CASE Arrive(r)
  <2>0. PICK input \in Inputs : \E w \in Walks(input) : Resume(r, w, 0, counter, <<>>, None)
    BY <1>1 DEF Arrive
  <2>1. PICK w \in Walks(input) : Resume(r, w, 0, counter, <<>>, None)
    BY <2>0
  <2>2. w \in Walk
    BY WalkAssumption, WalksType DEF TypeOK
  <2>3. <<>> \in Seq(Event)
    OBVIOUS
  <2>4. Takes(r) \/ Settles(r)
    BY <1>0, <2>1, <2>2, <2>3, ResumeEffect
  <2> QED BY <1>1, <2>4 DEF Arrive, FeedFrame
<1>2. CASE UpstreamOk(r)
  <2>1. pc' = [pc EXCEPT ![r] = "done"] /\ UNCHANGED <<hold, counter, blind>>
    BY <1>2 DEF UpstreamOk
  <2>2. "done" \in Places \ {"proxy"}
    BY DEF Places
  <2>3. Settles(r)
    BY <1>0, <2>1, <2>2 DEF Settles
  <2> QED BY <1>2, <2>3 DEF UpstreamOk, handlerFrame, FeedFrame
<1>3. CASE UpstreamTransportError(r)
  <2>1. Resume(r, walk[r], off[r] + 1, RolledBack(hold[r]), Skipped(r, "transport"), None)
    BY <1>3 DEF UpstreamTransportError
  <2>2. "transport" \in FailoverReasons
    BY DEF FailoverReasons
  <2>3. Takes(r) \/ Settles(r)
    BY <1>0, <2>1, <2>2, ResumeEffect
  <2> QED BY <1>3, <2>3 DEF UpstreamTransportError, handlerFrame, FeedFrame
<1>4. CASE Upstream5xx(r)
  <2>1. PICK final \in Backends \cup {None} :
          Resume(r, walk[r], off[r] + 1, RolledBack(hold[r]), Skipped(r, "upstream_5xx"), final)
    BY <1>4 DEF Upstream5xx
  <2>2. "upstream_5xx" \in FailoverReasons
    BY DEF FailoverReasons
  <2>3. Takes(r) \/ Settles(r)
    BY <1>0, <2>1, <2>2, ResumeEffect
  <2> QED BY <1>4, <2>3 DEF Upstream5xx, handlerFrame, FeedFrame
<1>5. CASE Upstream5xxDiscarded(r)
  <2>1. /\ pc' = [pc EXCEPT ![r] = "release"] /\ counter' = RolledBack(hold[r])
        /\ hold' = [hold EXCEPT ![r].live = FALSE] /\ blind' = blind
    BY <1>5 DEF Upstream5xxDiscarded
  <2>2. "release" \in Places \ {"proxy"} /\ \A q \in Requests \ {r} : hold'[q] = hold[q]
    BY <2>1 DEF Places, TypeOK
  <2>3. Settles(r)
    BY <1>0, <2>1, <2>2 DEF Settles
  <2> QED BY <1>5, <2>3 DEF Upstream5xxDiscarded, handlerFrame, FeedFrame
<1>6. CASE Released(r)
  <2>1. Resume(r, walk[r], off[r] + 1, counter, Skipped(r, "upstream_5xx"), None)
    BY <1>6 DEF Released
  <2>2. "upstream_5xx" \in FailoverReasons
    BY DEF FailoverReasons
  <2>3. Takes(r) \/ Settles(r)
    BY <1>0, <2>1, <2>2, ResumeEffect
  <2> QED BY <1>6, <2>3 DEF Released, handlerFrame, FeedFrame
<1>7. CASE Released429(r) \/ Raises(r)
  <2>1. pc' = [pc EXCEPT ![r] = "done"] /\ UNCHANGED <<hold, counter, blind>>
    BY <1>7 DEF Released429, Raises
  <2>2. "done" \in Places \ {"proxy"}
    BY DEF Places
  <2>3. Settles(r)
    BY <1>0, <2>1, <2>2 DEF Settles
  <2> QED BY <1>7, <2>3 DEF Released429, Raises, handlerFrame, FeedFrame
<1> QED
  BY <1>1, <1>2, <1>3, <1>4, <1>5, <1>6, <1>7 DEF Handler

\* A step of a handler keeps every type.
LEMMA HandlerType ==
  ASSUME TypeOK, NEW r \in Requests, Handler(r)
  PROVE  TypeOK'
<1> USE AtCandidate
<1>1. /\ counter \in Counters /\ RolledBack(hold[r]) \in Counters
      /\ {"transport", "upstream_5xx"} \subseteq FailoverReasons
  BY CountersGrown, RolledBackGrown DEF FailoverReasons
<1>2. ASSUME TurnTypeOK', FeedFrame, walk' \in [Requests -> Walk], rr' \in [Models -> Nat]
      PROVE  TypeOK'
  BY <1>2 DEF TurnTypeOK, Counters, TypeOK, FeedTypeOK, RegistryTypeOK, FeedFrame
<1>3. ASSUME TurnTypeOK', handlerFrame, UNCHANGED rr
      PROVE  TypeOK'
  <2>1. FeedFrame /\ walk' \in [Requests -> Walk] /\ rr' \in [Models -> Nat]
    BY <1>3 DEF handlerFrame, FeedFrame, TypeOK
  <2> QED BY <1>2, <1>3, <2>1
<1>4. CASE Arrive(r)
  <2>0. PICK input \in Inputs : \E w \in Walks(input) :
          walk' = [walk EXCEPT ![r] = w] /\ Resume(r, w, 0, counter, <<>>, None)
    BY <1>4 DEF Arrive
  <2>1. PICK w \in Walks(input) :
          walk' = [walk EXCEPT ![r] = w] /\ Resume(r, w, 0, counter, <<>>, None)
    BY <2>0
  <2>2. w \in Walk
    BY WalkAssumption, WalksType DEF TypeOK
  <2>3. <<>> \in Seq(Event)
    OBVIOUS
  <2>4. TurnTypeOK'
    BY <1>1, <2>1, <2>2, <2>3, ResumeType
  <2>5. FeedFrame /\ walk' \in [Requests -> Walk] /\ rr' \in [Models -> Nat]
    BY <1>4, <2>1, <2>2 DEF Arrive, FeedFrame, TypeOK
  <2> QED BY <1>2, <2>4, <2>5
<1>5. CASE UpstreamOk(r)
  <2> DEFINE w == walk[r]
             b == Candidate(w, off[r])
             turn == (rr[w.model] + 1) % Len(w.cands)
  <2>1. /\ pc' = [pc EXCEPT ![r] = "done"]
        /\ rr' = [rr EXCEPT ![w.model] = turn]
        /\ events' = [events EXCEPT ![r] = Append(events[r], Forwarded(b))]
        /\ reply' = [reply EXCEPT ![r] = Answer("ok", b, None)]
        /\ handlerFrame
        /\ UNCHANGED <<off, rejects, hold, counter, blind>>
    BY <1>5 DEF UpstreamOk
  <2>2. b \in Backends /\ w.model \in Models /\ w.cands \in CandidateLists
    BY CandidateInBackends DEF Walk
  <2>3. turn \in Nat
    <3>1. rr[w.model] \in Nat /\ Len(w.cands) \in Nat \ {0}
      BY <2>2, CandidateListFacts DEF TypeOK
    <3> DEFINE n == Len(w.cands)
    <3> HIDE DEF n
    <3> QED BY <3>1 DEF n
  <2> HIDE DEF b, turn
  <2>4. Forwarded(b) \in Event /\ Answer("ok", b, None) \in Reply
    BY <2>2, EventTypes, AnswerType DEF NatOrNone
  <2>5. Append(events[r], Forwarded(b)) \in Seq(Event)
    BY <2>4
  <2>6. events' \in [Requests -> Seq(Event)] /\ reply' \in [Requests -> Reply]
    BY <2>1, <2>4, <2>5 DEF TypeOK
  <2>7. pc' \in [Requests -> Places] /\ rr' \in [Models -> Nat]
    BY <2>1, <2>3 DEF TypeOK, Places
  <2>8. TurnTypeOK'
    BY <1>1, <2>1, <2>6, <2>7 DEF TurnTypeOK, TypeOK
  <2>9. FeedFrame /\ walk' \in [Requests -> Walk]
    BY <2>1 DEF handlerFrame, FeedFrame, TypeOK
  <2> QED BY <1>2, <2>7, <2>8, <2>9
<1>6. CASE UpstreamTransportError(r)
  <2>1. Resume(r, walk[r], off[r] + 1, RolledBack(hold[r]), Skipped(r, "transport"), None)
        /\ handlerFrame /\ UNCHANGED rr
    BY <1>6 DEF UpstreamTransportError
  <2>2. TurnTypeOK'
    BY <1>1, <2>1, ResumeType
  <2> QED BY <1>3, <2>1, <2>2
<1>7. CASE Upstream5xx(r)
  <2>1. PICK final \in Backends \cup {None} :
          Resume(r, walk[r], off[r] + 1, RolledBack(hold[r]), Skipped(r, "upstream_5xx"), final)
    BY <1>7 DEF Upstream5xx
  <2>2. TurnTypeOK'
    BY <1>1, <2>1, ResumeType
  <2> QED BY <1>3, <1>7, <2>2 DEF Upstream5xx
<1>8. CASE Upstream5xxDiscarded(r)
  <2>1. /\ pc' = [pc EXCEPT ![r] = "release"]
        /\ counter' = RolledBack(hold[r])
        /\ hold' = [hold EXCEPT ![r].live = FALSE]
        /\ handlerFrame /\ UNCHANGED <<off, rejects, events, reply, rr, blind>>
    BY <1>8 DEF Upstream5xxDiscarded
  <2>2. [hold[r] EXCEPT !.live = FALSE] \in Hold
    BY DEF Hold
  <2>3. hold' \in [Requests -> Hold] /\ pc' \in [Requests -> Places]
    BY <2>1, <2>2 DEF TypeOK, Places
  <2>4. TurnTypeOK'
    BY <1>1, <2>1, <2>3 DEF TurnTypeOK, TypeOK
  <2> QED BY <1>3, <2>1, <2>4
<1>9. CASE Released(r)
  <2>1. Resume(r, walk[r], off[r] + 1, counter, Skipped(r, "upstream_5xx"), None)
        /\ handlerFrame /\ UNCHANGED rr
    BY <1>9 DEF Released
  <2>2. TurnTypeOK'
    BY <1>1, <2>1, ResumeType
  <2> QED BY <1>3, <2>1, <2>2
<1>10. CASE Released429(r) \/ Raises(r)
  <2>1. /\ pc' = [pc EXCEPT ![r] = "done"]
        /\ handlerFrame /\ UNCHANGED <<off, rejects, hold, events, rr, blind, counter>>
        /\ reply' = reply \/ reply' = [reply EXCEPT ![r] = Answer("500", None, None)]
    BY <1>10 DEF Released429, Raises
  <2>2. Answer("500", None, None) \in Reply
    BY AnswerType DEF NatOrNone
  <2>3. reply' \in [Requests -> Reply] /\ pc' \in [Requests -> Places]
    BY <2>1, <2>2 DEF TypeOK, Places
  <2>4. TurnTypeOK'
    BY <1>1, <2>1, <2>3 DEF TurnTypeOK, TypeOK
  <2> QED BY <1>3, <2>1, <2>4
<1> QED
  BY <1>4, <1>5, <1>6, <1>7, <1>8, <1>9, <1>10 DEF Handler

-----------------------------------------------------------------------------
(* The pollers' steps.                                                        *)

LEMMA PollMetricsType ==
  ASSUME TypeOK, NEW b \in Backends, PollMetrics(b)
  PROVE  TypeOK'
<1>1. PICK s \in Samples[b] :
        /\ MetricsTick(b, s)
        /\ blind' = [blind EXCEPT ![b] = IF Anchors(s) THEN 0 ELSE blind[b]]
  BY DEF PollMetrics
<1>2. FeedTypeOK'
  BY <1>1, MetricsTickType DEF TypeOK
<1>3. blind' \in [Backends -> Nat]
  BY <1>1 DEF TypeOK
<1>4. UNCHANGED <<owned, pc, walk, off, rejects, hold, events, reply, rr>>
  BY DEF PollMetrics
<1> QED
  BY <1>2, <1>3, <1>4 DEF TypeOK, RegistryTypeOK

LEMMA AgesType ==
  ASSUME TypeOK, NEW b \in Backends, Ages(b)
  PROVE  TypeOK'
<1>1. FeedTypeOK'
  BY FeedAgesType DEF TypeOK, Ages
<1> QED
  BY <1>1 DEF TypeOK, RegistryTypeOK, Ages, walkVars

LEMMA PollModelsType ==
  ASSUME TypeOK, NEW b \in Backends, PollModels(b)
  PROVE  TypeOK'
<1>1. PICK discovered \in Served : Discover(b, discovered)
  BY DEF PollModels
<1>2. RegistryTypeOK'
  BY <1>1, DiscoverType, RegistryAssumption DEF TypeOK
<1>3. UNCHANGED <<feedVars, walkVars>>
  BY DEF PollModels
<1> QED
  BY <1>2, <1>3 DEF TypeOK, FeedTypeOK, feedVars, walkVars

-----------------------------------------------------------------------------
(* Type correctness.                                                          *)

LEMMA InitType == Init => TypeOK
<1> SUFFICES ASSUME Init PROVE TypeOK
  OBVIOUS
<1>1. FeedTypeOK
  BY FeedInitType DEF Init
<1>2. RegistryTypeOK
  BY RegistryInitType DEF Init
<1>3. NoWalk \in Walk
  <2>1. (CHOOSE m \in Models : TRUE) \in Models
    BY ConfigAssumption
  <2> QED BY <2>1, DefaultBackendFacts DEF NoWalk, Walk, NatOrNone
<1>4. NoHold \in Hold
  BY DefaultBackendFacts DEF NoHold, Hold
<1>5. NoReply \in Reply
  BY DEF NoReply, Reply, NatOrNone
<1>6. <<>> \in Seq(Reject) /\ <<>> \in Seq(Event)
  OBVIOUS
<1> QED
  BY <1>1, <1>2, <1>3, <1>4, <1>5, <1>6 DEF Init, TypeOK, Places

LEMMA NextType == TypeOK /\ [Next]_vars => TypeOK'
<1> SUFFICES ASSUME TypeOK, [Next]_vars PROVE TypeOK'
  OBVIOUS
<1>1. CASE UNCHANGED vars
  BY <1>1 DEF vars, feedVars, walkVars, TypeOK, FeedTypeOK, RegistryTypeOK
<1>2. ASSUME NEW r \in Requests, Handler(r) PROVE TypeOK'
  BY <1>2, HandlerType
<1>3. ASSUME NEW b \in Backends, Poller(b) PROVE TypeOK'
  BY <1>3, PollMetricsType, AgesType, PollModelsType DEF Poller
<1> QED
  BY <1>1, <1>2, <1>3 DEF Next

\* Every variable of the walk, the feeds and the registry keeps its type,
\* whatever the handlers and the pollers do (app.py:586-877, poller.py:322-430).
THEOREM TypeCorrect == Spec => []TypeOK
<1>1. Init => TypeOK
  BY InitType
<1>2. TypeOK /\ [Next]_vars => TypeOK'
  BY NextType
<1> QED
  BY <1>1, <1>2, PTL DEF Spec

-----------------------------------------------------------------------------
(* The feeds.                                                                 *)

\* A handler never anchors and never unanchors a counter.
LEMMA HandlerKeepsAnchors ==
  ASSUME TypeOK, NEW r \in Requests, Handler(r), NEW b \in Backends
  PROVE  counter'[b] = None <=> counter[b] = None
<1>1. CASE Takes(r)
  <2>1. PICK d \in Backends, charge \in Nat, c \in Counters :
          Grown(c) /\ counter' = [c EXCEPT ![d] = Minus(c[d], charge)]
    BY <1>1 DEF Takes
  <2>2. c[b] = None <=> counter[b] = None
    BY <2>1 DEF Grown
  <2>3. c[d] \in IntOrNone
    BY DEF Counters
  <2>4. Minus(c[d], charge) = None <=> c[d] = None
    BY <2>3, MinusPlusType
  <2> QED BY <2>1, <2>2, <2>4 DEF Counters
<1>2. CASE Settles(r)
  BY <1>2 DEF Settles, Grown
<1> QED
  BY <1>1, <1>2, HandlerEffect

LEMMA NextAnchorMatches ==
  TypeOK /\ AnchorMatchesUsage /\ [Next]_vars => AnchorMatchesUsage'
<1> SUFFICES ASSUME TypeOK, AnchorMatchesUsage, [Next]_vars PROVE AnchorMatchesUsage'
  OBVIOUS
<1>1. CASE UNCHANGED vars
  BY <1>1 DEF vars, feedVars, AnchorMatchesUsage
<1>2. ASSUME NEW r \in Requests, Handler(r) PROVE AnchorMatchesUsage'
  <2>1. UNCHANGED <<usage, anchor>>
    BY <1>2, HandlerEffect DEF FeedFrame
  <2> QED BY <1>2, <2>1, HandlerKeepsAnchors DEF AnchorMatchesUsage
<1>3. ASSUME NEW b \in Backends, PollMetrics(b) PROVE AnchorMatchesUsage'
  BY <1>3, MetricsTickAnchors DEF PollMetrics, TypeOK
<1>4. ASSUME NEW b \in Backends, Ages(b) \/ PollModels(b) PROVE AnchorMatchesUsage'
  BY <1>4, FeedAgesKeeps DEF Ages, PollModels, feedVars, AnchorMatchesUsage
<1> QED
  BY <1>1, <1>2, <1>3, <1>4 DEF Next, Poller

\* Both layers decide on one poll: an anchored counter was anchored from the
\* usage that the tiered layer reads (poller.py:384-405).
THEOREM AnchorMatchesUsageAlways == Spec => []AnchorMatchesUsage
<1>1. Init => AnchorMatchesUsage
  BY FeedInitTruthful DEF Init
<1>2. TypeOK /\ AnchorMatchesUsage /\ [Next]_vars => AnchorMatchesUsage'
  BY NextAnchorMatches
<1> QED
  BY <1>1, <1>2, TypeCorrect, PTL DEF Spec

LEMMA NextCapacityAlert ==
  TypeOK /\ CapacityAlertTruthful /\ [Next]_vars => CapacityAlertTruthful'
<1> SUFFICES ASSUME TypeOK, CapacityAlertTruthful, [Next]_vars PROVE CapacityAlertTruthful'
  OBVIOUS
<1>1. CASE UNCHANGED vars
  BY <1>1 DEF vars, feedVars, CapacityAlertTruthful
<1>2. ASSUME NEW r \in Requests, Handler(r) PROVE CapacityAlertTruthful'
  <2>1. UNCHANGED <<alert, seen>>
    BY <1>2, HandlerEffect DEF FeedFrame
  <2> QED BY <1>2, <2>1, HandlerKeepsAnchors DEF CapacityAlertTruthful
<1>3. ASSUME NEW b \in Backends, PollMetrics(b) PROVE CapacityAlertTruthful'
  BY <1>3, MetricsTickAlerts DEF PollMetrics, TypeOK
<1>4. ASSUME NEW b \in Backends, Ages(b) \/ PollModels(b) PROVE CapacityAlertTruthful'
  BY <1>4, FeedAgesKeeps DEF Ages, PollModels, feedVars, CapacityAlertTruthful
<1> QED
  BY <1>1, <1>2, <1>3, <1>4 DEF Next, Poller

\* An alert the operator sees is the state of the last poll, and a capacity
\* alert means that the autoconfig layer rejects nothing (poller.py:360-383).
THEOREM CapacityAlertTruthfulAlways == Spec => []CapacityAlertTruthful
<1>1. Init => CapacityAlertTruthful
  BY FeedInitTruthful DEF Init
<1>2. TypeOK /\ CapacityAlertTruthful /\ [Next]_vars => CapacityAlertTruthful'
  BY NextCapacityAlert
<1> QED
  BY <1>1, <1>2, TypeCorrect, PTL DEF Spec

-----------------------------------------------------------------------------
(* What a client is refused with.                                             *)

RefusedRight(r) ==
  /\ reply[r].status \in {"429", "502", "5xx"} => off[r] = Len(walk[r].cands)
  /\ reply[r].status = "429" =>
       /\ rejects[r] # <<>>
       /\ \A i \in DOMAIN rejects[r] : rejects[r][i].retry <= reply[r].retry
       /\ \E i \in DOMAIN rejects[r] :
            /\ rejects[r][i].backend = reply[r].backend /\ rejects[r][i].retry = reply[r].retry
            /\ \A j \in 1..(i - 1) : rejects[r][j].retry < reply[r].retry
  /\ reply[r].status \in {"502", "5xx"} => rejects[r] = <<>>

\* The answer is decided when the walk ends; a 429 may wait for a release after
\* that, during which nothing it was decided from may change.
RefusalInv == \A r \in Requests : pc[r] \in {"done", "release429"} => RefusedRight(r)

\* The first of the longest: the maximum, and no earlier reject reaches it.
LEMMA FirstLongestFacts ==
  ASSUME NEW rj \in Seq(Reject), NEW i \in DOMAIN rj, FirstLongest(rj, i)
  PROVE  /\ \A j \in DOMAIN rj : rj[j].retry <= rj[i].retry
         /\ \A j \in 1..(i - 1) : rj[j].retry < rj[i].retry
<1>1. DOMAIN rj = 1..Len(rj) /\ Len(rj) \in Nat
  OBVIOUS
<1>0. ASSUME NEW j \in DOMAIN rj PROVE rj[j].retry \in Nat
  <2>1. rj[j] \in Reject
    BY <1>1
  <2> QED BY <2>1 DEF Reject
<1>2. ASSUME NEW j \in DOMAIN rj PROVE rj[j].retry <= rj[i].retry
  BY <1>0 DEF FirstLongest
<1>3. ASSUME NEW j \in 1..(i - 1) PROVE rj[j].retry < rj[i].retry
  BY <1>0, <1>1 DEF FirstLongest
<1> QED
  BY <1>2, <1>3

LEMMA ExhaustRefuses ==
  ASSUME TypeOK, NEW r \in Requests, NEW w, walk'[r] = w, NEW c, NEW rj \in Seq(Reject),
         NEW ev, NEW final, Exhaust(r, w, c, rj, ev, final)
  PROVE  /\ RefusedRight(r)'
         /\ \A q \in Requests \ {r} :
              pc'[q] = pc[q] /\ off'[q] = off[q] /\ rejects'[q] = rejects[q] /\ reply'[q] = reply[q]
<1>1. /\ pc \in [Requests -> Places] /\ off \in [Requests -> Nat]
      /\ rejects \in [Requests -> Seq(Reject)] /\ reply \in [Requests -> Reply]
  BY DEF TypeOK
<1>2. off' = [off EXCEPT ![r] = Len(w.cands)] /\ rejects' = [rejects EXCEPT ![r] = rj]
  BY DEF Exhaust
<1>3. off'[r] = Len(walk'[r].cands) /\ rejects'[r] = rj
  BY <1>1, <1>2
<1>4. RefusedRight(r)'
  <2>1. CASE \E i \in DOMAIN rj :
               /\ FirstLongest(rj, i)
               /\ reply' = [reply EXCEPT ![r] = Answer("429", rj[i].backend, rj[i].retry)]
    <3>1. PICK i \in DOMAIN rj :
            /\ FirstLongest(rj, i)
            /\ reply' = [reply EXCEPT ![r] = Answer("429", rj[i].backend, rj[i].retry)]
      BY <2>1
    <3>2. /\ reply'[r].status = "429" /\ reply'[r].backend = rj[i].backend
          /\ reply'[r].retry = rj[i].retry
      BY <1>1, <3>1 DEF Answer
    <3>3. rj # <<>>
      BY <3>1
    <3>4. /\ \A j \in DOMAIN rj : rj[j].retry <= reply'[r].retry
          /\ \A j \in 1..(i - 1) : rj[j].retry < reply'[r].retry
      BY <3>1, <3>2, FirstLongestFacts
    <3>5. reply'[r].status \notin {"502", "5xx"}
      BY <3>2
    <3> QED BY <1>3, <3>2, <3>3, <3>4, <3>5 DEF RefusedRight
  <2>2. CASE rj = <<>> /\ \/ reply' = [reply EXCEPT ![r] = Answer("5xx", final, None)]
                          \/ reply' = [reply EXCEPT ![r] = Answer("502", None, None)]
    <3>1. reply'[r].status \in {"5xx", "502"}
      BY <1>1, <2>2 DEF Answer
    <3> QED BY <1>3, <2>2, <3>1 DEF RefusedRight
  <2> QED BY <2>1, <2>2 DEF Exhaust
<1>5. ASSUME NEW q \in Requests \ {r}
      PROVE  pc'[q] = pc[q] /\ off'[q] = off[q] /\ rejects'[q] = rejects[q] /\ reply'[q] = reply[q]
  <2>1. off'[q] = off[q] /\ rejects'[q] = rejects[q]
    BY <1>1, <1>2
  <2>2. \E a : reply' = [reply EXCEPT ![r] = a]
    BY DEF Exhaust
  <2>3. \E a : pc' = [pc EXCEPT ![r] = a]
    BY DEF Exhaust
  <2> QED BY <1>1, <2>1, <2>2, <2>3
<1> QED
  BY <1>4, <1>5

LEMMA ResumeRefuses ==
  ASSUME TypeOK, TypeOK', NEW r \in Requests, NEW w, walk'[r] = w, NEW from, NEW c,
         NEW ev, NEW final, Resume(r, w, from, c, ev, final)
  PROVE  /\ pc'[r] \in {"done", "release429"} => RefusedRight(r)'
         /\ \A q \in Requests \ {r} :
              pc'[q] = pc[q] /\ off'[q] = off[q] /\ rejects'[q] = rejects[q] /\ reply'[q] = reply[q]
<1>1. PICK k, rj, evk :
        \/ Attempt(r, w, k, c, rj, evk)
        \/ Exhaust(r, w, c, rj, evk, final)
  BY DEF Resume
<1>2. CASE Attempt(r, w, k, c, rj, evk)
  BY <1>2 DEF Attempt, TypeOK
<1>3. CASE Exhaust(r, w, c, rj, evk, final)
  <2>1. rejects' = [rejects EXCEPT ![r] = rj]
    BY <1>3 DEF Exhaust
  <2>2. rj \in Seq(Reject)
    BY <2>1 DEF TypeOK
  <2> QED BY <1>3, <2>2, ExhaustRefuses
<1> QED
  BY <1>1, <1>2, <1>3

\* A handler decides its own answer only.
LEMMA HandlerRefuses ==
  ASSUME TypeOK, TypeOK', RefusalInv, NEW r \in Requests, Handler(r)
  PROVE  /\ pc'[r] \in {"done", "release429"} => RefusedRight(r)'
         /\ \A q \in Requests \ {r} :
              /\ pc'[q] = pc[q] /\ off'[q] = off[q] /\ rejects'[q] = rejects[q]
              /\ reply'[q] = reply[q] /\ walk'[q] = walk[q]
<1>1. /\ pc \in [Requests -> Places] /\ walk \in [Requests -> Walk]
      /\ reply \in [Requests -> Reply]
  BY DEF TypeOK
<1>2. CASE Arrive(r)
  <2>1. PICK w : walk' = [walk EXCEPT ![r] = w] /\ Resume(r, w, 0, counter, <<>>, None)
    BY <1>2 DEF Arrive
  <2>2. walk'[r] = w /\ \A q \in Requests \ {r} : walk'[q] = walk[q]
    BY <1>1, <2>1
  <2> QED BY <2>1, <2>2, ResumeRefuses
<1>3. CASE UpstreamTransportError(r) \/ Upstream5xx(r) \/ Released(r)
  <2>1. /\ walk' = walk
        /\ \E from, c, ev, final : Resume(r, walk[r], from, c, ev, final)
    BY <1>3 DEF UpstreamTransportError, Upstream5xx, Released, handlerFrame
  <2> QED BY <2>1, ResumeRefuses
<1>4. CASE UpstreamOk(r) \/ Raises(r)
  <2>1. /\ pc' = [pc EXCEPT ![r] = "done"] /\ UNCHANGED <<off, rejects, walk>>
        /\ \/ reply' = [reply EXCEPT ![r] = Answer("ok", Candidate(walk[r], off[r]), None)]
           \/ reply' = [reply EXCEPT ![r] = Answer("500", None, None)]
    BY <1>4 DEF UpstreamOk, Raises, handlerFrame
  <2>2. reply'[r].status \in {"ok", "500"}
    BY <1>1, <2>1 DEF Answer
  <2> QED BY <1>1, <2>1, <2>2 DEF RefusedRight
<1>5. CASE Upstream5xxDiscarded(r)
  BY <1>1, <1>5 DEF Upstream5xxDiscarded, handlerFrame
<1>6. CASE Released429(r)
  BY <1>1, <1>6 DEF Released429, handlerFrame, RefusalInv, RefusedRight
<1> QED
  BY <1>2, <1>3, <1>4, <1>5, <1>6 DEF Handler

LEMMA NextRefusal == TypeOK /\ TypeOK' /\ RefusalInv /\ [Next]_vars => RefusalInv'
<1> SUFFICES ASSUME TypeOK, TypeOK', RefusalInv, [Next]_vars PROVE RefusalInv'
  OBVIOUS
<1>1. CASE UNCHANGED <<pc, off, rejects, reply, walk>>
  BY <1>1 DEF RefusalInv, RefusedRight
<1>2. ASSUME NEW r \in Requests, Handler(r) PROVE RefusalInv'
  BY <1>2, HandlerRefuses DEF RefusalInv, RefusedRight
<1>3. ASSUME NEW b \in Backends, Poller(b) PROVE RefusalInv'
  BY <1>1, <1>3 DEF Poller, PollMetrics, Ages, PollModels, walkVars
<1> QED
  BY <1>1, <1>2, <1>3 DEF Next, vars, walkVars

\* Whatever the candidates and the interleaving: a client is refused only after
\* every candidate was tried, with the first of the longest Retry-Afters if one
\* rejected, and with a 502 or a 5xx only if none did (app.py:770-877).
THEOREM RefusalIsTheWalksAlways == Spec => []RefusalIsTheWalks
<1>1. Init => RefusalInv
  BY DEF Init, RefusalInv
<1>2. TypeOK /\ TypeOK' /\ RefusalInv /\ [Next]_vars => RefusalInv'
  BY NextRefusal
<1>3. RefusalInv => RefusalIsTheWalks
  BY DEF RefusalInv, RefusedRight, RefusalIsTheWalks, Answered
<1> QED
  BY <1>1, <1>2, <1>3, TypeCorrect, PTL DEF Spec

-----------------------------------------------------------------------------
(* What a request records.                                                    *)

\* The last candidate a walk at offset i has been at, as an offset.
Reached(w, i) == IF i < Len(w.cands) THEN i ELSE Len(w.cands) - 1

\* The first n of the events es are the failovers of the first n steps of w.
Follows(w, es, n) ==
  /\ n <= Len(es)
  /\ \A i \in 1..n : /\ es[i].kind = "failover"
                     /\ es[i].from = Candidate(w, i - 1) /\ es[i].to = Candidate(w, i)

\* After n failovers es records the one outcome that the answer tells.
Outcome(es, n, answer) ==
  \/ /\ answer.status \in {"ok", "5xx"} /\ Len(es) = n + 1
     /\ es[n + 1].kind = "forwarded" /\ es[n + 1].backend = answer.backend
  \/ /\ answer.status \in {"429", "502"} /\ Len(es) = n + 2
     /\ es[n + 1].kind = "rejected" /\ es[n + 1].backend = answer.backend
     /\ es[n + 2].kind = "rejection"
  \/ /\ answer.status = "500"
     /\ \A i \in (n + 1)..Len(es) : es[i].kind # "failover"

\* At each place of the handler: the failovers so far and, once the answer is
\* decided, its outcome.
Recorded(place, w, o, es, answer) ==
  /\ Follows(w, es, Reached(w, o))
  /\ place \in {"proxy", "release"} =>
       o < Len(w.cands) /\ Len(es) = o /\ answer.status = "none"
  /\ place \in {"done", "release429"} => Outcome(es, Reached(w, o), answer)
  /\ place = "release429" => answer.status = "429"

HistoryInv ==
  \A r \in Requests :
    IF pc[r] = "new" THEN reply[r].status = "none"
    ELSE Recorded(pc[r], walk[r], off[r], events[r], reply[r])

\* Events appended after the failovers of a walk.
LEMMA FollowsAppended ==
  ASSUME NEW w, NEW es \in Seq(Event), NEW tail \in Seq(Event), Follows(w, es, Len(es))
  PROVE  /\ Follows(w, es \o tail, Len(es))
         /\ Len(es \o tail) = Len(es) + Len(tail)
         /\ \A i \in 1..Len(tail) : (es \o tail)[Len(es) + i] = tail[i]
<1>1. Len(es) \in Nat /\ Len(tail) \in Nat /\ Len(es \o tail) = Len(es) + Len(tail)
  BY ConcatProperties
<1>2. \A i \in 1..Len(es) : (es \o tail)[i] = es[i]
  BY ConcatProperties
<1>3. \A i \in 1..Len(tail) : (es \o tail)[Len(es) + i] = tail[i]
  BY <1>1, ConcatProperties
<1> QED
  BY <1>1, <1>2, <1>3 DEF Follows

\* A run of rejected candidates takes the failovers on from where they were.
LEMMA RunFollows ==
  ASSUME NEW w \in Walk, NEW from \in Nat, NEW k \in Nat, from <= k, k <= Len(w.cands),
         NEW ev \in Seq(Event), Len(ev) = Reached(w, from), Follows(w, ev, Len(ev))
  PROVE  LET skips == (IF k < Len(w.cands) THEN k ELSE Len(w.cands) - 1) - from
             evk   == ev \o [i \in 1..skips |-> Failover(w, from + i - 1, "reject")]
         IN  evk \in Seq(Event) /\ Len(evk) = Reached(w, k) /\ Follows(w, evk, Len(evk))
<1> DEFINE n     == Len(w.cands)
           m     == Reached(w, k)
           skips == m - from
           run   == [i \in 1..skips |-> Failover(w, from + i - 1, "reject")]
           evk   == ev \o run
<1>1. n \in Nat \ {0} /\ m \in Nat /\ Len(ev) \in Nat
  BY CandidateListFacts DEF Walk, Reached
<1>2. skips = (IF k < n THEN k ELSE n - 1) - from /\ skips \in Int
  BY <1>1 DEF Reached
<1>3. run \in Seq(Event) /\ Len(run) = IF skips < 0 THEN 0 ELSE skips
  <2> HIDE DEF skips
  <2> QED BY <1>2, FailoverRunType
<1>4. Len(ev) = (IF from < n THEN from ELSE n - 1) /\ m = IF k < n THEN k ELSE n - 1
  BY DEF Reached
<1>5. \A i \in 1..skips : run[i] = Failover(w, from + i - 1, "reject")
  <2> HIDE DEF skips
  <2> QED OBVIOUS
<1> HIDE DEF n, m, run
<1>6. Len(ev) + Len(run) = m /\ (Len(run) > 0 => from < n /\ Len(ev) = from /\ Len(run) = skips)
  BY <1>1, <1>3, <1>4
<1> HIDE DEF skips
<1>7. /\ evk \in Seq(Event) /\ Len(evk) = m
      /\ Follows(w, evk, Len(ev)) /\ \A i \in 1..Len(run) : evk[Len(ev) + i] = run[i]
  BY <1>3, <1>6, FollowsAppended, ConcatProperties
<1>8. ASSUME NEW i \in 1..m
      PROVE  /\ evk[i].kind = "failover"
             /\ evk[i].from = Candidate(w, i - 1) /\ evk[i].to = Candidate(w, i)
  <2>1. CASE i <= Len(ev)
    BY <1>1, <1>7, <2>1 DEF Follows
  <2>2. CASE i > Len(ev)
    <3> DEFINE j == i - Len(ev)
    <3>1. j \in 1..Len(run) /\ i = Len(ev) + j
      BY <1>1, <1>3, <1>6, <2>2
    <3>2. j \in 1..skips /\ from + j - 1 = i - 1
      BY <1>6, <3>1
    <3>3. evk[i] = Failover(w, i - 1, "reject")
      <4> HIDE DEF j
      <4> QED BY <1>5, <1>7, <3>1, <3>2
    <3>4. i - 1 + 1 = i
      OBVIOUS
    <3> QED BY <3>3, <3>4 DEF Failover
  <2> HIDE DEF evk
  <2> QED BY <1>1, <2>1, <2>2
<1>9. Follows(w, evk, m)
  BY <1>1, <1>7, <1>8 DEF Follows
<1> QED
  BY <1>2, <1>7, <1>9 DEF n, m, run, skips

LEMMA AttemptRecords ==
  ASSUME TypeOK, NEW r \in Requests, NEW w \in Walk, reply[r].status = "none",
         NEW k \in Nat, k < Len(w.cands), NEW c, NEW rj, NEW ev \in Seq(Event),
         Len(ev) = Reached(w, k), Follows(w, ev, Len(ev)), Attempt(r, w, k, c, rj, ev)
  PROVE  Recorded(pc'[r], w, off'[r], events'[r], reply'[r])
<1>1. /\ pc'[r] = "proxy" /\ off'[r] = k /\ events'[r] = ev /\ reply'[r] = reply[r]
  BY DEF Attempt, TypeOK
<1> QED
  BY <1>1 DEF Recorded, Reached

LEMMA ExhaustRecords ==
  ASSUME TypeOK, NEW r \in Requests, NEW w \in Walk, NEW c, NEW rj \in Seq(Reject),
         NEW ev \in Seq(Event), Len(ev) = Reached(w, Len(w.cands)), Follows(w, ev, Len(ev)),
         NEW final \in Backends \cup {None}, Exhaust(r, w, c, rj, ev, final)
  PROVE  Recorded(pc'[r], w, off'[r], events'[r], reply'[r])
<1> DEFINE n == Len(ev)
<1>1. /\ n \in Nat /\ Reached(w, off'[r]) = n
  <2>1. off'[r] = Len(w.cands)
    BY DEF Exhaust, TypeOK
  <2> QED BY <2>1
<1>2. ASSUME NEW tail \in Seq(Event), events'[r] = ev \o tail,
             pc'[r] \in {"done", "release429"},
             pc'[r] = "release429" => reply'[r].status = "429",
             \/ /\ reply'[r].status = "5xx" /\ Len(tail) = 1
                /\ tail[1].kind = "forwarded" /\ tail[1].backend = reply'[r].backend
             \/ /\ reply'[r].status \in {"429", "502"} /\ Len(tail) = 2
                /\ tail[1].kind = "rejected" /\ tail[1].backend = reply'[r].backend
                /\ tail[2].kind = "rejection"
      PROVE  Recorded(pc'[r], w, off'[r], events'[r], reply'[r])
  <2>1. /\ Follows(w, ev \o tail, n)
        /\ Len(ev \o tail) = n + Len(tail)
        /\ \A i \in 1..Len(tail) : (ev \o tail)[n + i] = tail[i]
    BY FollowsAppended
  <2> HIDE DEF n
  <2>2. Len(tail) = 1 => (ev \o tail)[n + 1] = tail[1]
    <3>1. Len(tail) = 1 => 1 \in 1..Len(tail)
      OBVIOUS
    <3> QED BY <2>1, <3>1
  <2>3. Len(tail) = 2 => (ev \o tail)[n + 1] = tail[1] /\ (ev \o tail)[n + 2] = tail[2]
    <3>1. Len(tail) = 2 => 1 \in 1..Len(tail) /\ 2 \in 1..Len(tail)
      OBVIOUS
    <3> QED BY <2>1, <3>1
  <2> DEFINE es == ev \o tail
  <2>4. Len(es) = n + Len(tail) /\ (Len(tail) = 1 => es[n + 1] = tail[1])
        /\ (Len(tail) = 2 => es[n + 1] = tail[1] /\ es[n + 2] = tail[2])
    BY <2>1, <2>2, <2>3
  <2>5. Outcome(es, n, reply'[r])
    <3> HIDE DEF es
    <3>1. CASE reply'[r].status = "5xx"
      BY <1>2, <2>4, <3>1 DEF Outcome
    <3>2. CASE reply'[r].status \in {"429", "502"}
      BY <1>2, <2>4, <3>2 DEF Outcome
    <3> QED BY <1>2, <3>1, <3>2
  <2> QED BY <1>1, <1>2, <2>1, <2>5 DEF Recorded
<1>3. CASE \E i \in DOMAIN rj :
             /\ events' = [events EXCEPT ![r] =
                  ev \o Refused(rj[i].backend, rj[i].reason, rj[i].tier)]
             /\ reply' = [reply EXCEPT ![r] = Answer("429", rj[i].backend, rj[i].retry)]
             /\ pc' = [pc EXCEPT ![r] =
                  IF final # None /\ w.stream THEN "release429" ELSE "done"]
  <2>1. PICK i \in DOMAIN rj :
             /\ events' = [events EXCEPT ![r] =
                  ev \o Refused(rj[i].backend, rj[i].reason, rj[i].tier)]
             /\ reply' = [reply EXCEPT ![r] = Answer("429", rj[i].backend, rj[i].retry)]
             /\ pc' = [pc EXCEPT ![r] =
                  IF final # None /\ w.stream THEN "release429" ELSE "done"]
    BY <1>3
  <2> DEFINE tail == Refused(rj[i].backend, rj[i].reason, rj[i].tier)
  <2>2. rj[i] \in Reject
    OBVIOUS
  <2>3. tail \in Seq(Event)
    BY <2>2, EventTypes DEF Reject
  <2>4. /\ Len(tail) = 2 /\ tail[1].kind = "rejected" /\ tail[1].backend = rj[i].backend
        /\ tail[2].kind = "rejection"
    BY DEF Refused
  <2>5. /\ events'[r] = ev \o tail /\ pc'[r] \in {"done", "release429"}
        /\ reply'[r].status = "429" /\ reply'[r].backend = rj[i].backend
    BY <2>1 DEF TypeOK, Answer
  <2> HIDE DEF tail
  <2> QED BY <1>2, <2>3, <2>4, <2>5
<1>4. CASE /\ final # None
           /\ events' = [events EXCEPT ![r] = Append(ev, Forwarded(final))]
           /\ reply' = [reply EXCEPT ![r] = Answer("5xx", final, None)]
           /\ pc' = [pc EXCEPT ![r] = "done"]
  <2> DEFINE tail == <<Forwarded(final)>>
  <2>1. Forwarded(final) \in Event
    BY <1>4, EventTypes
  <2>2. /\ tail \in Seq(Event) /\ Len(tail) = 1 /\ tail[1].kind = "forwarded"
        /\ tail[1].backend = final
    BY <2>1 DEF Forwarded
  <2>3. Append(ev, Forwarded(final)) = ev \o tail
    BY <2>1
  <2>4. /\ events'[r] = ev \o tail /\ pc'[r] = "done"
        /\ reply'[r].status = "5xx" /\ reply'[r].backend = final
    BY <1>4, <2>3 DEF TypeOK, Answer
  <2> HIDE DEF tail
  <2> QED BY <1>2, <2>2, <2>4
<1>5. CASE /\ events' = [events EXCEPT ![r] = ev \o Refused(None, "all_backends_failed", None)]
           /\ reply' = [reply EXCEPT ![r] = Answer("502", None, None)]
           /\ pc' = [pc EXCEPT ![r] = "done"]
  <2> DEFINE tail == Refused(None, "all_backends_failed", None)
  <2>1. tail \in Seq(Event)
    BY EventTypes
  <2>2. /\ Len(tail) = 2 /\ tail[1].kind = "rejected" /\ tail[1].backend = None
        /\ tail[2].kind = "rejection"
    BY DEF Refused
  <2>3. /\ events'[r] = ev \o tail /\ pc'[r] = "done"
        /\ reply'[r].status = "502" /\ reply'[r].backend = None
    BY <1>5 DEF TypeOK, Answer
  <2> HIDE DEF tail
  <2> QED BY <1>2, <2>1, <2>2, <2>3
<1> QED
  BY <1>3, <1>4, <1>5 DEF Exhaust

LEMMA ResumeRecords ==
  ASSUME TypeOK, NEW r \in Requests, NEW w \in Walk, reply[r].status = "none",
         NEW from \in Nat, from <= Len(w.cands), NEW c \in Counters, NEW ev \in Seq(Event),
         Len(ev) = Reached(w, from), Follows(w, ev, Len(ev)),
         NEW final \in Backends \cup {None}, Resume(r, w, from, c, ev, final)
  PROVE  Recorded(pc'[r], w, off'[r], events'[r], reply'[r])
<1> DEFINE n        == Len(w.cands)
           rj(k)    == rejects[r] \o [i \in 1..(k - from) |-> RejectOf(w, from + i - 1, c)]
           skips(k) == (IF k < n THEN k ELSE n - 1) - from
           evk(k)   == ev \o [i \in 1..skips(k) |-> Failover(w, from + i - 1, "reject")]
<1>1. n \in Nat
  BY CandidateListFacts DEF Walk
<1>2. PICK k \in from..n :
        /\ \A i \in from..(k - 1) : ~Dec(w, i, c).allow
        /\ \/ k < n /\ Attempt(r, w, k, c, rj(k), evk(k))
           \/ k = n /\ Exhaust(r, w, c, rj(k), evk(k), final)
  BY DEF Resume
<1>3. k \in Nat /\ from <= k /\ k <= n
  BY <1>1
<1>4. evk(k) \in Seq(Event) /\ Len(evk(k)) = Reached(w, k) /\ Follows(w, evk(k), Len(evk(k)))
  BY <1>3, RunFollows
<1>5. rj(k) \in Seq(Reject)
  <2> DEFINE run == [i \in 1..(k - from) |-> RejectOf(w, from + i - 1, c)]
  <2>1. run \in Seq(Reject)
    <3>1. FeedTypeOK /\ c \in [Backends -> IntOrNone]
      BY DEF TypeOK, Counters
    <3>2. \A i \in from..(k - 1) : ~Dec(w, i, c).allow
      BY <1>2
    <3> HIDE DEF rj, evk
    <3> QED BY <1>3, <3>1, <3>2, RejectRunType
  <2>2. rejects[r] \in Seq(Reject)
    BY DEF TypeOK
  <2> HIDE DEF run
  <2> QED BY <2>1, <2>2, ConcatProperties DEF run
<1> HIDE DEF rj, evk
<1>6. CASE k < n /\ Attempt(r, w, k, c, rj(k), evk(k))
  BY <1>3, <1>4, <1>6, AttemptRecords
<1>7. CASE k = n /\ Exhaust(r, w, c, rj(k), evk(k), final)
  BY <1>3, <1>4, <1>5, <1>7, ExhaustRecords
<1> QED
  BY <1>2, <1>6, <1>7

\* A walk that goes on has not just begun.
LEMMA ResumePlace ==
  ASSUME TypeOK, NEW r \in Requests, NEW w, NEW from, NEW c, NEW ev, NEW final,
         Resume(r, w, from, c, ev, final)
  PROVE  pc'[r] \in {"proxy", "release429", "done"}
<1>1. PICK k, rj, evk :
        \/ Attempt(r, w, k, c, rj, evk)
        \/ Exhaust(r, w, c, rj, evk, final)
  BY DEF Resume
<1> QED
  BY <1>1 DEF Attempt, Exhaust, TypeOK

\* Every step of a handler records what it does.
LEMMA HandlerRecords ==
  ASSUME TypeOK, HistoryInv, NEW r \in Requests, Handler(r)
  PROVE  /\ pc[r] # "done"
         /\ pc'[r] # "new" /\ Recorded(pc'[r], walk'[r], off'[r], events'[r], reply'[r])
<1> SUFFICES pc'[r] # "new" /\ Recorded(pc'[r], walk'[r], off'[r], events'[r], reply'[r])
  BY DEF Handler, Arrive, UpstreamOk, UpstreamTransportError, Upstream5xx,
    Upstream5xxDiscarded, Released, Released429, Raises
<1> USE AtCandidate
<1> DEFINE w == walk[r]
           n == Len(w.cands)
<1>0. counter \in Counters /\ RolledBack(hold[r]) \in Counters
  BY CountersGrown, RolledBackGrown
<1>1. n \in Nat \ {0} /\ w \in Walk /\ off[r] \in Nat
  BY CandidateListFacts DEF Walk
<1>2. pc[r] # "new" => Recorded(pc[r], w, off[r], events[r], reply[r])
  BY DEF HistoryInv
<1>3. CASE Arrive(r)
  <2>0. PICK input \in Inputs : \E v \in Walks(input) :
               walk' = [walk EXCEPT ![r] = v] /\ Resume(r, v, 0, counter, <<>>, None)
    BY <1>3 DEF Arrive
  <2>1. PICK v \in Walks(input) :
               walk' = [walk EXCEPT ![r] = v] /\ Resume(r, v, 0, counter, <<>>, None)
    BY <2>0
  <2>2. v \in Walk /\ walk'[r] = v
    BY <2>1, WalkAssumption, WalksType DEF TypeOK
  <2>3. Len(v.cands) \in Nat \ {0}
    BY <2>2, CandidateListFacts DEF Walk
  <2>4. <<>> \in Seq(Event) /\ Len(<<>>) = Reached(v, 0) /\ Follows(v, <<>>, Len(<<>>))
    BY <2>3 DEF Reached, Follows
  <2>5. pc[r] = "new" /\ reply[r].status = "none"
    BY <1>3 DEF Arrive, HistoryInv
  <2>6. Recorded(pc'[r], v, off'[r], events'[r], reply'[r])
    <3>1. 0 \in Nat /\ 0 <= Len(v.cands) /\ None \in Backends \cup {None}
      BY <2>3
    <3>2. Resume(r, v, 0, counter, <<>>, None)
      BY <2>1
    <3> QED BY <1>0, <2>2, <2>4, <2>5, <3>1, <3>2, ResumeRecords
  <2> QED BY <2>1, <2>2, <2>5, <2>6, ResumePlace
<1>4. ASSUME NEW c \in Counters, NEW why \in FailoverReasons, NEW final \in Backends \cup {None},
             pc[r] \in {"proxy", "release"}, walk' = walk,
             Resume(r, w, off[r] + 1, c, Skipped(r, why), final)
      PROVE  pc'[r] # "new" /\ Recorded(pc'[r], w, off'[r], events'[r], reply'[r])
  <2> DEFINE ev == Skipped(r, why)
             o  == off[r]
  <2>1. /\ Follows(w, events[r], o) /\ Len(events[r]) = o /\ o < n /\ reply[r].status = "none"
    BY <1>1, <1>2, <1>4 DEF Recorded, Reached
  <2>2. ev \in Seq(Event) /\ Len(ev) = Reached(w, o + 1) /\ Follows(w, ev, Len(ev))
    <3>1. CASE o + 1 = n
      BY <1>1, <2>1, <3>1 DEF Skipped, IsLast, Reached
    <3>2. CASE o + 1 # n
      <4> DEFINE e == Failover(w, o, why)
      <4>1. ev = Append(events[r], e) /\ events[r] \in Seq(Event) /\ e \in Event
        BY <1>1, <3>2, FailoverType DEF Skipped, IsLast
      <4>2. Len(ev) = o + 1 /\ ev[o + 1] = e /\ \A i \in 1..o : ev[i] = events[r][i]
        <5> HIDE DEF e, ev
        <5> QED BY <2>1, <4>1
      <4>3. e.kind = "failover" /\ e.from = Candidate(w, o) /\ e.to = Candidate(w, o + 1)
        BY DEF Failover
      <4>4. Reached(w, o + 1) = o + 1
        BY <1>1, <2>1, <3>2 DEF Reached
      <4>5. o + 1 - 1 = o
        BY <1>1
      <4> HIDE DEF e, ev
      <4>6. Follows(w, ev, o + 1)
        <5>1. ASSUME NEW i \in 1..(o + 1)
              PROVE  /\ ev[i].kind = "failover"
                     /\ ev[i].from = Candidate(w, i - 1) /\ ev[i].to = Candidate(w, i)
          <6>1. CASE i = o + 1
            BY <4>2, <4>3, <4>5, <6>1
          <6>2. CASE i \in 1..o
            BY <2>1, <4>2, <6>2 DEF Follows
          <6> QED BY <1>1, <6>1, <6>2
        <5> QED BY <1>1, <4>2, <5>1 DEF Follows
      <4> QED BY <4>2, <4>4, <4>6, <1>4 DEF ev
    <3> QED BY <3>1, <3>2
  <2>3. o + 1 \in Nat /\ o + 1 <= n
    BY <1>1, <2>1
  <2> HIDE DEF ev
  <2>4. Resume(r, w, o + 1, c, ev, final)
    BY <1>4 DEF ev
  <2> QED BY <1>1, <1>4, <2>1, <2>2, <2>3, <2>4, ResumeRecords, ResumePlace
<1>5. CASE UpstreamTransportError(r) \/ Upstream5xx(r) \/ Released(r)
  <2>1. pc[r] \in {"proxy", "release"} /\ walk' = walk
    BY <1>5 DEF UpstreamTransportError, Upstream5xx, Released, handlerFrame
  <2>2. "transport" \in FailoverReasons /\ "upstream_5xx" \in FailoverReasons
    BY DEF FailoverReasons
  <2>3. \E c \in Counters, why \in FailoverReasons, final \in Backends \cup {None} :
          Resume(r, w, off[r] + 1, c, Skipped(r, why), final)
    BY <1>0, <1>5, <2>2 DEF UpstreamTransportError, Upstream5xx, Released
  <2> QED BY <1>4, <2>1, <2>3
<1>6. CASE UpstreamOk(r)
  <2> DEFINE e == Forwarded(Candidate(w, off[r]))
  <2>1. /\ pc[r] = "proxy" /\ pc'[r] = "done" /\ off'[r] = off[r] /\ walk'[r] = w
        /\ events'[r] = Append(events[r], e)
        /\ reply'[r].status = "ok" /\ reply'[r].backend = Candidate(w, off[r])
    BY <1>6 DEF UpstreamOk, handlerFrame, Answer, TypeOK
  <2>2. Follows(w, events[r], off[r]) /\ Len(events[r]) = off[r] /\ Reached(w, off[r]) = off[r]
    BY <1>1, <1>2, <2>1 DEF Recorded, Reached
  <2>3. /\ Len(events'[r]) = off[r] + 1 /\ events'[r][off[r] + 1] = e
        /\ \A i \in 1..off[r] : events'[r][i] = events[r][i]
    <3> HIDE DEF e
    <3> QED BY <2>1, <2>2
  <2>4. e.kind = "forwarded" /\ e.backend = Candidate(w, off[r])
    BY DEF Forwarded
  <2> HIDE DEF e
  <2>5. Follows(w, events'[r], off[r])
    <3>1. off[r] <= Len(events'[r])
      BY <1>1, <2>3
    <3>2. ASSUME NEW i \in 1..off[r]
          PROVE  /\ events'[r][i].kind = "failover"
                 /\ events'[r][i].from = Candidate(w, i - 1)
                 /\ events'[r][i].to = Candidate(w, i)
      BY <2>2, <2>3, <3>2 DEF Follows
    <3> QED BY <3>1, <3>2 DEF Follows
  <2> QED BY <2>1, <2>2, <2>3, <2>4, <2>5 DEF Recorded, Outcome
<1>7. CASE Upstream5xxDiscarded(r)
  <2>1. /\ pc[r] = "proxy" /\ pc'[r] = "release"
        /\ UNCHANGED <<off, events, reply, walk>>
    BY <1>7 DEF Upstream5xxDiscarded, handlerFrame, TypeOK
  <2> QED BY <1>2, <2>1 DEF Recorded
<1>8. CASE Released429(r)
  <2>1. /\ pc[r] = "release429" /\ pc'[r] = "done"
        /\ UNCHANGED <<off, events, reply, walk>>
    BY <1>8 DEF Released429, handlerFrame, TypeOK
  <2> QED BY <1>2, <2>1 DEF Recorded
<1>9. CASE Raises(r)
  <2>1. /\ pc[r] \in {"proxy", "release", "release429"} /\ pc'[r] = "done"
        /\ reply'[r].status = "500" /\ UNCHANGED <<off, events, walk>>
    BY <1>9 DEF Raises, handlerFrame, TypeOK, Answer
  <2> DEFINE m == Reached(w, off[r])
  <2>2. m \in Nat /\ events[r] \in Seq(Event)
    BY <1>1 DEF Reached
  <2>3. \A i \in (m + 1)..Len(events[r]) : events[r][i].kind # "failover"
    <3>1. CASE pc[r] = "release429"
      BY <1>2, <2>2, <3>1 DEF Recorded, Outcome
    <3>2. CASE pc[r] # "release429"
      <4>1. Len(events[r]) = m
        BY <1>1, <1>2, <2>1, <3>2 DEF Recorded, Reached
      <4> QED BY <2>2, <4>1
    <3> QED BY <3>1, <3>2
  <2> QED BY <1>2, <2>1, <2>3 DEF Recorded, Outcome
<1> QED
  BY <1>3, <1>5, <1>6, <1>7, <1>8, <1>9 DEF Handler

\* A turn of the walk leaves the other requests alone.
LEMMA ResumeOwn ==
  ASSUME TypeOK, NEW r \in Requests, NEW w, NEW from, NEW c, NEW ev, NEW final,
         Resume(r, w, from, c, ev, final)
  PROVE  \A q \in Requests \ {r} :
           pc'[q] = pc[q] /\ off'[q] = off[q] /\ events'[q] = events[q] /\ reply'[q] = reply[q]
<1>1. PICK k, rj, evk :
        \/ Attempt(r, w, k, c, rj, evk)
        \/ Exhaust(r, w, c, rj, evk, final)
  BY DEF Resume
<1>2. CASE Attempt(r, w, k, c, rj, evk)
  BY <1>2 DEF Attempt, TypeOK
<1>3. CASE Exhaust(r, w, c, rj, evk, final)
  <2>1. /\ \E a : pc' = [pc EXCEPT ![r] = a]
        /\ \E a : off' = [off EXCEPT ![r] = a]
        /\ \E a : events' = [events EXCEPT ![r] = a]
        /\ \E a : reply' = [reply EXCEPT ![r] = a]
    BY <1>3 DEF Exhaust
  <2> QED BY <2>1 DEF TypeOK
<1> QED
  BY <1>1, <1>2, <1>3

LEMMA HandlerOwn ==
  ASSUME TypeOK, NEW r \in Requests, Handler(r)
  PROVE  \A q \in Requests \ {r} :
           /\ pc'[q] = pc[q] /\ walk'[q] = walk[q] /\ off'[q] = off[q]
           /\ events'[q] = events[q] /\ reply'[q] = reply[q]
<1>1. CASE Arrive(r)
  <2>1. PICK w : walk' = [walk EXCEPT ![r] = w] /\ Resume(r, w, 0, counter, <<>>, None)
    BY <1>1 DEF Arrive
  <2>2. \A q \in Requests \ {r} : walk'[q] = walk[q]
    BY <2>1 DEF TypeOK
  <2> QED BY <2>1, <2>2, ResumeOwn
<1>2. CASE UpstreamTransportError(r) \/ Upstream5xx(r) \/ Released(r)
  <2>1. /\ walk' = walk
        /\ \E from, c, ev, final : Resume(r, walk[r], from, c, ev, final)
    BY <1>2 DEF UpstreamTransportError, Upstream5xx, Released, handlerFrame
  <2> QED BY <2>1, ResumeOwn
<1>3. CASE UpstreamOk(r) \/ Upstream5xxDiscarded(r) \/ Released429(r) \/ Raises(r)
  <2>1. walk' = walk /\ off' = off
    BY <1>3 DEF UpstreamOk, Upstream5xxDiscarded, Released429, Raises, handlerFrame
  <2>2. /\ \E a : pc' = [pc EXCEPT ![r] = a]
        /\ events' = events \/ \E a : events' = [events EXCEPT ![r] = a]
        /\ reply' = reply \/ \E a : reply' = [reply EXCEPT ![r] = a]
    BY <1>3 DEF UpstreamOk, Upstream5xxDiscarded, Released429, Raises
  <2> QED BY <2>1, <2>2 DEF TypeOK
<1> QED
  BY <1>1, <1>2, <1>3 DEF Handler

LEMMA NextHistory == TypeOK /\ HistoryInv /\ [Next]_vars => HistoryInv'
<1> SUFFICES ASSUME TypeOK, HistoryInv, [Next]_vars PROVE HistoryInv'
  OBVIOUS
<1>1. CASE UNCHANGED <<pc, walk, off, events, reply>>
  BY <1>1 DEF HistoryInv, Recorded
<1>2. ASSUME NEW r \in Requests, Handler(r) PROVE HistoryInv'
  <2>1. pc'[r] # "new" /\ Recorded(pc'[r], walk'[r], off'[r], events'[r], reply'[r])
    BY <1>2, HandlerRecords
  <2>2. ASSUME NEW q \in Requests \ {r}
        PROVE  IF pc'[q] = "new" THEN reply'[q].status = "none"
               ELSE Recorded(pc'[q], walk'[q], off'[q], events'[q], reply'[q])
    BY <1>2, HandlerOwn DEF HistoryInv
  <2> QED BY <2>1, <2>2 DEF HistoryInv
<1>3. ASSUME NEW b \in Backends, Poller(b) PROVE HistoryInv'
  BY <1>1, <1>3 DEF Poller, PollMetrics, Ages, PollModels, walkVars
<1> QED
  BY <1>1, <1>2, <1>3 DEF Next, vars, walkVars

LEMMA History == Spec => [](TypeOK /\ HistoryInv)
<1>1. Init => HistoryInv
  BY DEF Init, HistoryInv, NoReply
<1> QED
  BY <1>1, NextHistory, TypeCorrect, PTL DEF Spec

-----------------------------------------------------------------------------
(* A walk gets shorter.                                                       *)

\* A turn of the walk ends at a candidate not before the one it resumes at.
LEMMA ResumeShortens ==
  ASSUME TypeOK, NEW r \in Requests, NEW from \in Nat, NEW c, NEW ev, NEW final,
         Resume(r, walk[r], from, c, ev, final), walk' = walk
  PROVE  /\ pc'[r] \in {"proxy", "release429", "done"}
         /\ pc'[r] = "proxy" => off'[r] \in Nat /\ from <= off'[r] /\ off'[r] < Len(walk[r].cands)
<1>1. Len(walk[r].cands) \in Nat
  BY CandidateListFacts DEF TypeOK, Walk
<1>2. PICK k \in from..Len(walk[r].cands) : \E rj, evk :
        \/ k < Len(walk[r].cands) /\ Attempt(r, walk[r], k, c, rj, evk)
        \/ Exhaust(r, walk[r], c, rj, evk, final)
  BY DEF Resume
<1> PICK rj, evk :
      \/ k < Len(walk[r].cands) /\ Attempt(r, walk[r], k, c, rj, evk)
      \/ Exhaust(r, walk[r], c, rj, evk, final)
  BY <1>2
<1>3. CASE k < Len(walk[r].cands) /\ Attempt(r, walk[r], k, c, rj, evk)
  <2>1. pc'[r] = "proxy" /\ off'[r] = k
    BY <1>3 DEF Attempt, TypeOK
  <2> QED BY <1>1, <1>3, <2>1
<1>4. CASE Exhaust(r, walk[r], c, rj, evk, final)
  BY <1>4 DEF Exhaust, TypeOK
<1> QED
  BY <1>2, <1>3, <1>4

LEMMA HandlerShortens ==
  ASSUME TypeOK, HistoryInv, NEW r \in Requests, Handler(r), pc[r] # "new"
  PROVE  pc'[r] # "new" /\ StepsLeft(r)' < StepsLeft(r)
<1> DEFINE n == Len(walk[r].cands)
<1>1. n \in Nat /\ off[r] \in Nat /\ off[r] + 1 \in Nat
  BY CandidateListFacts DEF TypeOK, Walk
<1>2. pc[r] \in {"proxy", "release"} => off[r] < n
  BY DEF HistoryInv, Recorded
<1>3. /\ pc[r] = "proxy" => StepsLeft(r) = 2 * (n - off[r]) + 1
      /\ pc[r] = "release" => StepsLeft(r) = 2 * (n - off[r])
      /\ pc[r] = "release429" => StepsLeft(r) = 1
  BY DEF StepsLeft
<1>4. ASSUME walk' = walk
      PROVE  /\ pc'[r] = "proxy" => StepsLeft(r)' = 2 * (n - off'[r]) + 1
             /\ pc'[r] = "release" => StepsLeft(r)' = 2 * (n - off'[r])
             /\ pc'[r] = "release429" => StepsLeft(r)' = 1
             /\ pc'[r] = "done" => StepsLeft(r)' = 0
  BY <1>4 DEF StepsLeft
<1>5. CASE UpstreamTransportError(r) \/ Upstream5xx(r) \/ Released(r)
  <2>1. pc[r] \in {"proxy", "release"} /\ walk' = walk
    BY <1>5 DEF UpstreamTransportError, Upstream5xx, Released, handlerFrame
  <2> PICK c, ev, final : Resume(r, walk[r], off[r] + 1, c, ev, final)
    BY <1>5 DEF UpstreamTransportError, Upstream5xx, Released
  <2>2. /\ pc'[r] \in {"proxy", "release429", "done"}
        /\ pc'[r] = "proxy" => off'[r] \in Nat /\ off[r] + 1 <= off'[r] /\ off'[r] < n
    BY <1>1, <2>1, ResumeShortens
  <2> HIDE DEF n
  <2> QED BY <1>1, <1>2, <1>3, <1>4, <2>1, <2>2
<1>6. CASE Upstream5xxDiscarded(r)
  <2>1. pc[r] = "proxy" /\ pc'[r] = "release" /\ walk' = walk /\ off' = off
    BY <1>6 DEF Upstream5xxDiscarded, handlerFrame, TypeOK
  <2> HIDE DEF n
  <2> QED BY <1>1, <1>3, <1>4, <2>1
<1>7. CASE UpstreamOk(r) \/ Released429(r) \/ Raises(r)
  <2>1. pc[r] \in {"proxy", "release", "release429"} /\ pc'[r] = "done" /\ walk' = walk
    BY <1>7 DEF UpstreamOk, Released429, Raises, handlerFrame, TypeOK
  <2> HIDE DEF n
  <2> QED BY <1>1, <1>2, <1>3, <1>4, <2>1
<1>8. CASE Arrive(r)
  BY <1>8 DEF Arrive
<1> QED
  BY <1>5, <1>6, <1>7, <1>8 DEF Handler

\* However polls and any number of other requests interleave with it, a walk
\* over any number of candidates only gets shorter, and its answer is final
\* (app.py:637, 719-771, 829).
THEOREM WalkShortensAlways == Spec => WalkShortens
<1> DEFINE Shortens(r) == pc[r] # "new" =>
             /\ pc'[r] # "new"
             /\ \/ StepsLeft(r)' < StepsLeft(r)
                \/ UNCHANGED <<pc[r], walk[r], off[r], events[r], reply[r]>>
<1>1. TypeOK /\ HistoryInv /\ [Next]_vars => [\A r \in Requests : Shortens(r)]_vars
  <2> SUFFICES ASSUME TypeOK, HistoryInv, Next, NEW q \in Requests PROVE Shortens(q)
    OBVIOUS
  <2>1. ASSUME NEW r \in Requests, Handler(r) PROVE Shortens(q)
    BY <2>1, HandlerShortens, HandlerOwn
  <2>2. ASSUME NEW b \in Backends, Poller(b) PROVE Shortens(q)
    BY <2>2 DEF Poller, PollMetrics, Ages, PollModels, walkVars
  <2> QED BY <2>1, <2>2 DEF Next
<1> QED
  BY <1>1, History, PTL DEF Spec, WalkShortens

\* The remainder is the one number below n that differs by a multiple of n.
LEMMA MultiplesApart ==
  ASSUME NEW n \in Nat \ {0}, NEW p \in Int, NEW q \in Int,
         NEW a \in 0..(n - 1), NEW b \in 0..(n - 1), n * p + a = n * q + b
  PROVE  a = b /\ p = q
<1> DEFINE d == p - q
<1>1. d \in Int /\ n * p - n * q = n * d
  OBVIOUS
<1>2. n * d = b - a /\ n * p \in Int /\ n * q \in Int
  BY <1>1
<1> HIDE DEF d
<1>3. CASE d <= -1
  <2>1. n * d <= -n
    BY <1>1, <1>3
  <2> QED BY <1>2, <2>1
<1>4. CASE d >= 1
  <2>1. n * d >= n
    BY <1>1, <1>4
  <2> QED BY <1>2, <2>1
<1>5. CASE d = 0
  <2>1. n * d = 0
    BY <1>5
  <2> QED BY <1>2, <1>5, <2>1 DEF d
<1> QED
  BY <1>1, <1>3, <1>4, <1>5

LEMMA ModUnique ==
  ASSUME NEW n \in Nat \ {0}, NEW x \in Nat, NEW q \in Int, NEW a \in 0..(n - 1), x = n * q + a
  PROVE  x % n = a
<1> DEFINE b == x % n
           p == x \div n
<1>1. x = n * p + b /\ b \in 0..(n - 1) /\ p \in Int
  OBVIOUS
<1> HIDE DEF b, p
<1>2. a = b
  BY <1>1, MultiplesApart
<1> QED
  BY <1>2 DEF b

\* Offsets less than a list's length apart name different candidates.
LEMMA CandidatesDiffer ==
  ASSUME NEW w \in Walk, NEW i \in Nat, NEW j \in Nat, i < j, j < Len(w.cands)
  PROVE  Candidate(w, i) # Candidate(w, j)
<1> DEFINE n == Len(w.cands)
           s == w.start
           a == (s + i) % n
           b == (s + j) % n
           p == (s + i) \div n
           q == (s + j) \div n
<1>1. /\ w.cands \in Seq(Backends) /\ n \in Nat \ {0} /\ s \in Nat
      /\ \A x, y \in DOMAIN w.cands : w.cands[x] = w.cands[y] => x = y
  BY CandidateListFacts DEF Walk, CandidateLists
<1> HIDE DEF n, s
<1>2. /\ a \in 0..(n - 1) /\ b \in 0..(n - 1) /\ p \in Int /\ q \in Int
      /\ s + i = n * p + a /\ s + j = n * q + b
  BY <1>1
<1> HIDE DEF a, b, p, q
<1>3. a # b
  <2> DEFINE e == j - i
  <2>1. SUFFICES ASSUME a = b PROVE FALSE
    OBVIOUS
  <2>2. e \in 1..(n - 1) /\ 0 \in 0..(n - 1)
    BY <1>1 DEF n
  <2>3. q - p \in Int /\ n * (q - p) + 0 = n * 0 + e
    <3>1. n * (q - p) = n * q - n * p /\ n * 0 = 0
      BY <1>1, <1>2
    <3> QED BY <1>1, <1>2, <2>1, <3>1
  <2> DEFINE d == q - p
  <2>4. d \in Int /\ n * d + 0 = n * 0 + e /\ e \in 0..(n - 1)
    BY <1>1, <2>2, <2>3
  <2> HIDE DEF d, e
  <2>5. 0 = e
    BY <1>1, <2>2, <2>4, MultiplesApart
  <2> QED BY <1>1, <2>2, <2>5
<1>4. a + 1 \in 1..n /\ b + 1 \in 1..n /\ a + 1 # b + 1
  BY <1>1, <1>2, <1>3
<1>5. DOMAIN w.cands = 1..n
  BY <1>1 DEF n
<1>6. w.cands[a + 1] # w.cands[b + 1]
  BY <1>1, <1>4, <1>5
<1> QED
  BY <1>6 DEF Candidate, WalkAt, WalkIndex, At, a, b, n, s

\* Whatever the interleaving and the failures: the failovers a request recorded
\* are the first steps of its walk, in order and without a gap, and its walk is
\* at a candidate it had not visited (app.py:664-760).
THEOREM FailoversFollowWalkAlways == Spec => []FailoversFollowWalk
<1>1. TypeOK /\ HistoryInv => FailoversFollowWalk
  <2> SUFFICES ASSUME TypeOK, HistoryInv, NEW r \in Requests, pc[r] # "new"
               PROVE  LET w == walk[r]
                          n == IF off[r] < Len(w.cands) THEN off[r] ELSE Len(w.cands) - 1
                      IN  /\ Kind(r, "failover") = 1..n
                          /\ \A i \in 1..n : /\ events[r][i].from = Candidate(w, i - 1)
                                             /\ events[r][i].to = Candidate(w, i)
                          /\ \A i \in 0..(n - 1) : Candidate(w, i) # Candidate(w, n)
    BY DEF FailoversFollowWalk
  <2> DEFINE w  == walk[r]
             es == events[r]
             n  == Reached(w, off[r])
  <2>1. w \in Walk /\ off[r] \in Nat /\ es \in Seq(Event) /\ Len(w.cands) \in Nat \ {0}
        /\ pc[r] \in Places
    BY CandidateListFacts DEF TypeOK, Walk
  <2>2. n \in Nat /\ n < Len(w.cands)
    BY <2>1 DEF Reached
  <2>3. Recorded(pc[r], w, off[r], es, reply[r])
    BY DEF HistoryInv
  <2>4. n <= Len(es)
        /\ \A i \in 1..n : /\ es[i].kind = "failover"
                           /\ es[i].from = Candidate(w, i - 1) /\ es[i].to = Candidate(w, i)
    BY <2>3 DEF Recorded, Follows
  <2>5. \A i \in (n + 1)..Len(es) : es[i].kind # "failover"
    <3>1. CASE pc[r] \in {"proxy", "release"}
      <4>1. Len(es) = n
        BY <2>3, <3>1 DEF Recorded, Reached
      <4> QED BY <2>2, <4>1
    <3>2. CASE pc[r] \in {"done", "release429"}
      <4>1. Outcome(es, n, reply[r])
        BY <2>3, <3>2 DEF Recorded
      <4> HIDE DEF n
      <4>2. ASSUME NEW i \in (n + 1)..Len(es), Len(es) <= n + 2
            PROVE  i = n + 1 \/ (i = n + 2 /\ Len(es) = n + 2)
        BY <2>1, <2>2, <4>2
      <4> HIDE DEF es
      <4> QED BY <2>2, <4>1, <4>2 DEF Outcome
    <3> QED BY <2>1, <3>1, <3>2 DEF Places
  <2>6. DOMAIN es = 1..Len(es) /\ Len(es) \in Nat
    BY <2>1
  <2>7. Kind(r, "failover") = 1..n
    <3> HIDE DEF n
    <3>1. ASSUME NEW i \in 1..n PROVE i \in Kind(r, "failover")
      BY <2>2, <2>4, <2>6 DEF Kind
    <3>2. ASSUME NEW i \in Kind(r, "failover") PROVE i \in 1..n
      <4>1. i \in 1..Len(es) /\ es[i].kind = "failover"
        BY <2>6 DEF Kind
      <4> QED BY <2>2, <2>5, <2>6, <4>1
    <3> QED BY <3>1, <3>2
  <2>8. \A i \in 0..(n - 1) : Candidate(w, i) # Candidate(w, n)
    <3> HIDE DEF n
    <3>1. ASSUME NEW i \in 0..(n - 1) PROVE i \in Nat /\ i < n
      BY <2>2
    <3> QED BY <2>1, <2>2, <3>1, CandidatesDiffer
  <2> QED BY <2>4, <2>7, <2>8 DEF Reached
<1> QED
  BY <1>1, History, PTL

\* Every answer the gate decides on is counted once, under the backend it
\* names, whatever the walk met before (app.py:773-877).
THEOREM CountedOnceAlways == Spec => []CountedOnce
<1>1. TypeOK /\ HistoryInv => CountedOnce
  <2> SUFFICES ASSUME TypeOK, HistoryInv, NEW r \in Requests, pc[r] = "done",
                      reply[r].status # "500"
               PROVE  LET forwarded == Kind(r, "forwarded")
                          rejected  == Kind(r, "rejected")
                          refused   == reply[r].status \in {"429", "502"}
                      IN  /\ Cardinality(forwarded) = (IF refused THEN 0 ELSE 1)
                          /\ Cardinality(rejected) = (IF refused THEN 1 ELSE 0)
                          /\ Cardinality(Kind(r, "rejection")) = Cardinality(rejected)
                          /\ \A i \in forwarded \cup rejected :
                               events[r][i].backend = reply[r].backend
    BY DEF CountedOnce, Answered
  <2> DEFINE es == events[r]
             n  == Reached(walk[r], off[r])
  <2>1. /\ off[r] \in Nat /\ es \in Seq(Event) /\ Len(walk[r].cands) \in Nat \ {0}
    BY CandidateListFacts DEF TypeOK, Walk
  <2>2. n \in Nat
    BY <2>1 DEF Reached
  <2>3. Follows(walk[r], es, n) /\ Outcome(es, n, reply[r])
    BY DEF HistoryInv, Recorded
  <2>4. DOMAIN es = 1..Len(es) /\ Len(es) \in Nat
    BY <2>1
  <2>5. \A i \in 1..n : es[i].kind = "failover"
    BY <2>3 DEF Follows
  <2> HIDE DEF n
  <2>6. CASE reply[r].status \in {"ok", "5xx"}
    <3>1. Len(es) = n + 1 /\ es[n + 1].kind = "forwarded" /\ es[n + 1].backend = reply[r].backend
      BY <2>3, <2>6 DEF Outcome
    <3>2. \A i \in DOMAIN es : i \in 1..n \/ i = n + 1
      BY <2>2, <2>4, <3>1
    <3>3. n + 1 \in DOMAIN es
      BY <2>2, <2>4, <3>1
    <3>4. Kind(r, "forwarded") = {n + 1} /\ Kind(r, "rejected") = {} /\ Kind(r, "rejection") = {}
      <4> HIDE DEF es
      <4> QED BY <2>5, <3>1, <3>2, <3>3 DEF Kind, es
    <3>5. Cardinality({n + 1}) = 1 /\ Cardinality({}) = 0
      BY FS_Singleton, FS_EmptySet
    <3>6. \A i \in {n + 1} \cup {} : es[i].backend = reply[r].backend
      BY <3>1
    <3> QED BY <2>6, <3>4, <3>5, <3>6
  <2>7. CASE reply[r].status \in {"429", "502"}
    <3>1. /\ Len(es) = n + 2
          /\ es[n + 1].kind = "rejected" /\ es[n + 1].backend = reply[r].backend
          /\ es[n + 2].kind = "rejection"
      BY <2>3, <2>7 DEF Outcome
    <3>2. \A i \in DOMAIN es : i \in 1..n \/ i = n + 1 \/ i = n + 2
      BY <2>2, <2>4, <3>1
    <3>3. n + 1 \in DOMAIN es /\ n + 2 \in DOMAIN es
      BY <2>2, <2>4, <3>1
    <3>4. /\ Kind(r, "forwarded") = {} /\ Kind(r, "rejected") = {n + 1}
          /\ Kind(r, "rejection") = {n + 2}
      BY <2>5, <3>1, <3>2, <3>3 DEF Kind
    <3>5. Cardinality({n + 1}) = 1 /\ Cardinality({n + 2}) = 1 /\ Cardinality({}) = 0
      BY FS_Singleton, FS_EmptySet
    <3>6. \A i \in {} \cup {n + 1} : es[i].backend = reply[r].backend
      BY <3>1
    <3> QED BY <2>7, <3>4, <3>5, <3>6
  <2> QED BY <2>3, <2>6, <2>7 DEF Outcome
<1> QED
  BY <1>1, History, PTL

-----------------------------------------------------------------------------
(* Round-robin.                                                               *)

\* Only an upstream's answer below 500 is a success and moves an index on.
LEMMA NotServed ==
  ASSUME TypeOK, HistoryInv, NEW r \in Requests, Handler(r), ~UpstreamOk(r)
  PROVE  rr' = rr /\ reply[r].status # "ok" /\ reply'[r].status # "ok"
<1>1. rr' = rr
  BY DEF Handler, Arrive, UpstreamTransportError, Upstream5xx, Upstream5xxDiscarded, Released,
    Released429, Raises
<1>2. pc[r] # "done" /\ pc[r] \in Places
  BY HandlerRecords DEF TypeOK
<1>3. reply[r].status # "ok"
  BY <1>2 DEF HistoryInv, Recorded, Places
<1>4. CASE Upstream5xxDiscarded(r) \/ Released429(r)
  BY <1>1, <1>3, <1>4 DEF Upstream5xxDiscarded, Released429
<1>5. CASE Raises(r)
  BY <1>1, <1>3, <1>5 DEF Raises, Answer, TypeOK
<1>6. CASE \E w, from, c, ev, final : Resume(r, w, from, c, ev, final)
  <2>1. PICK w, k, c, rj, evk, final :
          \/ Attempt(r, w, k, c, rj, evk)
          \/ Exhaust(r, w, c, rj, evk, final)
    BY <1>6 DEF Resume
  <2>2. CASE Attempt(r, w, k, c, rj, evk)
    BY <1>1, <1>3, <2>2 DEF Attempt
  <2>3. CASE Exhaust(r, w, c, rj, evk, final)
    <3>1. \E status \in {"429", "5xx", "502"} : \E b, retry :
            reply' = [reply EXCEPT ![r] = Answer(status, b, retry)]
      BY <2>3 DEF Exhaust
    <3> QED BY <1>1, <1>3, <3>1 DEF Answer, TypeOK
  <2> QED BY <1>1, <1>3, <2>1, <2>2, <2>3
<1> QED
  BY <1>1, <1>3, <1>4, <1>5, <1>6 DEF Handler, Arrive, UpstreamTransportError, Upstream5xx, Released

\* One turn more, modulo the number of candidates.
LEMMA TurnMod ==
  ASSUME NEW n \in Nat \ {0}, NEW k \in Nat
  PROVE  ((k % n) + 1) % n = (k + 1) % n
<1> DEFINE a == k % n
           q == k \div n
<1>1. k = n * q + a /\ a \in 0..(n - 1) /\ q \in Nat
  OBVIOUS
<1> HIDE DEF a, q
<1>2. CASE a + 1 < n
  <2>1. (a + 1) % n = a + 1
    BY <1>1, <1>2
  <2>2. k + 1 = n * q + (a + 1)
    BY <1>1
  <2>3. (k + 1) % n = a + 1
    BY <1>1, <1>2, <2>2, ModUnique
  <2> QED BY <2>1, <2>3 DEF a
<1>3. CASE a + 1 = n
  <2>1. (a + 1) % n = 0
    BY <1>1, <1>3
  <2>2. k + 1 = n * (q + 1) + 0
    <3>1. n * (q + 1) = n * q + n
      BY <1>1
    <3> QED BY <1>1, <1>3, <3>1
  <2>3. (k + 1) % n = 0
    BY <1>1, <2>2, ModUnique
  <2> QED BY <2>1, <2>3 DEF a
<1> QED
  BY <1>1, <1>2, <1>3

TurnsInv ==
  /\ \A m \in Models : IsFiniteSet(Succeeded(m))
  /\ RoundRobinLosesNoTurn

LEMMA HandlerTurns ==
  ASSUME TypeOK, HistoryInv, TurnsInv, NEW r \in Requests, Handler(r)
  PROVE  TurnsInv'
<1>1. \A q \in Requests \ {r} : walk'[q] = walk[q] /\ reply'[q] = reply[q]
  BY HandlerOwn
<1>2. CASE ~UpstreamOk(r)
  <2>1. rr' = rr /\ reply[r].status # "ok" /\ reply'[r].status # "ok"
    BY <1>2, NotServed
  <2>2. ASSUME NEW m \in Models
        PROVE  Succeeded(m)' = Succeeded(m) /\ \A q \in Succeeded(m) : walk'[q] = walk[q]
    BY <1>1, <2>1 DEF Succeeded
  <2> HIDE DEF Handler
  <2> QED BY <2>1, <2>2 DEF TurnsInv, RoundRobinLosesNoTurn
<1>3. CASE UpstreamOk(r)
  <2>1. PICK M \in Models, l \in Nat \ {0} :
          /\ M = walk[r].model /\ l = Len(walk[r].cands)
          /\ walk' = walk
          /\ rr' = [rr EXCEPT ![M] = (rr[M] + 1) % l]
          /\ reply'[r].status = "ok" /\ pc[r] = "proxy"
    BY <1>3, CandidateListFacts DEF UpstreamOk, handlerFrame, Answer, TypeOK, Walk
  <2>2. reply[r].status = "none"
    BY <2>1 DEF HistoryInv, Recorded
  <2>3. /\ r \notin Succeeded(M) /\ Succeeded(M)' = Succeeded(M) \cup {r}
        /\ \A m \in Models \ {M} : Succeeded(m)' = Succeeded(m)
    BY <1>1, <2>1, <2>2 DEF Succeeded
  <2>4. /\ IsFiniteSet(Succeeded(M)')
        /\ Cardinality(Succeeded(M)') = Cardinality(Succeeded(M)) + 1
        /\ Cardinality(Succeeded(M)) \in Nat
    BY <2>1, <2>3, FS_AddElement, FS_CardinalityType DEF TurnsInv
  <2>5. ASSUME NEW m \in Models, NEW n \in 1..Len(BackendOrder),
               \A q \in Succeeded(m)' : Len(walk'[q].cands) = n
        PROVE  rr'[m] = Cardinality(Succeeded(m)') % n
    <3>1. Succeeded(m) \subseteq Succeeded(m)'
      BY <2>3
    <3>2. rr[m] = Cardinality(Succeeded(m)) % n
      BY <2>1, <2>5, <3>1 DEF TurnsInv, RoundRobinLosesNoTurn
    <3>3. CASE m # M
      BY <2>1, <2>3, <3>2, <3>3 DEF TypeOK
    <3>4. CASE m = M
      <4> DEFINE k == Cardinality(Succeeded(M))
      <4>1. l = n
        <5>1. r \in Succeeded(M)'
          BY <2>3
        <5> QED BY <2>1, <2>5, <3>4, <5>1
      <4>2. rr'[m] = ((k % n) + 1) % n
        BY <2>1, <3>2, <3>4, <4>1 DEF TypeOK
      <4>3. n \in Nat \ {0} /\ k \in Nat
        BY <2>1, <2>4, <4>1
      <4> HIDE DEF k
      <4>4. rr'[m] = (k + 1) % n
        BY <4>2, <4>3, TurnMod
      <4> QED BY <2>4, <3>4, <4>4 DEF k
    <3> QED BY <3>3, <3>4
  <2>6. \A m \in Models : IsFiniteSet(Succeeded(m)')
    BY <2>3, <2>4 DEF TurnsInv
  <2> QED BY <2>5, <2>6 DEF TurnsInv, RoundRobinLosesNoTurn
<1> QED
  BY <1>2, <1>3

LEMMA NextTurns == TypeOK /\ HistoryInv /\ TurnsInv /\ [Next]_vars => TurnsInv'
<1> SUFFICES ASSUME TypeOK, HistoryInv, TurnsInv, [Next]_vars PROVE TurnsInv'
  OBVIOUS
<1>1. CASE UNCHANGED <<walk, reply, rr>>
  BY <1>1 DEF TurnsInv, RoundRobinLosesNoTurn, Succeeded
<1>2. ASSUME NEW r \in Requests, Handler(r) PROVE TurnsInv'
  BY <1>2, HandlerTurns
<1>3. ASSUME NEW b \in Backends, Poller(b) PROVE TurnsInv'
  BY <1>1, <1>3 DEF Poller, PollMetrics, Ages, PollModels, walkVars
<1> QED
  BY <1>1, <1>2, <1>3 DEF Next, vars, walkVars

\* However many handlers of a model overlap between reading its round-robin
\* index and moving it on, none of their turns is lost: over a steady number of
\* candidates the index counts the successful forwards (app.py:228-238, 776).
THEOREM RoundRobinLosesNoTurnAlways == Spec => []RoundRobinLosesNoTurn
<1>1. Init => TurnsInv
  <2> SUFFICES ASSUME Init PROVE TurnsInv
    OBVIOUS
  <2>1. ASSUME NEW m \in Models PROVE Succeeded(m) = {} /\ rr[m] = 0
    BY DEF Init, Succeeded, NoReply
  <2>2. \A n \in 1..Len(BackendOrder) : 0 = 0 % n
    <3>1. Len(BackendOrder) \in Nat
      BY ConfigAssumption DEF ValidBackends
    <3> QED BY <3>1
  <2> QED BY <2>1, <2>2, FS_EmptySet DEF TurnsInv, RoundRobinLosesNoTurn
<1>2. TurnsInv => RoundRobinLosesNoTurn
  BY DEF TurnsInv
<1> QED
  BY <1>1, <1>2, NextTurns, History, PTL DEF Spec
=============================================================================
