--------------------------- MODULE WalkProperties ----------------------------
(* What the failover walk promises its clients and its operators: properties  *)
(* of FailoverWalk that sum over requests or read whole histories.            *)
EXTENDS FailoverWalk, FiniteSets, Functions

\* The charges taken from the current anchor of b and not rolled back.
Claims(b) ==
  {r \in Requests : /\ hold[r].backend = b /\ hold[r].live /\ hold[r].took
                    /\ hold[r].seq = anchor_seq[b]}

\* What the requests of rs were charged.
Charged(rs) == SumFunctionOnSet([r \in Requests |-> hold[r].charge], rs)

\* No charge is lost, doubled or refunded to a later anchor: an anchored
\* counter is the headroom it was anchored with, less the charges taken from
\* that anchor and not rolled back (app.py:708-742, poller.py:384-403).
LedgerBalance ==
  \A b \in Backends : counter[b] # None =>
    counter[b] = AnchorRemaining(b, anchor[b].capacity, anchor[b].usage) - Charged(Claims(b))

\* What was admitted on a fresh feed since the anchor keeps the projected usage
\* of a backend at or below its target, or admits nothing of any size.
TargetRespected ==
  \A b \in Backends : counter[b] # None =>
    LET admitted == Charged({r \in Claims(b) : ~hold[r].open})
        used     == Clamp(anchor[b].usage, 0, FracOne) * anchor[b].capacity
    IN  admitted > 0 =>
          100 * (used + admitted * FracOne) <= TargetPct[b] * FracOne * anchor[b].capacity

\* The places of r's events of one kind.
Kind(r, kind) == {i \in DOMAIN events[r] : events[r][i].kind = kind}

\* The failovers a request recorded are the steps of its walk, in order and
\* without a gap: they come before any other event, it is at the candidate its
\* last failover names, and it never visited that one before.
FailoversFollowWalk ==
  \A r \in Requests : pc[r] # "new" =>
    LET w == walk[r]
        n == IF off[r] < Len(w.cands) THEN off[r] ELSE Len(w.cands) - 1
    IN  /\ Kind(r, "failover") = 1..n
        /\ \A i \in 1..n : /\ events[r][i].from = Candidate(w, i - 1)
                           /\ events[r][i].to = Candidate(w, i)
        /\ \A i \in 0..(n - 1) : Candidate(w, i) # Candidate(w, n)

\* The steps a started walk has left at most: two a candidate, its call and a
\* release, and the release before a 429.
StepsLeft(r) ==
  CASE pc[r] = "proxy" -> 2 * (Len(walk[r].cands) - off[r]) + 1
    [] pc[r] = "release" -> 2 * (Len(walk[r].cands) - off[r])
    [] pc[r] = "release429" -> 1
    [] OTHER -> 0

\* Every step of a started walk brings it nearer to its answer, and nothing that
\* polls and other requests do sets it back; an answer is final.  So a request
\* costs at most one call of each candidate (app.py:637, 719-771, 829).
WalkShortens ==
  [][\A r \in Requests : pc[r] # "new" =>
       /\ pc'[r] # "new"
       /\ \/ StepsLeft(r)' < StepsLeft(r)
          \/ UNCHANGED <<pc[r], walk[r], off[r], events[r], reply[r]>>]_vars

Answered(r) == pc[r] = "done"

\* A client is refused only when no candidate would serve it: every candidate
\* was tried, a 429 names the first of the longest Retry-Afters among the
\* candidates that rejected, and a request that was never rejected gets no 429.
RefusalIsTheWalks ==
  \A r \in Requests : Answered(r) =>
    LET rj == rejects[r]
    IN  /\ reply[r].status \in {"429", "502", "5xx"} => off[r] = Len(walk[r].cands)
        /\ reply[r].status = "429" =>
             /\ rj # <<>>
             /\ \A i \in DOMAIN rj : rj[i].retry <= reply[r].retry
             /\ \E i \in DOMAIN rj :
                  /\ rj[i].backend = reply[r].backend /\ rj[i].retry = reply[r].retry
                  /\ \A j \in 1..(i - 1) : rj[j].retry < reply[r].retry
        /\ reply[r].status \in {"502", "5xx"} => rj = <<>>

\* Every answer the gate decides on is counted once, under the backend it names,
\* and a refusal has exactly one reason (app.py:773-877).
CountedOnce ==
  \A r \in Requests : Answered(r) /\ reply[r].status # "500" =>
    LET forwarded == Kind(r, "forwarded")
        rejected  == Kind(r, "rejected")
        refused   == reply[r].status \in {"429", "502"}
    IN  /\ Cardinality(forwarded) = (IF refused THEN 0 ELSE 1)
        /\ Cardinality(rejected) = (IF refused THEN 1 ELSE 0)
        /\ Cardinality(Kind(r, "rejection")) = Cardinality(rejected)
        /\ \A i \in forwarded \cup rejected : events[r][i].backend = reply[r].backend

Succeeded(m) == {r \in Requests : walk[r].model = m /\ reply[r].status = "ok"}

\* Requests of one model that overlap read the same round-robin index, but none
\* of their turns is lost: over a steady number of candidates the index is the
\* number of successful forwards (app.py:228-238, 631-634 and 776).
RoundRobinLosesNoTurn ==
  \A m \in Models, n \in 1..Len(BackendOrder) :
    (\A r \in Succeeded(m) : Len(walk[r].cands) = n)
      => rr[m] = Cardinality(Succeeded(m)) % n

-----------------------------------------------------------------------------
(* What the documentation says and the code does not keep.                    *)

\* app.py:53-55 and README.md:177: a 502 is the answer when every candidate
\* failed at transport and no upstream answered with a 5xx.
BadGatewayMeansNoAnswer ==
  \A r \in Requests : Answered(r) /\ reply[r].status = "502" =>
    \A i \in Kind(r, "failover") : events[r][i].reason = "transport"

\* README.md:163: a pre-stream 5xx is a skip and the walk never short-circuits;
\* README.md:174: any candidate that rejected makes the answer a 429.  Releasing
\* a discarded 5xx therefore never ends a request with an error of the gate.
DiscardedAnswerIsSkipped ==
  [][\A r \in Requests :
       pc[r] \in {"release", "release429"} => reply'[r].status # "500"]_vars

\* README.md:140: fill and primary_fallback reach the same surviving candidate
\* for every request.  primary_fallback has rejected every candidate before the
\* one fill starts at, so fill must not be served by one of those.
FillServedAsPrimary ==
  \A r \in Requests :
    LET w == walk[r]
    IN  /\ Answered(r) /\ reply[r].status = "ok"
        /\ w.model \in DOMAIN RoutingSpecs
        /\ RoutingSpecs[w.model].policy = "fill"
        => w.start + off[r] < Len(w.cands)
=============================================================================
