---------------------------- MODULE UpstreamPool -----------------------------
(* Who holds the connections of the one upstream client that all requests and *)
(* all pollers share.  A request walks over its candidates (app.py) and holds *)
(* at most one connection: a buffered answer gives it back, a streamed one    *)
(* keeps it until its body is exhausted or closed (proxy.py).  What decides   *)
(* between a rejection, an answer and an error is left open; FailoverWalk has *)
(* it.                                                                        *)
EXTENDS Integers, FiniteSets

CONSTANTS
  Requests,       \* generation requests
  Streaming,      \* those with `stream: true`
  Pollers,        \* the backends' pollers
  Candidates,     \* how many candidates a request has
  MaxConnections  \* the pool's limit (httpx's default, 100)

ASSUME PoolAssumption ==
  /\ Streaming \subseteq Requests
  /\ Requests \cap Pollers = {}
  /\ Candidates \in Nat \ {0}
  /\ MaxConnections \in Nat \ {0}

VARIABLES
  at,        \* where each request and each poller is
  left,      \* the candidates a request has left, the current one included
  rejected,  \* the requests a candidate was too full for
  open       \* the connections in use: <<owner, its `left` when it took it>>

vars == <<at, left, rejected, open>>

Users == Requests \cup Pollers

TypeOK ==
  /\ at \in [Users -> {"idle", "walking", "waiting", "sent", "discarding",
                       "last_5xx", "streaming", "done"}]
  /\ left \in [Users -> 0..Candidates]
  /\ rejected \subseteq Requests
  /\ open \subseteq Users \X (0..Candidates)
  /\ Cardinality(open) <= MaxConnections

Init ==
  /\ at = [u \in Users |-> IF u \in Requests THEN "walking" ELSE "idle"]
  /\ left = [u \in Users |-> IF u \in Requests THEN Candidates ELSE 0]
  /\ rejected = {}
  /\ open = {}

Held(u) == <<u, left[u]>>

Goes(u, place) == at' = [at EXCEPT ![u] = place]

\* On to the next candidate, which may be none.
Skips(r) ==
  /\ Goes(r, "walking")
  /\ left' = [left EXCEPT ![r] = @ - 1]

-----------------------------------------------------------------------------
(* The pool, which is httpx's: a user waits for a connection for the pool     *)
(* timeout at most, and gets a PoolTimeout, which is a transport error.       *)

Acquires(u) ==
  /\ at[u] = "waiting"
  /\ Cardinality(open) < MaxConnections
  /\ Goes(u, "sent")
  /\ open' = open \cup {Held(u)}
  /\ UNCHANGED <<left, rejected>>

\* Mutant of TimesOut: the pollers have no pool timeout.
TimesOutRequests(u) ==
  /\ u \in Requests
  /\ at[u] = "waiting"
  /\ Cardinality(open) = MaxConnections
  /\ Skips(u)
  /\ UNCHANGED <<rejected, open>>

TimesOut(u) ==
  /\ at[u] = "waiting"
  /\ Cardinality(open) = MaxConnections
  /\ IF u \in Requests THEN Skips(u) ELSE Goes(u, "idle") /\ UNCHANGED left
  /\ UNCHANGED <<rejected, open>>

-----------------------------------------------------------------------------
(* A request.                                                                 *)

Rejects(r) ==
  /\ at[r] = "walking"
  /\ left[r] > 0
  /\ rejected' = rejected \cup {r}
  /\ Skips(r)
  /\ UNCHANGED open

\* Mutant of Asks: the walk goes on after the last candidate.
AsksForEver(r) ==
  /\ at[r] = "walking"
  /\ Goes(r, "waiting")
  /\ UNCHANGED <<left, rejected, open>>

Asks(r) ==
  /\ at[r] = "walking"
  /\ left[r] > 0
  /\ Goes(r, "waiting")
  /\ UNCHANGED <<left, rejected, open>>

TransportError(r) ==
  /\ at[r] = "sent"
  /\ Skips(r)
  /\ open' = open \ {Held(r)}
  /\ UNCHANGED rejected

Answers(r) ==
  /\ at[r] = "sent"
  /\ IF r \in Streaming
     THEN Goes(r, "streaming") /\ UNCHANGED open
     ELSE Goes(r, "done") /\ open' = open \ {Held(r)}
  /\ UNCHANGED <<left, rejected>>

\* A 5xx: its body is discarded if there is a next candidate, and kept with its
\* connection if there is none.
AnswersWith5xx(r) ==
  /\ at[r] = "sent"
  /\ IF r \in Streaming
     THEN Goes(r, IF left[r] > 1 THEN "discarding" ELSE "last_5xx") /\ UNCHANGED <<left, open>>
     ELSE Skips(r) /\ open' = open \ {Held(r)}
  /\ UNCHANGED rejected

\* Mutant of Closes: closing a generator that was not started does nothing.
ClosesUnstarted(r) == UNCHANGED open

\* _release_streaming_response: the generator is started, so that closing it
\* runs its finally.
Closes(r) == open' = open \ {Held(r)}

\* The first chunk of a body that is discarded may take for ever.
Discards(r) ==
  /\ at[r] = "discarding"
  /\ Closes(r)
  /\ Skips(r)
  /\ UNCHANGED rejected

\* The read of the first chunk raises: the finally runs all the same, and the
\* exception leaves the handler.
DiscardRaises(r) ==
  /\ at[r] \in {"discarding", "last_5xx"}
  /\ at[r] = "last_5xx" => r \in rejected
  /\ Goes(r, "done")
  /\ open' = open \ {Held(r)}
  /\ UNCHANGED <<left, rejected>>

\* After the last candidate a reject makes the answer a 429, and the kept 5xx is
\* discarded; else the 5xx is the answer.
Exhausts(r) ==
  /\ at[r] = "last_5xx"
  /\ IF r \in rejected THEN Closes(r) /\ Goes(r, "done") ELSE Goes(r, "streaming") /\ UNCHANGED open
  /\ UNCHANGED <<left, rejected>>

\* An answer that needs no connection: a 429, a 502, or a 5xx that was buffered.
Refuses(r) ==
  /\ at[r] = "walking"
  /\ left[r] = 0
  /\ Goes(r, "done")
  /\ UNCHANGED <<left, rejected, open>>

\* The body ends, the backend breaks it off or the client goes away: the
\* server, which starts every body it is given, ends or closes the generator
\* (external), and its finally closes the upstream response.
BodyEnds(r) ==
  /\ at[r] = "streaming"
  /\ Goes(r, "done")
  /\ open' = open \ {Held(r)}
  /\ UNCHANGED <<left, rejected>>

-----------------------------------------------------------------------------
(* A poller.                                                                  *)

Polls(p) ==
  /\ at[p] = "idle"
  /\ Goes(p, "waiting")
  /\ UNCHANGED <<left, rejected, open>>

\* Its backend may never answer.
PollEnds(p) ==
  /\ at[p] = "sent"
  /\ Goes(p, "idle")
  /\ open' = open \ {Held(p)}
  /\ UNCHANGED <<left, rejected>>

RequestNext(r) ==
  \/ Rejects(r) \/ Asks(r) \/ TransportError(r) \/ Answers(r) \/ AnswersWith5xx(r)
  \/ Discards(r) \/ DiscardRaises(r) \/ Exhausts(r) \/ Refuses(r) \/ BodyEnds(r)

Next ==
  \/ \E u \in Users : Acquires(u) \/ TimesOut(u)
  \/ \E r \in Requests : RequestNext(r)
  \/ \E p \in Pollers : Polls(p) \/ PollEnds(p)

Spec == Init /\ [][Next]_vars

\* A wait ends by the pool's own timeout if not before, and the handler goes on
\* where it waits for nobody.  No backend has to answer and no client to read.
Fairness ==
  /\ \A u \in Users : WF_vars(Acquires(u) \/ TimesOut(u))
  /\ \A r \in Requests : WF_vars(Rejects(r) \/ Asks(r)) /\ WF_vars(Refuses(r))

FairSpec == Spec /\ Fairness
-----------------------------------------------------------------------------
(* Properties.                                                                *)

\* Every connection in use is the current one of a call that will give it back:
\* no way through the walk leaves one behind, and a request that waits for a
\* connection, or has been answered, holds none, so that requests never wait for
\* each other (proxy.py:85-100, app.py:277-300, 734-770, 829).
NothingStranded ==
  \A c \in open :
    c = Held(c[1]) /\ at[c[1]] \in {"sent", "discarding", "last_5xx", "streaming"}

\* No request and no poller waits for a connection for ever, even if every
\* connection is held by a stream that never ends (app.py:163, main.py:36,
\* poller.py:323).
WaitsEnd == \A u \in Users : at[u] = "waiting" ~> at[u] # "waiting"
=============================================================================
