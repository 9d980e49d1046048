----------------------------- MODULE PoolProofs ------------------------------
(* Theorems of UpstreamPool, for any number of requests, pollers, candidates  *)
(* and connections.                                                           *)
EXTENDS UpstreamPool, FiniteSetTheorems, TLAPS

Places == {"idle", "walking", "waiting", "sent", "discarding", "last_5xx", "streaming", "done"}

\* Where a call holds a connection.
Holding == {"sent", "discarding", "last_5xx", "streaming"}

\* Where a request has a current candidate.
Trying == {"waiting", "sent", "discarding", "last_5xx"}

\* TypeOK bounds a cardinality, which means something of finite sets only; a
\* step counts `left` down only from a candidate it has; and what the step hands
\* back is its user's one connection.
PoolInv ==
  /\ TypeOK
  /\ IsFiniteSet(open)
  /\ \A r \in Requests : at[r] \in Trying => left[r] > 0
  /\ NothingStranded

-----------------------------------------------------------------------------
(* A user that is nowhere near a connection holds none.                       *)

LEMMA HoldsNone ==
  ASSUME PoolInv, NEW u \in Users, at[u] \notin Holding
  PROVE  \A c \in open : c[1] # u
  BY DEF PoolInv, NothingStranded, Holding

\* Handing back the current connection of a user leaves it none.
LEMMA HandsBack ==
  ASSUME PoolInv, NEW u \in Users
  PROVE  \A c \in open \ {Held(u)} : c[1] # u
  BY DEF PoolInv, NothingStranded

\* The pool stays finite and within its limit when a connection is handed back.
LEMMA PoolShrinks ==
  ASSUME PoolInv, NEW u \in Users, open' \in {open, open \ {Held(u)}}
  PROVE  /\ open' \subseteq Users \X (0..Candidates)
         /\ IsFiniteSet(open')
         /\ Cardinality(open') <= MaxConnections
<1>1. IsFiniteSet(open) /\ Cardinality(open) <= MaxConnections
  BY DEF PoolInv, TypeOK
<1>2. MaxConnections \in Nat
  BY PoolAssumption
<1>3. Cardinality(open) \in Nat
  BY <1>1, FS_CardinalityType
<1>4. CASE open' = open \ {Held(u)}
  <2>1. /\ IsFiniteSet(open \ {Held(u)})
        /\ Cardinality(open \ {Held(u)}) =
             IF Held(u) \in open THEN Cardinality(open) - 1 ELSE Cardinality(open)
    BY <1>1, FS_RemoveElement
  <2> QED BY <1>1, <1>2, <1>3, <1>4, <2>1 DEF PoolInv, TypeOK
<1> QED
  BY <1>1, <1>4 DEF PoolInv, TypeOK

-----------------------------------------------------------------------------
(* The three kinds of step.                                                   *)

\* A step of u to a place where it holds nothing, after it gave back what it
\* had: every other call keeps its connection.
LEMMA LetsGo ==
  ASSUME PoolInv, NEW u \in Users, NEW place \in Places, Goes(u, place),
         open' \in {open, open \ {Held(u)}},
         \A c \in open' : c[1] # u,
         left' = left \/ (u \in Requests /\ left[u] > 0 /\ left' = [left EXCEPT ![u] = @ - 1]),
         u \in Requests => place \notin Trying \/ (left' = left /\ left[u] > 0),
         rejected' \subseteq Requests
  PROVE  PoolInv'
<1>1. /\ open' \subseteq Users \X (0..Candidates)
      /\ IsFiniteSet(open')
      /\ Cardinality(open') <= MaxConnections
  BY PoolShrinks
<1>2. at \in [Users -> Places] /\ left \in [Users -> 0..Candidates]
  BY DEF PoolInv, TypeOK, Places
<1>3. at' = [at EXCEPT ![u] = place]
  BY DEF Goes
<1>4. Candidates \in Nat /\ Requests \subseteq Users
  BY PoolAssumption DEF Users
<1>5. at' \in [Users -> Places]
  BY <1>2, <1>3
<1>6. left' \in [Users -> 0..Candidates]
  BY <1>2, <1>4
<1>7. \A w \in Users : w # u => at'[w] = at[w] /\ left'[w] = left[w]
  BY <1>2, <1>3
<1>8. \A r \in Requests : at'[r] \in Trying => left'[r] > 0
  <2>1. ASSUME NEW r \in Requests, r # u, at'[r] \in Trying PROVE left'[r] > 0
    BY <1>4, <1>7, <2>1 DEF PoolInv
  <2>2. ASSUME u \in Requests, at'[u] \in Trying PROVE left'[u] > 0
    BY <1>2, <1>3, <2>2
  <2> QED BY <2>1, <2>2
<1>9. NothingStranded'
  <2> SUFFICES ASSUME NEW c \in open'
               PROVE  c = <<c[1], left'[c[1]]>> /\ at'[c[1]] \in Holding
    BY DEF NothingStranded, Held, Holding
  <2>1. c \in open /\ c[1] # u /\ c[1] \in Users
    BY DEF PoolInv, TypeOK
  <2>2. c = <<c[1], left[c[1]]>> /\ at[c[1]] \in Holding
    BY <2>1 DEF PoolInv, NothingStranded, Held, Holding
  <2> QED BY <1>7, <2>1, <2>2
<1> QED
  BY <1>1, <1>5, <1>6, <1>8, <1>9 DEF PoolInv, TypeOK, Places

\* A step of u that keeps what it has on to another place where that is held.
LEMMA Keeps ==
  ASSUME PoolInv, NEW u \in Users, NEW place \in Holding, Goes(u, place),
         at[u] \in Holding, UNCHANGED <<left, open>>,
         u \in Requests /\ place \in Trying => left[u] > 0,
         rejected' \subseteq Requests
  PROVE  PoolInv'
<1>1. at \in [Users -> Places]
  BY DEF PoolInv, TypeOK, Places
<1>2. at' = [at EXCEPT ![u] = place]
  BY DEF Goes
<1>3. at' \in [Users -> Places]
  BY <1>1, <1>2 DEF Places, Holding
<1>4. \A r \in Requests : at'[r] \in Trying => left'[r] > 0
  BY <1>1, <1>2 DEF PoolInv, Users
<1>5. NothingStranded'
  <2> SUFFICES ASSUME NEW c \in open
               PROVE  c = <<c[1], left[c[1]]>> /\ at'[c[1]] \in Holding
    BY DEF NothingStranded, Held, Holding
  <2>1. c = <<c[1], left[c[1]]>> /\ at[c[1]] \in Holding /\ c[1] \in Users
    BY DEF PoolInv, TypeOK, NothingStranded, Held, Holding
  <2> QED BY <1>1, <1>2, <2>1
<1> QED
  BY <1>3, <1>4, <1>5 DEF PoolInv, TypeOK, Places

\* The pool gives out a connection only below its limit.
LEMMA AcquiresKeeps ==
  ASSUME PoolInv, NEW u \in Users, Acquires(u)
  PROVE  PoolInv'
<1>1. /\ at[u] = "waiting" /\ Cardinality(open) < MaxConnections
      /\ at' = [at EXCEPT ![u] = "sent"] /\ open' = open \cup {Held(u)}
      /\ UNCHANGED <<left, rejected>>
  BY DEF Acquires, Goes
<1>2. at \in [Users -> Places] /\ left \in [Users -> 0..Candidates] /\ IsFiniteSet(open)
  BY DEF PoolInv, TypeOK, Places
<1>3. IsFiniteSet(open') /\ Cardinality(open') <= MaxConnections
  <2>1. /\ IsFiniteSet(open \cup {Held(u)})
        /\ Cardinality(open \cup {Held(u)}) =
             IF Held(u) \in open THEN Cardinality(open) ELSE Cardinality(open) + 1
    BY <1>2, FS_AddElement
  <2>2. Cardinality(open) \in Nat
    BY <1>2, FS_CardinalityType
  <2>3. MaxConnections \in Nat
    BY PoolAssumption
  <2> QED BY <1>1, <2>1, <2>2, <2>3
<1>4. open' \subseteq Users \X (0..Candidates)
  BY <1>1, <1>2 DEF PoolInv, TypeOK, Held
<1>5. \A r \in Requests : at'[r] \in Trying => left'[r] > 0
  BY <1>1, <1>2 DEF PoolInv, Users, Trying
<1>6. NothingStranded'
  <2> SUFFICES ASSUME NEW c \in open'
               PROVE  c = <<c[1], left[c[1]]>> /\ at'[c[1]] \in Holding
    BY <1>1 DEF NothingStranded, Held, Holding
  <2>1. CASE c = Held(u)
    BY <1>1, <1>2, <2>1 DEF Held, Holding
  <2>2. CASE c \in open
    <3>1. c = <<c[1], left[c[1]]>> /\ at[c[1]] \in Holding /\ c[1] \in Users
      BY <2>2 DEF PoolInv, TypeOK, NothingStranded, Held, Holding
    <3> QED BY <1>1, <1>2, <3>1 DEF Holding
  <2> QED BY <1>1, <2>1, <2>2
<1>7. at' \in [Users -> Places]
  BY <1>1, <1>2 DEF Places
<1> QED
  BY <1>1, <1>2, <1>3, <1>4, <1>5, <1>6, <1>7 DEF PoolInv, TypeOK, Places

-----------------------------------------------------------------------------
(* One step per action.                                                       *)

LEMMA TimesOutKeeps ==
  ASSUME PoolInv, NEW u \in Users, TimesOut(u)
  PROVE  PoolInv'
<1>1. at[u] = "waiting" /\ UNCHANGED <<rejected, open>>
  BY DEF TimesOut
<1>2. \A c \in open' : c[1] # u
  BY <1>1, HoldsNone DEF Holding
<1>3. rejected' \subseteq Requests
  BY <1>1 DEF PoolInv, TypeOK
<1>4. CASE u \in Requests
  <2>1. Goes(u, "walking") /\ left' = [left EXCEPT ![u] = @ - 1]
    BY <1>4 DEF TimesOut, Skips
  <2>2. left[u] > 0
    BY <1>1, <1>4 DEF PoolInv, Trying
  <2> QED BY <1>1, <1>2, <1>3, <1>4, <2>1, <2>2, LetsGo DEF Places, Trying
<1>5. CASE u \notin Requests
  <2>1. Goes(u, "idle") /\ UNCHANGED left
    BY <1>5 DEF TimesOut
  <2> QED BY <1>1, <1>2, <1>3, <1>5, <2>1, LetsGo DEF Places
<1> QED
  BY <1>4, <1>5

\* The steps of a request that has no connection.
LEMMA WalkingKeeps ==
  ASSUME PoolInv, NEW r \in Requests, Rejects(r) \/ Asks(r) \/ Refuses(r)
  PROVE  PoolInv'
<1>1. at[r] = "walking" /\ UNCHANGED open /\ r \in Users
  BY DEF Rejects, Asks, Refuses, Users
<1>2. \A c \in open' : c[1] # r
  BY <1>1, HoldsNone DEF Holding
<1>3. rejected \subseteq Requests
  BY DEF PoolInv, TypeOK
<1>4. CASE Rejects(r)
  <2>1. /\ Goes(r, "walking") /\ left[r] > 0 /\ left' = [left EXCEPT ![r] = @ - 1]
        /\ rejected' \subseteq Requests
    BY <1>3, <1>4 DEF Rejects, Skips
  <2> QED BY <1>1, <1>2, <2>1, LetsGo DEF Places, Trying
<1>5. CASE Asks(r)
  <2>1. Goes(r, "waiting") /\ left[r] > 0 /\ UNCHANGED <<left, rejected>>
    BY <1>5 DEF Asks
  <2> QED BY <1>1, <1>2, <1>3, <2>1, LetsGo DEF Places
<1>6. CASE Refuses(r)
  <2>1. Goes(r, "done") /\ UNCHANGED <<left, rejected>>
    BY <1>6 DEF Refuses
  <2> QED BY <1>1, <1>2, <1>3, <2>1, LetsGo DEF Places, Trying
<1> QED
  BY <1>4, <1>5, <1>6

\* The steps that give a connection back.
LEMMA GivesBackKeeps ==
  ASSUME PoolInv, NEW u \in Users, NEW place \in Places \ Trying,
         open' = open \ {Held(u)}, rejected' = rejected,
         \/ Goes(u, place) /\ UNCHANGED left
         \/ at[u] \in Trying /\ u \in Requests /\ place = "walking" /\ Skips(u)
  PROVE  PoolInv'
<1>1. \A c \in open' : c[1] # u
  BY HandsBack
<1>2. rejected' \subseteq Requests
  BY DEF PoolInv, TypeOK
<1>3. Goes(u, place)
  BY DEF Skips
<1>4. left' = left \/ (u \in Requests /\ left[u] > 0 /\ left' = [left EXCEPT ![u] = @ - 1])
  BY DEF Skips, PoolInv
<1> QED
  BY <1>1, <1>2, <1>3, <1>4, LetsGo

LEMMA ConnectedKeeps ==
  ASSUME PoolInv, NEW r \in Requests,
         \/ TransportError(r) \/ Answers(r) \/ AnswersWith5xx(r) \/ Discards(r)
         \/ DiscardRaises(r) \/ Exhausts(r) \/ BodyEnds(r)
  PROVE  PoolInv'
<1>1. r \in Users /\ rejected \subseteq Requests
  BY DEF Users, PoolInv, TypeOK
<1>2. {"walking", "done"} \subseteq Places \ Trying
  BY DEF Places, Trying
<1>3. CASE TransportError(r)
  BY <1>1, <1>2, <1>3, GivesBackKeeps DEF TransportError, Trying
<1>4. CASE Answers(r) /\ r \in Streaming
  <2>1. at[r] = "sent" /\ Goes(r, "streaming") /\ UNCHANGED <<left, open, rejected>>
    BY <1>4 DEF Answers
  <2> QED BY <1>1, <2>1, Keeps DEF Holding, Trying
<1>5. CASE Answers(r) /\ r \notin Streaming
  <2>1. Goes(r, "done") /\ open' = open \ {Held(r)} /\ UNCHANGED <<left, rejected>>
    BY <1>5 DEF Answers
  <2> QED BY <1>1, <1>2, <2>1, GivesBackKeeps
<1>6. CASE AnswersWith5xx(r) /\ r \in Streaming
  <2>1. PICK place \in {"discarding", "last_5xx"} : Goes(r, place)
    BY <1>6 DEF AnswersWith5xx
  <2>2. at[r] = "sent" /\ UNCHANGED <<left, open, rejected>>
    BY <1>6 DEF AnswersWith5xx
  <2>3. left[r] > 0
    BY <2>2 DEF PoolInv, Trying
  <2> QED BY <1>1, <2>1, <2>2, <2>3, Keeps DEF Holding
<1>7. CASE AnswersWith5xx(r) /\ r \notin Streaming
  <2>1. at[r] = "sent" /\ Skips(r) /\ open' = open \ {Held(r)} /\ UNCHANGED rejected
    BY <1>7 DEF AnswersWith5xx
  <2> QED BY <1>1, <1>2, <2>1, GivesBackKeeps DEF Trying
<1>8. CASE Discards(r)
  BY <1>1, <1>2, <1>8, GivesBackKeeps DEF Discards, Closes, Trying
<1>9. CASE DiscardRaises(r)
  BY <1>1, <1>2, <1>9, GivesBackKeeps DEF DiscardRaises
<1>10. CASE Exhausts(r) /\ r \in rejected
  BY <1>1, <1>2, <1>10, GivesBackKeeps DEF Exhausts, Closes
<1>11. CASE Exhausts(r) /\ r \notin rejected
  <2>1. at[r] = "last_5xx" /\ Goes(r, "streaming") /\ UNCHANGED <<left, open, rejected>>
    BY <1>11 DEF Exhausts
  <2> QED BY <1>1, <2>1, Keeps DEF Holding, Trying
<1>12. CASE BodyEnds(r)
  BY <1>1, <1>2, <1>12, GivesBackKeeps DEF BodyEnds
<1> QED
  BY <1>3, <1>4, <1>5, <1>6, <1>7, <1>8, <1>9, <1>10, <1>11, <1>12

LEMMA PollerKeeps ==
  ASSUME PoolInv, NEW p \in Pollers, Polls(p) \/ PollEnds(p)
  PROVE  PoolInv'
<1>1. p \in Users /\ p \notin Requests /\ rejected \subseteq Requests
  BY PoolAssumption DEF Users, PoolInv, TypeOK
<1>2. CASE Polls(p)
  <2>1. at[p] = "idle" /\ Goes(p, "waiting") /\ UNCHANGED <<left, rejected, open>>
    BY <1>2 DEF Polls
  <2>2. \A c \in open' : c[1] # p
    BY <1>1, <2>1, HoldsNone DEF Holding
  <2> QED BY <1>1, <2>1, <2>2, LetsGo DEF Places
<1>3. CASE PollEnds(p)
  <2>1. "idle" \in Places \ Trying
    BY DEF Places, Trying
  <2> QED BY <1>1, <1>3, <2>1, GivesBackKeeps DEF PollEnds
<1> QED
  BY <1>2, <1>3

-----------------------------------------------------------------------------
(* The theorems.                                                              *)

LEMMA InitPool == Init => PoolInv
<1> SUFFICES ASSUME Init PROVE PoolInv
  OBVIOUS
<1>1. IsFiniteSet(open) /\ Cardinality(open) = 0
  BY FS_EmptySet DEF Init
<1>2. Candidates \in Nat \ {0} /\ MaxConnections \in Nat \ {0}
  BY PoolAssumption
<1>3. TypeOK
  BY <1>1, <1>2 DEF Init, TypeOK
<1>4. \A r \in Requests : at[r] \notin Trying
  BY DEF Init, Users, Trying
<1>5. NothingStranded
  BY DEF Init, NothingStranded
<1> QED
  BY <1>1, <1>3, <1>4, <1>5 DEF PoolInv

LEMMA NextPool == PoolInv /\ [Next]_vars => PoolInv'
<1> SUFFICES ASSUME PoolInv, [Next]_vars PROVE PoolInv'
  OBVIOUS
<1>1. CASE UNCHANGED vars
  BY <1>1 DEF vars, PoolInv, TypeOK, NothingStranded, Held
<1>2. ASSUME NEW u \in Users, Acquires(u) \/ TimesOut(u) PROVE PoolInv'
  BY <1>2, AcquiresKeeps, TimesOutKeeps
<1>3. ASSUME NEW r \in Requests, RequestNext(r) PROVE PoolInv'
  BY <1>3, WalkingKeeps, ConnectedKeeps DEF RequestNext
<1>4. ASSUME NEW p \in Pollers, Polls(p) \/ PollEnds(p) PROVE PoolInv'
  BY <1>4, PollerKeeps
<1> QED
  BY <1>1, <1>2, <1>3, <1>4 DEF Next

LEMMA PoolInvariant == Spec => []PoolInv
<1> QED
  BY InitPool, NextPool, PTL DEF Spec

\* The requests and the pollers together never use more than the pool's limit,
\* and the walk never counts below its last candidate (app.py:612-770).
THEOREM PoolTypeCorrect == Spec => []TypeOK
<1>1. PoolInv => TypeOK
  BY DEF PoolInv
<1> QED
  BY <1>1, PoolInvariant, PTL

\* However many requests walk over however many candidates: a connection is held
\* only by the current call of its user, so that a request that waits for one,
\* or was answered, holds none (proxy.py:85-100, app.py:277-300, 734-770).
THEOREM NothingStrandedAlways == Spec => []NothingStranded
<1>1. PoolInv => NothingStranded
  BY DEF PoolInv
<1> QED
  BY <1>1, PoolInvariant, PTL
=============================================================================
