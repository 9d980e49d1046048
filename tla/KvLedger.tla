------------------------------ MODULE KvLedger -------------------------------
(* What the headroom counters promise, without saying how: each backend has   *)
(* an available headroom, void until a poll anchors it; a request holds at    *)
(* most one claim on it.  A claim is taken from the headroom and ends in one  *)
(* of three ways: it is spent, it is given back in full, or an anchor (which  *)
(* has seen the real usage) supersedes it.  Nothing else moves the headroom.  *)
(*                                                                            *)
(* FailoverWalk implements this with a per-backend anchor_seq and no record   *)
(* of which charges were taken.                                               *)
EXTENDS Integers

CONSTANTS
  Backends,
  Requests,
  Void,       \* no anchor, or no claim
  Levels,     \* the headrooms a backend may be anchored with
  Amounts     \* the sizes a claim may have

VARIABLES
  avail,      \* avail[b]: the headroom left, or Void
  claims      \* claims[r]: the claim of r, or Void

ledgerVars == <<avail, claims>>

Claim == [backend : Backends, amount : Amounts]

LedgerTypeOK ==
  /\ avail \in [Backends -> Int \cup {Void}]
  /\ claims \in [Requests -> Claim \cup {Void}]

Init ==
  /\ avail = [b \in Backends |-> Void]
  /\ claims = [r \in Requests |-> Void]

\* Every claim on b ends, and the headroom is set.
Supersede(b, level) ==
  /\ avail' = [avail EXCEPT ![b] = level]
  /\ claims' = [r \in Requests |->
       IF claims[r] # Void /\ claims[r].backend = b THEN Void ELSE claims[r]]

Anchor(b) == \E level \in Levels : Supersede(b, level)

Unanchor(b) == Supersede(b, Void)

\* The headroom once the claim of r, if it holds one, is given back.
GivenBack(r) ==
  IF claims[r] = Void THEN avail
  ELSE [avail EXCEPT ![claims[r].backend] = @ + claims[r].amount]

GiveBack(r) ==
  /\ avail' = GivenBack(r)
  /\ claims' = [claims EXCEPT ![r] = Void]

\* r gives back what it holds and claims from b, if b is anchored.
Take(r, b, amount) ==
  IF avail[b] = Void
  THEN GiveBack(r)
  ELSE /\ avail' = [GivenBack(r) EXCEPT ![b] = @ - amount]
       /\ claims' = [claims EXCEPT ![r] = [backend |-> b, amount |-> amount]]

\* The request was served (or lost): its claim is spent.
Spend(r) ==
  /\ UNCHANGED avail
  /\ claims' = [claims EXCEPT ![r] = Void]

Next ==
  \/ \E b \in Backends : Anchor(b) \/ Unanchor(b)
  \/ \E r \in Requests :
       \/ GiveBack(r)
       \/ Spend(r)
       \/ \E b \in Backends, amount \in Amounts : Take(r, b, amount)

Spec == Init /\ [][Next]_ledgerVars
=============================================================================
