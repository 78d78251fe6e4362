--------------------------- MODULE CommitPlayReveal ---------------------------
(***************************************************************************)
(* What the server promises its players, one ledger for all epochs: each   *)
(* epoch is committed to, takes numbered bets, is sealed with exactly the  *)
(* bets it took, and not before that its seed is revealed.  Epochs follow  *)
(* one another and one at a time takes bets.  How the server or a TEE      *)
(* gets there (tables, cache, scheduler, crashes) is not visible here.     *)
(***************************************************************************)
EXTENDS Integers, Sequences, FiniteSets

CONSTANT ClientSeeds  \* client seeds players bet under

VARIABLE ledger       \* one entry per epoch, in order

Accepting(l) == l # <<>> /\ l[Len(l)].phase = "accepting"

Committed == [phase |-> "accepting", bets |-> {}, revealed |-> FALSE]

\* Bets are numbered in the epoch, and again per client seed.
NextBet(bets, c) ==
  [bet |-> Cardinality(bets), client |-> c,
   nonce |-> Cardinality({b \in bets : b.client = c})]

Sealings(l) ==
  {l} \cup IF Accepting(l)
           THEN {[l EXCEPT ![Len(l)] = [phase |-> "sealed", bets |-> @.bets, revealed |-> b]] :
                   b \in BOOLEAN}
           ELSE {}

Commitments(l) == {l} \cup IF Accepting(l) THEN {} ELSE {Append(l, Committed)}

Recordings(l) ==
  {l} \cup IF Accepting(l)
           THEN {[l EXCEPT ![Len(l)].bets = @ \cup {NextBet(@, c)}] : c \in ClientSeeds}
           ELSE {}

Init == ledger = <<>>

\* In one step it may seal the current epoch and show its seed, commit to the next and
\* take a bet, each at most once and in this order.
Advance ==
  \E sealed \in Sealings(ledger) :
    \E committed \in Commitments(sealed) : ledger' \in Recordings(committed)

Reveal ==
  \E e \in DOMAIN ledger :
    /\ ledger[e].phase = "sealed"
    /\ ledger' = [ledger EXCEPT ![e].revealed = TRUE]

Next == Advance \/ Reveal

Spec == Init /\ [][Next]_ledger
=============================================================================
