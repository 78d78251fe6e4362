----------------------------- MODULE ReferenceTee -----------------------------
(***************************************************************************)
(* The TEE extension: machines that open epochs, play bets and close       *)
(* epochs in memory (tee/go/internal/engine/reference.go), one command at  *)
(* a time under the extension's mutex (tee/go/internal/extension).  Unlike *)
(* the server nothing is persisted: a restart forgets the open epoch and   *)
(* the next epoch id, and keeps the signing key, which is configured.      *)
(*                                                                         *)
(* Commands that fail change nothing, so only the ones that succeed are    *)
(* actions.  As in EpochEngine, hashing and signing are injective, a root  *)
(* is the sequence of its leaves and a seed its own commitment; rules and  *)
(* outcomes are left out.                                                  *)
(***************************************************************************)
EXTENDS Integers, FiniteSets, Sequences

CONSTANTS
  Machines,     \* TEE machines registered for the extension
  KeyOf,        \* FORESEER_TEE_KEY of each machine
  ClientSeeds,  \* client seeds players bet under
  Null,         \* no open epoch
  MaxSeeds,     \* bound: server seeds ever drawn
  MaxBets,      \* bound: receipts of one epoch
  MaxRestarts   \* bound: restarts of each machine

Keys == {KeyOf[m] : m \in Machines}

ASSUME TeeBoundsAssumption ==
  MaxSeeds \in Nat /\ MaxBets \in Nat /\ MaxRestarts \in [Machines -> Nat]

Receipt ==
  [epoch: Nat, seed: Nat, bet: Nat, client: ClientSeeds, nonce: Nat, signer: Keys]

\* epochState: the epoch a machine holds open.
EpochState == [id: Nat, seed: Nat, receipts: Seq(Receipt)]

ASSUME TeeNullAssumption == Null \notin EpochState

VARIABLES
  tee,       \* per machine: nextEpochID and the open epoch
  drawn,     \* server seeds drawn so far: the next draw is a new one
  signed,    \* history: receipts ever signed
  closes,    \* history: epoch closes ever signed
  restarted  \* restarts of each machine so far, for MaxRestarts

teeVars == <<tee, drawn, signed, closes, restarted>>

-----------------------------------------------------------------------------
\* A machine that has just started: FirstEpochID is not set.
Fresh == [next |-> 1, epoch |-> Null]

\* Bug: counts the bets of every client seed.
NonceOfEpoch(rs, c) == Len(rs)

\* Bug: off by one.
NonceFromMinusOne(rs, c) == Cardinality({i \in DOMAIN rs : rs[i].client = c}) - 1

\* nonces[clientSeed]: the bets of the client seed in the open epoch.
NonceOf(rs, c) == Cardinality({i \in DOMAIN rs : rs[i].client = c})

\* rand.Read(seed), and the epoch takes the next id.
OpenEpoch(m) ==
  /\ tee[m].epoch = Null
  /\ drawn < MaxSeeds
  /\ drawn' = drawn + 1
  /\ tee' = [tee EXCEPT ![m] =
       [next |-> @.next + 1,
        epoch |-> [id |-> @.next, seed |-> drawn + 1, receipts |-> <<>>]]]
  /\ UNCHANGED <<signed, closes, restarted>>

\* The receipt Play signs on machine m for client seed c.
ReceiptOf(m, c) ==
  LET e == tee[m].epoch
  IN  [epoch |-> e.id, seed |-> e.seed, bet |-> Len(e.receipts), client |-> c,
       nonce |-> NonceOf(e.receipts, c), signer |-> KeyOf[m]]

\* Bug: signs and answers, and records the receipt only for later bets.
PlayUnrecorded(m, c) ==
  /\ tee[m].epoch # Null
  /\ Len(tee[m].epoch.receipts) < MaxBets
  /\ signed' = signed \cup {ReceiptOf(m, c)}
  /\ tee' = [tee EXCEPT ![m].epoch.receipts =
       IF @ = <<>> THEN @ ELSE Append(@, ReceiptOf(m, c))]
  /\ UNCHANGED <<drawn, closes, restarted>>

\* Play: sign, then count the nonce and keep the receipt.
Play(m, c) ==
  /\ tee[m].epoch # Null
  /\ Len(tee[m].epoch.receipts) < MaxBets
  /\ signed' = signed \cup {ReceiptOf(m, c)}
  /\ tee' = [tee EXCEPT ![m].epoch.receipts = Append(@, ReceiptOf(m, c))]
  /\ UNCHANGED <<drawn, closes, restarted>>

\* EpochClose: commitment, revealed seed, root and count, signed.
CloseOf(m) ==
  LET e == tee[m].epoch
  IN  [epoch |-> e.id, commit |-> e.seed, seed |-> e.seed, root |-> e.receipts,
       count |-> Len(e.receipts), signer |-> KeyOf[m]]

\* Bug: answers the close and goes on with the epoch.
CloseKeepsOpen(m) ==
  /\ tee[m].epoch # Null
  /\ closes' = closes \cup {CloseOf(m)}
  /\ UNCHANGED <<tee, drawn, signed, restarted>>

\* CloseEpoch: sign the close, reveal the seed, forget the epoch.
CloseEpoch(m) ==
  /\ tee[m].epoch # Null
  /\ closes' = closes \cup {CloseOf(m)}
  /\ tee' = [tee EXCEPT ![m].epoch = Null]
  /\ UNCHANGED <<drawn, signed, restarted>>

\* The extension process goes down and is started again with the same key.
Restart(m) ==
  /\ restarted[m] < MaxRestarts[m]
  /\ restarted' = [restarted EXCEPT ![m] = @ + 1]
  /\ tee' = [tee EXCEPT ![m] = Fresh]
  /\ UNCHANGED <<drawn, signed, closes>>

-----------------------------------------------------------------------------
CloseRecord ==
  [epoch: Nat, commit: Nat, seed: Nat, root: Seq(Receipt), count: Nat, signer: Keys]

TeeTypeOK ==
  /\ tee \in [Machines -> [next: Nat, epoch: EpochState \cup {Null}]]
  /\ drawn \in 0..MaxSeeds
  /\ signed \subseteq Receipt
  /\ closes \subseteq CloseRecord
  /\ restarted \in [Machines -> Nat]

TeeInit ==
  /\ tee = [m \in Machines |-> Fresh]
  /\ drawn = 0
  /\ signed = {}
  /\ closes = {}
  /\ restarted = [m \in Machines |-> 0]

TeeNext ==
  \E m \in Machines :
    \/ OpenEpoch(m)
    \/ \E c \in ClientSeeds : Play(m, c)
    \/ CloseEpoch(m)
    \/ Restart(m)

TeeSpec == TeeInit /\ [][TeeNext]_teeVars

-----------------------------------------------------------------------------
(* Safety *)

\* The bets a machine drew from one seed are numbered 0, 1, 2, ..., and so are
\* those of each client seed: no two receipts under a seed share a nonce (Play).
SequentialUnderSeed ==
  \A s \in 1..drawn :
    LET rs == {r \in signed : r.seed = s} IN
    /\ {r.bet : r \in rs} = 0..(Cardinality(rs) - 1)
    /\ \A c \in ClientSeeds :
         {r.nonce : r \in {x \in rs : x.client = c}}
           = 0..(Cardinality({x \in rs : x.client = c}) - 1)

\* A close commits to every receipt ever signed under its seed, in bet order, and
\* there is one close per seed: after the reveal nothing is drawn from it
\* (CloseEpoch).
CloseCoversReceipts ==
  /\ \A k \in closes : {k.root[i] : i \in DOMAIN k.root} = {r \in signed : r.seed = k.seed}
  /\ \A k \in closes : \A i \in DOMAIN k.root : k.root[i].bet = i - 1
  /\ \A k, l \in closes : k.seed = l.seed => k = l

\* "nonce ... starts at 0 and increments by 1 per bet per (epochId, clientSeed)
\* pair": under one signer two receipts do not share all three (SPEC.md).
NonceOncePerEpoch ==
  \A r, s \in signed :
    (r.signer = s.signer /\ r.epoch = s.epoch /\ r.client = s.client /\ r.nonce = s.nonce)
      => r = s

\* "One epoch is always one machine": receipts that carry an epoch id have one
\* signer (HARDENING.md).
EpochIsOneMachine ==
  \A r, s \in signed : r.epoch = s.epoch => r.signer = s.signer

-----------------------------------------------------------------------------
(* Refinement: one machine that does not restart *)

\* The epoch's bets as players know them.
BetsOf(rs) ==
  {[bet |-> rs[i].bet, client |-> rs[i].client, nonce |-> rs[i].nonce] : i \in DOMAIN rs}

LedgerOf(m) ==
  [id \in 1..(tee[m].next - 1) |->
     IF tee[m].epoch # Null /\ tee[m].epoch.id = id
     THEN [phase |-> "accepting", bets |-> BetsOf(tee[m].epoch.receipts), revealed |-> FALSE]
     ELSE LET k == CHOOSE k \in closes : k.epoch = id /\ k.signer = KeyOf[m]
          IN  [phase |-> "sealed", bets |-> BetsOf(k.root), revealed |-> TRUE]]

\* A machine that does not restart, if there is one.
Steady ==
  CHOOSE m \in Machines : (\E n \in Machines : MaxRestarts[n] = 0) => MaxRestarts[m] = 0

Ledger == INSTANCE CommitPlayReveal WITH ledger <- LedgerOf(Steady)

\* A machine that does not restart keeps the promise the server keeps, whatever the
\* others do: commit, number the bets, seal exactly those, reveal (OpenEpoch, Play,
\* CloseEpoch).
ImplementsLedger == Ledger!Spec

=============================================================================
