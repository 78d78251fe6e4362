----------------------------- MODULE EpochEngine -----------------------------
(***************************************************************************)
(* The epoch engine of the orchestration server (server/src/engine.ts)     *)
(* with its scheduler, boot and shutdown (server/src/main.ts) and the      *)
(* routes that drive it (server/src/controllers.ts).                       *)
(*                                                                         *)
(* One Node process serves every request to completion before the next,    *)
(* so a handler is one action.  Each SQL statement commits by itself: a    *)
(* fault between two statements of a handler leaves the first one done.    *)
(* The tables live in SQLite and survive Crash; the Merkle cache is memory *)
(* and does not.                                                           *)
(*                                                                         *)
(* A receipt digest is the tuple of the signed fields that tell receipts   *)
(* apart, and a Merkle root is the sequence of its leaves: hashing and     *)
(* signing are injective.  The outcome is a function of the digest's       *)
(* fields and the rule, so it is left out.                                 *)
(***************************************************************************)
EXTENDS Integers, FiniteSetsExt, SequencesExt

CONSTANTS
  ClientSeeds,   \* client seeds players bet under
  Keys,          \* signing keys FORESEER_TEE_KEY may hold, one per boot
  Null,          \* an SQL NULL, or a field the caller omitted
  EpochSeconds,  \* length of an epoch
  CacheCap,      \* Merkle trees kept in memory, 8 in the code
  MaxEpochs,     \* bound: epochs ever opened
  MaxReceipts,   \* bound: receipts ever signed
  MaxClock,      \* bound: last second the clock shows
  MaxCrashes     \* bound: times the process goes down

ASSUME EpochSecondsAssumption == EpochSeconds \in Nat
ASSUME CacheCapAssumption == CacheCap \in Nat \ {0}
ASSUME BoundsAssumption ==
  /\ MaxEpochs \in Nat \ {0}
  /\ MaxReceipts \in Nat
  /\ MaxClock \in Nat
  /\ MaxCrashes \in Nat
ASSUME NullAssumption == Null \notin Nat /\ Null \notin Keys
ASSUME KeysAssumption == Keys # {}

VARIABLES
  epochs,       \* table epochs, in epoch_id order: epochs[i] has epoch_id i
  receipts,     \* table receipts: a set of rows
  merkleCache,  \* Engine.merkleCache, a Map in insertion order
  key,          \* Engine.key
  clock,        \* now(), in seconds
  up,           \* the process is serving
  crashes,      \* times it went down, for MaxCrashes
  published,    \* history: epochs whose server seed a response has carried
  proven        \* history: epochs proven since boot, the latest last

tables == <<epochs, receipts>>
memory == <<merkleCache, key, up>>
history == <<published, proven>>
vars == <<epochs, receipts, merkleCache, key, clock, up, crashes, published, proven>>

-----------------------------------------------------------------------------
(* The tables *)

\* SELECT ... FROM receipts WHERE epoch_id = e
RowsOf(rs, e) == {r \in rs : r.epoch = e}

\* The fields a receipt's signature and its Merkle leaf bind.
Digest(r) == [epoch |-> r.epoch, bet |-> r.bet, client |-> r.client, nonce |-> r.nonce]

\* The leaves of an epoch's tree: its rows in bet_id order.
LeavesOf(rs, e) ==
  LET rows == RowsOf(rs, e)
      Before(r) == {s \in rows : s.bet < r.bet}
  IN  [i \in 1..Cardinality(rows) |->
         Digest(CHOOSE r \in rows : Cardinality(Before(r)) = i - 1)]

\* SELECT ... WHERE closed_at IS NULL
OpenIds(es) == {e \in DOMAIN es : ~es[e].closed}

OpenEpoch(es) == Max(OpenIds(es))

\* A new row of epochs. Seeds are 32 random bytes: drawn once, never again.
FreshEpoch(es) ==
  [seed |-> Len(es) + 1, openedAt |-> clock, closed |-> FALSE,
   root |-> <<>>, count |-> 0, closer |-> Null]

\* Bug: opens an epoch without looking for an open one.
EnsureBlindly(es) == Append(es, FreshEpoch(es))

\* ensureEpoch: the open epoch, or a fresh one with the next epoch_id.
Ensure(es) == IF OpenIds(es) # {} THEN es ELSE Append(es, FreshEpoch(es))

\* Bug: takes the root over the first page of receipts.
CloseFirstPage(es) ==
  LET e == OpenEpoch(es)
      leaves == LeavesOf(receipts, e)
  IN  [es EXCEPT ![e] = [@ EXCEPT !.closed = TRUE, !.closer = key,
                                  !.root = SubSeq(leaves, 1, Min({2, Len(leaves)})),
                                  !.count = Len(leaves)]]

\* closeOpen: the root over the rows in bet order, the count and the signature,
\* in the one UPDATE that closes the epoch.
Close(es) ==
  LET e == OpenEpoch(es)
  IN  [es EXCEPT ![e] = [@ EXCEPT !.closed = TRUE, !.closer = key,
                                  !.root = LeavesOf(receipts, e),
                                  !.count = Cardinality(RowsOf(receipts, e))]]

Expired ==
  /\ OpenIds(epochs) # {}
  /\ clock >= epochs[OpenEpoch(epochs)].openedAt + EpochSeconds

NoncesOf(rs, e, c) == {r.nonce : r \in {s \in RowsOf(rs, e) : s.client = c}}

\* Bug: MAX(nonce) + 1 without COALESCE, NULL for the first bet.
NonceUncoalesced(rs, e, c) ==
  LET used == NoncesOf(rs, e, c) IN IF used = {} THEN Null ELSE Max(used) + 1

\* Bug: counts the nonces of the client seed in every epoch.
NonceAcrossEpochs(rs, e, c) ==
  LET used == UNION {NoncesOf(rs, d, c) : d \in 1..e}
  IN  IF used = {} THEN 0 ELSE Max(used) + 1

\* COALESCE(MAX(nonce) + 1, 0) over the epoch's receipts of this client seed.
NextNonce(rs, e, c) ==
  LET used == NoncesOf(rs, e, c) IN IF used = {} THEN 0 ELSE Max(used) + 1

-----------------------------------------------------------------------------
(* The Merkle cache *)

CacheHits(e) == {i \in DOMAIN merkleCache : merkleCache[i].epoch = e}

\* Bug: a hit keeps its place, so the cache evicts the first built.
TouchFifo(e) ==
  IF CacheHits(e) # {} THEN merkleCache
  ELSE LET grown == Append(merkleCache, [epoch |-> e, tree |-> LeavesOf(receipts, e)])
       IN  IF Len(grown) > CacheCap THEN Tail(grown) ELSE grown

\* cachedTree: a hit moves to the end; a miss is built, appended, and the first
\* entry goes once there are more than CacheCap.
Touch(e) ==
  IF CacheHits(e) # {}
  THEN LET i == CHOOSE j \in CacheHits(e) : TRUE
       IN  Append(RemoveAt(merkleCache, i), merkleCache[i])
  ELSE LET grown == Append(merkleCache, [epoch |-> e, tree |-> LeavesOf(receipts, e)])
       IN  IF Len(grown) > CacheCap THEN Tail(grown) ELSE grown

\* The epochs proven since boot, by last proof.
ProvenThen(e) ==
  LET again == {i \in DOMAIN proven : proven[i] = e}
  IN  IF again = {} THEN Append(proven, e)
      ELSE Append(RemoveAt(proven, CHOOSE i \in again : TRUE), e)

-----------------------------------------------------------------------------
Leaf == [epoch: Nat, bet: Nat, client: ClientSeeds, nonce: Nat]

EpochRow ==
  [seed: Nat, openedAt: Nat, closed: BOOLEAN, root: Seq(Leaf), count: Nat,
   closer: Keys \cup {Null}]

ReceiptRow ==
  [epoch: Nat, bet: Nat, client: ClientSeeds, nonce: Nat,
   asked: Nat \cup {Null}, signer: Keys]

TypeOK ==
  /\ epochs \in Seq(EpochRow)
  /\ receipts \subseteq ReceiptRow
  /\ merkleCache \in Seq([epoch: Nat, tree: Seq(Leaf)])
  /\ key \in Keys
  /\ clock \in 0..MaxClock
  /\ up \in BOOLEAN
  /\ crashes \in 0..MaxCrashes
  /\ published \subseteq DOMAIN epochs
  /\ proven \in Seq(DOMAIN epochs)

\* An empty database, before the first boot.
Init ==
  /\ epochs = <<>>
  /\ receipts = {}
  /\ merkleCache = <<>>
  /\ key \in Keys
  /\ clock = 0
  /\ up = FALSE
  /\ crashes = 0
  /\ published = {}
  /\ proven = <<>>

\* bootstrap: a new Engine over the same database, with the key of the
\* environment, makes sure an epoch is open before it serves.
Boot(k) ==
  /\ ~up
  /\ Len(Ensure(epochs)) <= MaxEpochs
  /\ epochs' = Ensure(epochs)
  /\ up' = TRUE
  /\ key' = k
  /\ merkleCache' = <<>>
  /\ proven' = <<>>
  /\ UNCHANGED <<receipts, clock, crashes, published>>

\* SIGINT, SIGTERM or a fault: everything in memory is gone.
Crash ==
  /\ up
  /\ crashes < MaxCrashes
  /\ up' = FALSE
  /\ crashes' = crashes + 1
  /\ merkleCache' = <<>>
  /\ proven' = <<>>
  /\ UNCHANGED <<tables, key, clock, published>>

ClockTick ==
  /\ clock < MaxClock
  /\ clock' = clock + 1
  /\ UNCHANGED <<tables, memory, crashes, history>>

\* Bug: forgets to close.
TickNeverCloses ==
  /\ up
  /\ Len(Ensure(epochs)) <= MaxEpochs
  /\ epochs' = Ensure(epochs)
  /\ UNCHANGED <<receipts, memory, clock, crashes, history>>

\* Bug: closes and leaves reopening to the next request.
TickWithoutReopening ==
  /\ up
  /\ Expired
  /\ epochs' = Close(epochs)
  /\ UNCHANGED <<receipts, memory, clock, crashes, history>>

\* tick: close an expired epoch, then make sure one is open.
Tick ==
  /\ up
  /\ LET closed == IF Expired THEN Close(epochs) ELSE epochs
     IN  /\ Len(Ensure(closed)) <= MaxEpochs
         /\ epochs' = Ensure(closed)
  /\ UNCHANGED <<receipts, memory, clock, crashes, history>>

\* tick whose second statement fails: main.ts catches the fault and the
\* scheduler goes on, with no epoch open.
TickFails ==
  /\ up
  /\ Expired
  /\ epochs' = Close(epochs)
  /\ UNCHANGED <<receipts, memory, clock, crashes, history>>

\* POST /admin/close; nothing reopens here.
AdminClose ==
  /\ up
  /\ OpenIds(epochs) # {}
  /\ epochs' = Close(epochs)
  /\ UNCHANGED <<receipts, memory, clock, crashes, history>>

\* GET /epochs/current, a read that opens an epoch when none is.
Current ==
  /\ up
  /\ Len(Ensure(epochs)) <= MaxEpochs
  /\ epochs' = Ensure(epochs)
  /\ UNCHANGED <<receipts, memory, clock, crashes, history>>

\* Bug: ignores the nonce the caller named.
PlayIgnoringNonce(c, asked) ==
  LET es == Ensure(epochs)
      e == OpenEpoch(es)
  IN  /\ up
      /\ Len(es) <= MaxEpochs
      /\ Cardinality(receipts) < MaxReceipts
      /\ epochs' = es
      /\ receipts' = receipts \cup
           {[epoch |-> e, bet |-> Cardinality(RowsOf(receipts, e)), client |-> c,
             nonce |-> NextNonce(receipts, e, c), asked |-> asked, signer |-> key]}
      /\ UNCHANGED <<memory, clock, crashes, history>>

\* Bug: plays in the newest epoch without asking whether it is open.
PlayInLastEpoch(c, asked) ==
  LET e == Len(epochs)
  IN  /\ up
      /\ e > 0
      /\ Cardinality(receipts) < MaxReceipts
      /\ asked \in {Null, NextNonce(receipts, e, c)}
      /\ receipts' = receipts \cup
           {[epoch |-> e, bet |-> Cardinality(RowsOf(receipts, e)), client |-> c,
             nonce |-> NextNonce(receipts, e, c), asked |-> asked, signer |-> key]}
      /\ UNCHANGED <<epochs, memory, clock, crashes, history>>

\* Bug: counts the receipts of all epochs for the bet id.
PlayCountingAllBets(c, asked) ==
  LET es == Ensure(epochs)
      e == OpenEpoch(es)
  IN  /\ up
      /\ Len(es) <= MaxEpochs
      /\ Cardinality(receipts) < MaxReceipts
      /\ asked \in {Null, NextNonce(receipts, e, c)}
      /\ epochs' = es
      /\ receipts' = receipts \cup
           {[epoch |-> e, bet |-> Cardinality(receipts), client |-> c,
             nonce |-> NextNonce(receipts, e, c), asked |-> asked, signer |-> key]}
      /\ UNCHANGED <<memory, clock, crashes, history>>

\* Engine.play: open an epoch if none is, take the next nonce and bet id, sign
\* and insert. A caller may name the nonce it expects. A fault before the insert
\* leaves the epoch open and nothing else: that is Current, then maybe Crash.
Play(c, asked) ==
  LET es == Ensure(epochs)
      e == OpenEpoch(es)
      nonce == NextNonce(receipts, e, c)
      bet == Cardinality(RowsOf(receipts, e))
  IN  /\ up
      /\ Len(es) <= MaxEpochs
      /\ Cardinality(receipts) < MaxReceipts
      /\ asked \in {Null, nonce}
      /\ ~ \E r \in receipts : r.epoch = e /\ r.bet = bet
      /\ epochs' = es
      /\ receipts' = receipts \cup
           {[epoch |-> e, bet |-> bet, client |-> c, nonce |-> nonce,
             asked |-> asked, signer |-> key]}
      /\ UNCHANGED <<memory, clock, crashes, history>>

\* Engine.play refused with 409 for another nonce than the next: the epoch it
\* opened on the way stays.
PlayRefused(c, asked) ==
  LET es == Ensure(epochs)
  IN  /\ up
      /\ Len(es) <= MaxEpochs
      /\ asked \notin {Null, NextNonce(receipts, OpenEpoch(es), c)}
      /\ epochs' = es
      /\ UNCHANGED <<receipts, memory, clock, crashes, history>>

\* Bug: shows the seed of an open epoch.
PublishAnySeed(e) ==
  /\ up
  /\ published' = published \cup {e}
  /\ UNCHANGED <<tables, memory, clock, crashes, proven>>

\* GET /epochs/:id: the server seed is in the response only once closed.
Publish(e) ==
  /\ up
  /\ epochs[e].closed
  /\ published' = published \cup {e}
  /\ UNCHANGED <<tables, memory, clock, crashes, proven>>

\* Bug: builds and caches the tree of an epoch that is still open.
ProveOpen(e) ==
  /\ up
  /\ merkleCache' = Touch(e)
  /\ proven' = ProvenThen(e)
  /\ UNCHANGED <<tables, key, up, clock, crashes, published>>

\* proofFor, behind /epochs/:id/proof/:betId and /verify: refused while the epoch
\* is open. The tree is cached even when the bet id turns out unknown.
Prove(e) ==
  /\ up
  /\ epochs[e].closed
  /\ merkleCache' = Touch(e)
  /\ proven' = ProvenThen(e)
  /\ UNCHANGED <<tables, key, up, clock, crashes, published>>

Asked == {Null} \cup 0..MaxReceipts

Next ==
  \/ \E k \in Keys : Boot(k)
  \/ Crash
  \/ ClockTick
  \/ Tick
  \/ TickFails
  \/ AdminClose
  \/ Current
  \/ \E c \in ClientSeeds, asked \in Asked : Play(c, asked)
  \/ \E c \in ClientSeeds, asked \in Asked : PlayRefused(c, asked)
  \/ \E e \in DOMAIN epochs : Publish(e)
  \/ \E e \in DOMAIN epochs : Prove(e)

Spec == Init /\ [][Next]_vars

\* The interval timer goes on firing while the process is up, the supervisor
\* restarts it, and time passes. No request is ever owed to the server.
Fairness ==
  /\ WF_vars(ClockTick)
  /\ WF_vars(Tick)
  /\ WF_vars(\E k \in Keys : Boot(k))

FairSpec == Spec /\ Fairness

-----------------------------------------------------------------------------
(* Safety *)

\* At most one epoch takes bets, and it is the newest: the scheduler, the admin
\* close, /epochs/current, /play and boot all open or close epochs on their own.
OneOpenEpoch == OpenIds(epochs) \subseteq {Len(epochs)}

\* Bet ids of epoch e are 0, 1, 2, ... and each is used once.
DenseBets(rs, e) ==
  LET rows == RowsOf(rs, e) IN
  /\ {r.bet : r \in rows} = 0..(Cardinality(rows) - 1)
  /\ \A r, s \in rows : r.bet = s.bet => r = s

\* Nonces of client seed c in epoch e are 0, 1, 2, ... and each is used once.
DenseNonces(rs, e, c) ==
  LET rows == {r \in RowsOf(rs, e) : r.client = c} IN
  /\ NoncesOf(rs, e, c) = 0..(Cardinality(rows) - 1)
  /\ \A r, s \in rows : r.nonce = s.nonce => r = s

\* Bet ids have no gap and no repeat, across closes, crashes and restarts, so that
\* leaf i of an epoch's tree is bet i (betId in Engine.play).
SequentialBets == \A e \in DOMAIN epochs : DenseBets(receipts, e)

\* Within an epoch no two bets of a client seed share a nonce, hence an outcome
\* stream, and none is skipped: "the verifier rejects gaps" (nonce in Engine.play).
SequentialNonces ==
  \A e \in DOMAIN epochs, c \in ClientSeeds : DenseNonces(receipts, e, c)

\* Every receipt of a closed epoch has a proof: leaf betId of the signed root is
\* its digest, and the signed count is the number of receipts (closeOpen, proofFor).
ClosedReceiptsProvable ==
  \A e \in DOMAIN epochs : epochs[e].closed =>
    LET rows == RowsOf(receipts, e) IN
    /\ epochs[e].count = Cardinality(rows)
    /\ Len(epochs[e].root) = epochs[e].count
    /\ \A r \in rows : epochs[e].root[r.bet + 1] = Digest(r)

\* A tree served from memory is the one the close signature committed to: it was
\* never built from an epoch that could still grow (cachedTree).
CacheServesCommittedTree ==
  \A i \in DOMAIN merkleCache :
    LET entry == merkleCache[i] IN
    /\ entry.epoch \in DOMAIN epochs
    /\ epochs[entry.epoch].closed
    /\ entry.tree = epochs[entry.epoch].root

\* The cache holds the CacheCap most recently proven epochs, in that order, as the
\* server's README promises (cachedTree).
CacheHoldsLatestProven ==
  LET kept == Min({CacheCap, Len(proven)})
  IN  [i \in DOMAIN merkleCache |-> merkleCache[i].epoch]
        = SubSeq(proven, Len(proven) - kept + 1, Len(proven))

\* A caller that names the nonce and asks again, because the answer was lost, is
\* never given a second bet in the same epoch (the 409 of Engine.play).
RetriedBetNotDoubled ==
  \A r, s \in receipts :
    (r.epoch = s.epoch /\ r.client = s.client /\ r.asked = s.asked /\ r.asked # Null)
      => r = s

\* Does not hold, after a boot under another key: all receipts of an epoch and its
\* close carry one signature key, "one epoch is always one machine" (HARDENING.md).
EpochHasOneSigner ==
  \A r \in receipts :
    /\ \A s \in RowsOf(receipts, r.epoch) : s.signer = r.signer
    /\ epochs[r.epoch].closed => epochs[r.epoch].closer = r.signer

-----------------------------------------------------------------------------
(* Action properties *)

\* No step changes a closed epoch's row or adds, drops or rewrites one of its
\* receipts: what was signed at close stays true.
ClosedEpochsNeverChange ==
  [][\A e \in DOMAIN epochs : epochs[e].closed =>
       /\ epochs'[e] = epochs[e]
       /\ RowsOf(receipts', e) = RowsOf(receipts, e)]_vars

\* No receipt is ever drawn from a server seed that a response has revealed.
NoPlayUnderPublishedSeed ==
  [][\A r \in receipts' \ receipts :
       \A e \in published : epochs'[r.epoch].seed # epochs[e].seed]_vars

-----------------------------------------------------------------------------
(* Liveness *)

\* An epoch whose time runs out is eventually closed, whatever crashes and failed
\* ticks come in between (tick, bootstrap).
ExpiredEpochCloses ==
  \A e \in 1..(MaxEpochs - 1) :
    (e \in DOMAIN epochs /\ epochs[e].openedAt + EpochSeconds <= MaxClock)
      ~> (e \in DOMAIN epochs /\ epochs[e].closed)

\* After a close, by the timer or by the admin, an epoch is eventually open again
\* without any request.
AnotherEpochOpens ==
  \A e \in 1..(MaxEpochs - 1) :
    (Len(epochs) = e /\ epochs[e].closed) ~> (Len(epochs) > e)

-----------------------------------------------------------------------------
(* Refinement *)

\* What a leaf or a row says of a bet.
BetOf(d) == [bet |-> d.bet, client |-> d.client, nonce |-> d.nonce]

\* An open epoch has taken the bets in its rows, a closed one those its signed
\* root commits to.
LedgerOf ==
  [e \in DOMAIN epochs |->
     [phase |-> IF epochs[e].closed THEN "sealed" ELSE "accepting",
      bets |-> IF epochs[e].closed THEN {BetOf(d) : d \in Range(epochs[e].root)}
               ELSE {BetOf(r) : r \in RowsOf(receipts, e)},
      revealed |-> e \in published]]

Ledger == INSTANCE CommitPlayReveal WITH ledger <- LedgerOf

\* Every behaviour of the engine, crashes and failed ticks included, is one of the
\* ledger players are promised: commit, then bets numbered without gaps, then a
\* seal over exactly those bets, then the seed.
ImplementsLedger == Ledger!Spec

=============================================================================
