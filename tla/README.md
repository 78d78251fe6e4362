# Foreseer, specified in TLA+

Foreseer is a provably fair gaming back end. An operator's game asks a server
(or a TEE machine) for outcomes; each outcome comes as a signed receipt, drawn
from a secret seed the signer committed to beforehand. When an *epoch* closes
the seed is revealed and a signed Merkle root covers all its receipts, so
anybody can recompute every outcome and prove that a receipt belongs to the
epoch. Closes are anchored in a contract.

This directory models the parts of the repository that carry that promise,
from the server's tables to the pages that show it, model-checks them with TLC,
and proves the main results with TLAPS for every value of the constants.
`PROJECT.json` maps each definition to the lines it models and lists runs,
hazards, findings and theorems. Paths below are relative to `src/`.

## Inventory

| Component | State it keeps | Operations | Talks to | What is hard |
|---|---|---|---|---|
| Epoch engine, `server/src/engine.ts`, `main.ts`, `db.ts` | tables `epochs`, `receipts` (SQLite); `merkleCache` in memory | boot, tick, play, admin close, current, epoch read, proof, verify | scheduler timer, controllers, SDK (hash, sign) | several openers and closers, a fault between two statements, restarts, retries, LRU |
| Billing, `server/src/controllers.ts`, `wallet.ts` | tables `operators`, `deposits`, `receipts.price_wei` | create service (admin, wallet), suspend, play (402), topup, balance, report | chain RPC node | topup awaits twice; price changes between boots; INSERT failures |
| Wallet sessions, `server/src/wallet.ts` | login nonces and tokens (Maps), table `sessions` | issue nonce, login, look up | billing routes, dashboard | expiry, caps and eviction, a failed INSERT, reload after a restart |
| Guards, `server/src/guards.ts` | two fixed-window counters | admit or 429 | every route | window edges, the clear at 50000 entries |
| TEE extension, `tee/go/internal/{engine,extension}` | open epoch, next epoch id, all in memory | OPEN_EPOCH, PLAY, CLOSE_EPOCH, restart | instruction sender | several machines, loss of state |
| Anchoring script, `server/scripts/anchor.mjs` | none | one pass over the epochs, from cron or by hand | server routes, sender contract | dies at any await, overlapping runs, reverts |
| Instruction sender, `tee/contracts/ForeseerInstructionSender.sol` | epoch records, fees, poster | send open, play, close; commit; anchor; withdraw; set fees and poster | TEE registry, script | random routing, order of commits and anchors |
| Operator dashboard, `web/app/dashboard/page.tsx` | session, sign-ins in flight, issued key; tokens in `sessionStorage` | connect, sign in, retry, create service | wallet, wallet sessions, billing | answers that come after a switch of wallet |
| Demo casino, `demo/server.mjs`, `demo/static/roulette.js` | registered rules; chips, rows, proof panels | spin, settle, verify, poll, hide | server routes, behind the guards | rate limits, lost answers, late answers of polls |
| In-browser demos, `web/lib/{demo-tee,use-demo-epoch,dice,roulette,coinflip}.ts`, `web/components/*Demo.tsx` | one TEE handle per game; a component's refs and state | arm, play, animate, reveal, next epoch, select | SDK | locks across awaits, remounts, modular arithmetic of the pictures, a window that changes its width |
| Operator bond, `tee/contracts/OperatorBond.sol` | bonds and pending withdrawals | bond, request, withdraw, slash | governance | slash against a matured withdrawal |
| Algorithms, `tee/go/internal/engine/{merkle,derive,rules}.go` | none | root and proof, draws, rule evaluation | engine | odd levels, rejection bound, depth |
| Registration, `tee/tools/pkg/fccutils` | a state file of completed steps | resumable steps | chain, TEE proxy | failure between a step and its record |

`packages/ts` (the TypeScript SDK, with hashing, signing and the reference
implementation) is an empty git submodule in this repository.

What makes each component correct:

- *epoch engine*: at most one open epoch; bet ids and nonces without gaps or
  repeats; closed epochs final and provable; a seed shown is a seed spent;
  epochs go on closing and opening;
- *billing*: a payment is credited once, to its sender; charges are never
  re-priced; prepaid services are never in debt;
- *TEE*: the same numbering per seed, a close over everything signed;
- *anchoring*: what is anchored is the epoch as it closed; every closed epoch
  gets there;
- *sessions*: a token handed out is good until it expires; one signature logs
  in once; both maps stay bounded; *guards*: no more than the limit in a window;
- *dashboard*: a wallet sees its own services, signs only when it must, and is
  never left without a way on;
- *casino*: results and chips are what the server's bets say; a panel that
  waits gets its reveal;
- *demos*: the picture agrees with the receipt (the strip only at the width it
  was parked at, see the divergences), every reveal verifies, the
  buttons come free again;
- *bond*: the contract can always pay what it owes.

## Modules

| Module | Models |
|---|---|
| `EpochEngine` | the engine's tables, cache, scheduler, boot and crash, and the routes that drive them |
| `CommitPlayReveal` | the abstract ledger: commit, numbered bets, seal, reveal |
| `Anchoring` | `EpochEngine` composed with the contract's epoch records and the script |
| `Billing` | services, deposits, charges and topups in flight, with the chain node outside |
| `ReferenceTee` | TEE machines in memory, with restarts |
| `WalletSessions` | login nonces, tokens and their table |
| `Dashboard` | `WalletSessions` composed with one browser tab |
| `RateLimits` | both guards, for several addresses and one operator |
| `Casino` | the demo's page and backend composed with `RateLimits` and the ledger |
| `DemoGames` | the rules and the arithmetic of the three games on the landing page |
| `DemoEpoch` | the hook, the in-browser TEE and a game's component, over `DemoGames` |
| `EpochEngineProofs`, `AnchoringProofs` | proofs about the engine, alone and with contract and script |
| `BillingProofs` | proofs about money |
| `ReferenceTeeProofs` | proofs about the TEE machines |
| `WalletSessionsProofs` | proofs about sessions and the dashboard |
| `CasinoProofs` | proofs about the guards and the casino |
| `DemoEpochProofs` | proofs about the three games and their page |
| `SetSums` | what the sum over a finite set is, for the proofs about money |
| `MC...` | symmetry sets and constant values for TLC |

### EpochEngine

`epochs[i]` is the row with `epoch_id` i; `receipts` is the set of rows;
`merkleCache` is the JavaScript Map as a sequence in insertion order; `key` is
the signing key of this boot; `clock` is `now()`. `published` and `proven` are
history: which seeds a response has carried, and which epochs were proven since
boot, the latest last.

One Node process runs every handler of this module to completion, with no
`await` in between, so a handler is one action. Every SQL statement commits by
itself, so a handler of two writes can leave the first one done: for `tick`
that is `TickFails` (close without reopening); for `play` it is `Current`
(the epoch is opened) followed, or not, by `Crash`. `PlayRefused` is the 409
that comes after the epoch has been opened. `Boot` takes any key, `Crash` is
possible whenever the process is up, and a play in an expired epoch that the
scheduler has not reached yet is allowed, as in the code.

Abstractions. Hashing and signing are injective: a digest is the tuple of the
signed fields that tell receipts apart, a Merkle root is the sequence of its
leaves. A seed is the number of its draw, because 32 random bytes do not
repeat. Outcomes, rules, timestamps of receipts and the cache-hit metric are
left out; the wall clock does not go backwards. The history variables have no
influence on the behaviour.

### CommitPlayReveal and the refinements

The ledger has one entry per epoch: a phase, the bets taken, and whether the
seed was shown. A step may seal the current epoch (and show its seed), commit
to the next and take one bet with the next numbers; revealing needs a seal.
`ImplementsLedger` says that every behaviour of the engine is one of the
ledger's, where a *closed* epoch is read from its signed root and an open one
from its rows: a close that dropped or reordered a receipt would not refine it.
A TEE machine that stays up implements the same ledger. `Casino` uses the ledger
as its server: what it shows holds for any server that implements it.

### Anchoring

`records` is `epochs` of the contract; `script` is one run of `anchor.mjs`, with
the epoch it is at and its next await. Fetching a closed epoch and reading its
record are one action, because a closed epoch never changes; each transaction
is one. A run ends when its list is through, the server is down or a
transaction reverts (`ScriptEnds`), and may die at any await (`ScriptDies`).
`AnchoredElsewhere` is any other run, a transaction of a dead one, or a
stranger with a published close. `CommitEpoch` and `AnchorEpoch` hold the
contract's `require`s; a signature is its signer. One signing key, the one the
contract knows, is used here; the script's check of the two is a guard.

### Billing

`plays[o][p]` counts the receipts of service o that recorded price p, the
`GROUP BY price_wei` of `playCharges`. A topup is the one handler that awaits:
its call record goes through the stages `tx` (waiting for
`eth_getTransactionByHash`), `receipt` (waiting for the receipt) and `mined`
(about to check and INSERT), carrying the operator row the guard read. Between
two stages any other call runs, a second topup of the same hash included.
`TopupInsertFails` is an INSERT that fails for another reason than its primary
key. The chain is external: a transaction is unknown, pending, then mined or
failed, and keeps its sender, recipient and value; reorganisations are left
out. `Restart` drops calls in flight and reads the price again. API keys,
sessions and dates are left out. Default names carry the whole wallet; the code
keeps its first eight hex digits, so names collide between wallets with a
common prefix as well.

### ReferenceTee

Each machine holds the next epoch id and the open epoch with its receipts; a
command is one action, since the extension runs it under its mutex. Commands
that fail change nothing and are left out. `Restart` forgets everything but the
key, which is configured (`FORESEER_TEE_KEY`). `signed` and `closes` are
history: whatever was ever signed, players may hold it. The refinement is that
of the machine that never restarts, next to one that does.

### WalletSessions and Dashboard

The two Maps are sequences in insertion order, so that `Pruned` evicts the first
entry as `prune` does, and a nonce issued again keeps its place as `Map.set`
does. Nonces and tokens are numbers of draws; a signature is its signer and the
nonce it signed. `LoginStoreFails` is the INSERT that throws after the nonce is
deleted and the token is in memory. `Reboot` reads the unexpired rows back.
`told` (tokens that reached a client) and `logins` are history.

`Dashboard` adds the tab: `account` is the connected wallet, `session` the React
state, `signIns[k]` a call of `signIn` at the await it has reached, with the
token, nonce and signer it holds, and `create` the call of `createService`. A
request and its answer are one action, taken when the answer arrives, since
nothing else happens to the caller in between; `LoginUnanswered` and
`ServiceCreatedUnanswered` are answers that are lost after the server has
acted. `Offered` is which buttons the page renders. Because `started.current`
follows `account`, the effect that signs in is part of `Connect`.

### RateLimits and Casino

`readWindows` maps an address to its count in the current window; an entry of an
earlier window counts zero, which is the same to the code. `Admitted` and
`Refused` are the two outcomes of the guard, `SetActive` suspends the operator,
whose key is then no credential any more. `granted` and `resets` are history.

In `Casino` each request the backend makes to the server is an action behind
these guards: `SpinRegisters`, `SpinPlays` for a spin, `ReadEpoch`, `ReadPage`,
`ReadRule`, `ReadProof` for a proof, with `CheckRefused` and `ProofUnknown` for
the refusals and `SpinLost`, `ProofLost` for answers that do not arrive. A row of the
page has a Verify cell, a panel and its timer, and the fetches of a click and of
a poll in flight; `Rendered` is `renderProof`, whose new panel replaces the old
one and stops its timer. The time between two refreshes of the page is one
window. The reads counted against the backend's limit are one player's: other
players of the same backend, who could use it up in every window, are not
modelled, and `RevealIsShown` and `VerifyReturns` do not speak of them.

### DemoGames and DemoEpoch

`DemoGames` is the arithmetic: what a rule of the dice pays and how often it
wins, where strip and coin come to rest. A cell of the strip is 1000 units and
pixels are integers. `DemoEpoch` has the promise of `ensureTee`, the SDK's
machine, the closure of `build` and the component (`page`). `arm` and the
animation are awaited: `waiting` is a play that waits for the TEE, `anim` one
that animates. The buttons are only greyed (`aria-disabled`), so `ClickPlayBusy`
and `ClickPlayEarly` are real. `Remount` drops a component with its awaits;
the TEE stays. The outcome of a draw is any the game has.

The strip is the one picture in pixels. `geometry` is the window's: the pitch
and width of a cell, of which there are two, on either side of 640px. `Resize`
crosses the breakpoint at any time; it changes the cells and nothing else, as
the page has no handler for it. `page.drawn` is the transform that
`AppliedRest` (`applyRest`) wrote at the mount or in `Parked` (`park`), with
the geometry it was written for, which the code does not keep and only
properties read. `CellMarked` is the cell under the marker now: that transform
in the present window. What is on screen during a spin is left out; no result
stands next to it.

`Checks` has three of the four checks of a reveal; the signatures are the
SDK's. `Opened` is not called on an open epoch by anything that is modelled,
so its early return is left out.

## Runs

| Run | Bounds | Shows |
|---|---|---|
| `EpochEngineSafety` | 2 client seeds, 3 epochs, 3 receipts, cache of 2, 1 crash | type invariant, one open epoch, sequential bets and nonces, provable receipts, cache from closed epochs only and the latest proven, retry safety, finality, no play under a published seed, the ledger |
| `Anchoring` | 3 epochs, 1 receipt, 1 crash, 1 run that dies | expired epochs close, another opens, closed ones are anchored; what is anchored is the close |
| `AnchorCommitment` | as above, one instance of the script | *violated*: a commitment after the reveal |
| `Billing` | 2 wallets, 2 services (prepaid or invoiced), 1 transaction of 0 or 3, 2 calls, prices 1 and 3, 2 plays, 2 restarts | type invariant, each deposit is its payment, never overdrawn, spending is paid for, never re-priced |
| `Tee` | 2 machines, 2 client seeds, 3 seeds, 3 bets, 1 restart of the second | numbering per seed, a close covers what was signed, the first machine implements the ledger |
| `TeeRestart` | 1 machine, 1 restart | *violated*: one (epochId, clientSeed, nonce), two receipts |
| `WalletSessions` | 2 wallets, maps of 2, tokens that outlive nonces, 8 draws, 1 restart | tokens are good, a signature logs in once, maps are bounded |
| `Dashboard` | 2 wallets, 2 sign-ins and a creation in flight, 1 restart, expiring tokens | own services only, no prompt while the tab's token is good (it has expired, or `MapCap` others were drawn since and may have evicted it), signing ends |
| `DashboardStranded` | as above, 4 draws | *violated*: a connected wallet on an empty page |
| `DemoEpoch` | each of 3 games, 2 epochs of 2 plays, 2 targets, extreme jitter, a window resized at any time | pictures (the strip at the width it was parked at), reveals, views, payouts, the lock |
| `Casino` | 2 spins, 2 epochs, 3 reads and 1 play a window, pages of 1 receipt, 1 fault | limits, results, the reveal arrives, Verify returns |
| `CasinoChecks` | as above | *violated*: a reveal without all checks |

Why the bounds are enough. Three epochs give a closed, a cached and an open
epoch at once, and three receipts in two client seeds give a second nonce next
to a second bet id of another client. With a cache of two, a hit reorders and a
miss evicts. One crash puts every state of the tables under a fresh memory. Two
calls of a topup contain every overlap of its stages; for one transaction they
race for one deposit. Price 3 is the payment and price 1 less, so both the 402
and the successful play occur after each change. A map of two entries evicts
with the third login, and the reload at boot exceeds the cap because rows of
evicted tokens remain. Two wallets and two calls of `signIn` are what a late
answer needs. Three draws do not reach the eviction that `NoPromptWithLiveToken`
excepts: there `PromptsAreNeeded` is what covers it. A window of three reads is
less than the five a proof of a closed epoch and a refresh take, so each of its
requests is refused in some behaviour; a page of one receipt leaves the second
bet beyond it. The games keep their full strip, their eight turns and both
widths of the window; the dice is two targets with two outcomes each, which has
both ends of the slider. `MaxServices`, `MaxTarget`, `MapCap`, the limits and
the times are parameters of the code; the remaining bounds are guards named
`Max...` in the modules. `CHECK_DEADLOCK FALSE` is set because the bounded
models stop when their counters are used up. Symmetry is used for client seeds,
wallets, transactions and calls, never in a run with a liveness property.

Each passing property has a mutant: an operator, marked `Bug`, that a
plausible mistake would put in place of the real one and that breaks the
property under the run's own configuration.

### Fairness

- *Engine* (`AnchoringFairSpec`): weak fairness of `Tick` (the interval timer
  fires every five seconds while the process is up, and a tick that throws is
  caught and tried again, `server/src/main.ts:51-59`), of a boot (the supervisor
  restarts the process, `restart: unless-stopped` in the compose file) and of
  the clock. Nothing is assumed of requests. Crashes are finitely many: a
  process that goes down before every tick closes nothing.
- *Script*: a run goes on until it ends or dies, and cron starts it every ten
  minutes (`DEPLOYMENT.md:377`). That is strong fairness, because a run by hand
  may be in the way each time; it is assumed only while an epoch is open, so
  that the run's own `/epochs/current` is not what reopens epochs.
- *Dashboard*: a request is answered or fails, and the user answers or rejects the
  prompt. No click is assumed.
- *Demos*: the imports arrive or fail, continuations run, and an animation
  that is not cancelled ends.
- *Casino*: requests are answered or fail, timers fire, windows turn, the ball
  stops. Neither clicks nor the close of an epoch are assumed.

## Findings

- A TEE that restarts uses its epoch ids again, so that (epochId, clientSeed,
  nonce) does not identify a receipt of a signer (`TeeRestart`).
  `SequentialUnderSeed` and `CloseCoversReceipts` speak of seeds and do not see
  this. `SequentialUnderSeed` still holds: the seeds differ, so no outcome stream is
  used twice.
- A sign-in that ends after the user has switched wallets takes the session
  from the new wallet, whose page then shows neither state nor button
  (`DashboardStranded`). `LoadedIsOwn` still holds: it never shows the other's
  services.
- The anchoring script commits to an epoch after its seed is public, where the
  contract's comment and the docs speak of a commitment before the reveal
  (`AnchorCommitment`). `AnchorIsTheClose` still holds.
- The casino's proof panel shows a reveal that lacks a check for good when the
  server limits the backend's anonymous reads (`CasinoChecks`).

Other divergences, stated in the modules by a property that does not hold
("Does not hold" in its comment). Each can be seen by naming it as an INVARIANT
of the run given:

- `EpochHasOneSigner` (`EpochEngineSafety`, with a second key): a boot under
  another `FORESEER_TEE_KEY` resumes the open epoch (`server/src/main.ts:47`),
  while `HARDENING.md:25-26` says one epoch is always one machine.
- `ToldCreditedIsCredited` (`Billing`): the bare catch around the deposit INSERT
  (`server/src/controllers.ts:472`) answers "transaction already credited" to
  every failure.
- `AmountDueIsPlaysTimesPrice` (`Billing`): the report uses recorded prices
  (`server/src/controllers.ts:45`), `server/README.md:50` says plays times price.
  The code's own comment is right and `ChargesNeverRepriced` holds.
- `DefaultNameIsFree` (`Billing`, with a default name among `CustomNames`): names
  are unique over all wallets, so that provisioning "in one call"
  (`docs/content/api.mdx:140`) may be refused.
- `ReadingMatchesReceipt` (`DemoEpoch`): the dice notes the selection of a click
  that rolls nothing, and the old reading stands next to it
  (`web/components/DiceDemo.tsx:89-94`).
- `PixelsAlwaysAgree` (`DemoEpoch`): "The pixels must agree with the receipt,
  always" (`web/components/RouletteDemo.tsx:66`). The strip is placed in pixels
  for the width of the window at the mount or at the end of a spin
  (`RouletteDemo.tsx:45`), and is not placed again when the window crosses
  640px and its cells change size (`RouletteStrip.tsx:40`): the marker then
  stands over another pocket than the receipt's, until the next spin ends. At
  rest on cell 59 (pocket 14) in a wide window, it is over cell 78 (pocket 2)
  once the window is narrow. `PixelsAgreeWithReceipt` is what holds: while, or
  again when, the window has the width the strip was parked at, either of the
  two, the strip agrees.

## Proofs

Every safety and action property of the passing runs, and both refinements, are
theorems: they hold for all client seeds, keys, machines, wallets, transactions,
prices, addresses, limits, caps, lifetimes and other bounds, where a run has two
or three of each.

The assumptions are the named ones of the modules, and TLC evaluates them in
every run: bounds, amounts, prices and `StartChips` are naturals; `CacheCap`,
the two limits, `MaxTarget` and the plays and epochs of a demo are at least 1, a
cell has at least two units; the prices a process may boot with are finitely
many; a signature byte is one of 0..255; the casino's backend has an address,
and the player is not the others; there is a signing key, and the contract's is
one of them; `Null` is no number, key, wallet, epoch, spin or rule.

**EpochEngineProofs.** `IInv` is `Tables /\ Memory /\ Process`. `Tables` says
that open epochs are among the last row, that receipts are a finite set of rows
of existing epochs, that bet ids and nonces are dense in each epoch, that each
recorded request for a nonce got that nonce, and that a closed epoch's root and
count are those of its rows *now*. Sequential bets alone are not inductive:
`play` computes the bet id from a count and the nonce from a maximum, so the
proof needs density of both (`NextNonceCounts`, `InsertKeepsTables`), and it
needs `OneOpenEpoch` because a receipt only ever goes to the last epoch, which
leaves the closed ones alone. `LeavesInBetOrder` turns density into "leaf i is
bet i". `Memory` says that cached trees and published seeds are those of closed
epochs (`TouchKeepsCommitted`). `NextTables` shows `TablesStep` for every
action: tables stay well formed, closed epochs keep row and receipts, and new
receipts go to an open epoch; the two action properties follow.

- `CacheIsLatestProven` needs `InOrder`: the history of proofs repeats no epoch
  and the cache is its tail. A hit takes one element out of both and puts it at
  the end (`HitKeepsOrder`), a miss evicts exactly the one that falls off the
  tail (`MissKeepsOrder`).
- `EngineImplementsLedger` is the refinement. `LedgerIsBook` rewrites the mapped
  ledger entry by entry, where a closed epoch is read from its root: with
  `IInv`, leaves and rows give the same bets. Then opening is the ledger's
  commitment (`EnsureCommits`), closing its seal (`CloseSeals`), an insert its
  bet (`InsertRecords`), a response with a seed its reveal (`PublishReveals`),
  and `NextLedger` puts the handlers that do several of these at once together.

**AnchoringProofs.** `AInv` is `IInv` of the engine, `ScriptInv` (a run that is
about to write holds a closed epoch) and `AnchoredInv` (an anchored record is
the row of a closed epoch, under its commitment). `StepOfEngine` shows that
every step of the composition is a step of the engine or leaves it alone, which
gives `AnchoringKeepsEngine`; then `TablesStep` is what makes the anchor true
for ever: the row it was taken from never changes (`AnchoredAsClosed`).

**ReferenceTeeProofs.** `TInv` is `TeeTypeOK`, `SignedInv` (receipts are
numbered under each seed), `OpenInv` (an open epoch holds *all* receipts under
its seed, in bet order, and no other machine has that seed) and `ClosesInv` (so
does a close, and no machine draws from its seed any more). The last two are the
strengthening: a machine numbers from the length of its list, which says
something of everything ever signed only if the list is complete and the seed
its own. A restart loses the list and with it the seed, so nothing breaks.
`SeedsNumbered` and `ClosesComplete` follow. `TeeImplementsLedger` has two
hypotheses besides the specification: machines have keys of their own (as
`HARDENING.md` requires), and some machine never restarts; `NumbersEpochs` says
of that one that its closes and its open epoch are the epochs 1, 2, 3, ..., each
once.

**WalletSessionsProofs.** `SInv` is `SessionsTypeOK`, `NoncesUnused` (a nonce
that is held is in one entry and has logged nobody in), `LoginsDiffer`,
`TokensOrdered` (Maps and table are in the order of the draws, and so of expiry)
and `ToldHeld` (a token handed out is in the table until it expires, and in the
process unless `MapCap` later ones are). The order is why eviction of the first
entry never takes a younger token: when `t` is evicted it comes first, `MapCap`
later ones are held with the new login (`LoginKeepsTold`, `PrunedIsPart`), and
all those outlive `t`. A reload at boot brings `t` back from the table.
`OnlyKeepsOrder` is what pruning does to a Map of any size.

`DashInv` adds the tab: every token it holds, in `sessionStorage`, in a call of
`signIn` or of `createService`, belongs to the wallet it is kept for (`Owned`,
because a token's number is never drawn again), a call goes on to a nonce only
with a token that is `Spent`, and a loaded session shows the wallet it is for.
`LoadedStaysOwn` and `PromptsAreNeeded` follow; the latter cites `HeldIsGood`,
the lemma behind `TokensStayGood`, for what the refusal of a token tells
(`RefusedIsSpent`).

**BillingProofs.** `IInv` is `Typed /\ CallsAreCurrent /\
EachDepositIsItsPayment`. `CallsAreCurrent` is what makes the stale read
harmless: an owner never changes once a row is there, and a transaction seen
mined stays mined with its sender and value, so what the call read before its
awaits is still true at the INSERT. `Grows` states this of every step, and
`GrowsKeeps` that it preserves the invariant. `Counters` adds the rest of
`TypeOK`. `MoneyInv` adds that deposits and payments are finitely many and that
a service with an owner has deposited what it was charged, at recorded prices:
the 402 compares the balance with the price of *this* boot, which is also the
one recorded, and a topup only adds. `SpendingCovered` sums this over a wallet's
services and maps deposits to payments one to one (`CreditsArePayments`), where
`EachDepositIsItsPayment` is used a second time.

**SetSums** holds what these proofs need of a sum over a finite set: an element
can be taken out, added or changed, a part sums to less, and the order does not
matter. Induction over finite sets cannot be applied here (its theorem takes an
operator as a parameter), so each fact is proved on a smallest counterexample
(`SmallestBad`), which exists because the naturals are well founded.

**CasinoProofs.** For the guards `LimitsInv` bounds what was granted by the
count now held and the counts lost; `CasinoIsGuarded` shows that each request of
the casino is a step of the guards, so that `LimitsAreKept` is about the
composition. For the table `PlayInv` is `LedgerInv` (bets of an epoch are
numbered below their count, so the next bet is a new one), `TableInv` (rows are
distinct bets of the player), `SpinInv` (a receipt in flight, or on the wheel,
is a bet that no row shows yet) and `ChipsInv`. `Grown` is all that is asked of
the server: its steps lose no bet.

**DemoEpochProofs.** The arithmetic comes first: read in the window it was drawn
for, wide or narrow, and with any jitter, the strip has its marker over a cell
of the drawn pocket (`SpinStops`, `RestKeepsPocket`, `MarkerIsOverCell`), any number of flips lands on the face drawn (`FlipLands`),
and a dice rule pays back 99% of its draws rounded down (`WinsAreCounted`,
`DicePaysWithinRtp`). `DInv` is `TeeInv` (the three lists of the closure are the
TEE's receipts and their rules, place by place) and `PageInv`: `PicturesInv` (an
animation ends where its draw shows, what is at rest shows the last draw, and
the strip's transform is the one for `drawn.geometry`) and
`ControlInv` (a play waits or animates, and only then may the view be old).
`ControlInv` is what a remount and a late answer could break; it is needed to
know that a play animates one receipt at a time.

To be reasoned about, the models say a few things in a form the provers read,
with the same values: `Only` in place of a filter by a predicate parameter,
`SumFunction` for sums, records written out where several fields change.

Only model-checked: every liveness property (`ExpiredEpochCloses`,
`AnotherEpochOpens`, `ClosedEpochIsAnchored`, `SigningEnds`, `LockIsReleased`,
`RevealIsShown`, `VerifyReturns`), since liveness under fairness is out of the
prover's reach; and the violated properties, which are counterexamples on the
instance of their run.

## Plan

1. Done: the engine, billing, the TEE machine and the first proofs; then
   anchoring, sessions, guards, the dashboard, the casino and the demos; then
   theorems for all their safety and action properties and both refinements.
2. Next: `OperatorBond` (solvency, no withdrawal before its time) with its
   proofs; the fees of the sender and its routing to machines; `Registration`;
   `MerkleTrees` and `Draws` against reference definitions over bounded inputs.
3. The hazards without a property: a second machine for one epoch, a boot under
   another key, answers that carry the only copy of an API key.

## Not modelled

The SDK's cryptography (not in the repository; taken as injective), the Go
encoding and the Merkle, draw and rule algorithms (a root is the sequence of its
leaves, a draw any the rule has), the operator bond, the sender's fees and random
routing, the registration tool, landing and docs pages and the verify widget,
client scripts and tests, deployment scripts, the scaffold's GREETING commands,
vendored `forge-std`.

## Running

    tlc -config EpochEngineSafety.cfg MCEpochEngine.tla
    tlapm EpochEngineProofs.tla

A proof module takes a minute or two from nothing; `tlapm` remembers what it has
proved.
