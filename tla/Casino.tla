-------------------------------- MODULE Casino --------------------------------
(***************************************************************************)
(* The demo casino: its page (demo/static/roulette.js), its backend        *)
(* (demo/server.mjs) and, as far as they can tell, the server: the ledger  *)
(* of CommitPlayReveal, which the epoch engine implements, behind the      *)
(* guards of RateLimits.                                                   *)
(*                                                                         *)
(* Every request of the backend to the server is a step of its own.  The   *)
(* backend reads epochs, receipts, rules and proofs without its key, so    *)
(* all its players share the limit of one address.  Each outcome is        *)
(* drawn by the server at play; recomputing it gives the same.             *)
(***************************************************************************)
EXTENDS RateLimits, Sequences, Functions

CONSTANTS
  Null,        \* nothing
  Backend,     \* the address of the casino's backend
  Me, Others,  \* client seeds: the player's, everyone else's
  Bets,        \* bets on the table
  PageLimit,   \* receipts a page of the list holds at most, 1000 in the code
  StartChips,  \* 1000 in the code
  MaxEpochs,   \* bound: epochs ever opened
  MaxOthers,   \* bound: bets of everyone else
  MaxSpins,    \* bound: clicks on SPIN
  MaxClicks,   \* bound: clicks on Verify
  MaxPanels,   \* bound: rows whose Verify button is clicked
  MaxCredit,   \* bound: plays the operator has paid for
  MaxFaults    \* bound: answers lost, restarts, suspensions, strangers

\* What the backend asks of the server for a click on SPIN, and a receipt that came back.
SpinReceipts == [epoch: Nat, bet: Int, won: BOOLEAN]

SpinRequests ==
  [stage: {"none", "register", "play", "answer", "failed"}, bet: Bets \cup {Null},
   stake: Nat, receipt: SpinReceipts \cup {Null}]

ASSUME CasinoAssumption ==
  /\ Backend \in Addresses
  /\ Me # Others
  /\ StartChips \in Nat
  /\ Null \notin SpinRequests

VARIABLES
  ledger,      \* the server's epochs, in order
  rules,       \* the server's table of rules
  credit,      \* plays the operator's balance still pays for
  registered,  \* the set registered of the backend
  spin,        \* the spin request in flight
  page,        \* of the page: phase, chips, pending
  rows,        \* its table of results, first spin first: Verify cell and panel
  used         \* what the bounds count

serverVars == <<ledger, rules, credit>>
casinoVars == <<limitVars, serverVars, registered, spin, page, rows, used>>

Server == INSTANCE CommitPlayReveal WITH ClientSeeds <- {Me, Others}

-----------------------------------------------------------------------------
(* The server *)

\* An epoch is opened when none is.
OpenedOf(l) == IF Server!Accepting(l) THEN l ELSE Append(l, Server!Committed)

PlayedOf(l, c) ==
  LET es == OpenedOf(l)
  IN  [es EXCEPT ![Len(es)].bets = @ \cup {Server!NextBet(@, c)}]

Closed(e) == ledger[e].phase = "sealed"

BetsOf(l, c) == {place \in UNION {{e} \X l[e].bets : e \in DOMAIN l} : place[2].client = c}

\* POST /rules, of an active operator; a rule there is stays.
Register(rule) == active /\ rules' = rules \cup {rule}

\* GET /rules/:ruleHash
Known(rule) == rule \in rules

\* LIMIT of receiptPage, from offset 0: bets are in order.
FirstRows(bets, limit) == {b \in bets : b.bet < limit}

\* GET /epochs/:id/receipts, asked for as many as it gives.
Receipts(e) == FirstRows(ledger[e].bets, PageLimit)

\* Anything else the ledger allows: bets of others, closes, new epochs; reveals
\* are left out. (Bound: the last epoch stays open.)
ServerMoves ==
  /\ Server!Next
  /\ Len(ledger') <= MaxEpochs
  /\ \A e \in DOMAIN ledger' :
       /\ e = MaxEpochs => ledger'[e].phase = "accepting"
       /\ ~ledger'[e].revealed
  /\ BetsOf(ledger', Me) = BetsOf(ledger, Me)
  /\ Cardinality(BetsOf(ledger', Others)) <= MaxOthers
  /\ UNCHANGED <<limitVars, rules, credit, registered, spin, page, rows, used>>

Fault == used.faults < MaxFaults /\ used' = [used EXCEPT !.faults = @ + 1]

\* A reader elsewhere, who may find the map full.
StrangerReads(a) ==
  /\ a # Backend
  /\ Fault
  /\ Admitted(a, FALSE)
  /\ UNCHANGED <<serverVars, registered, spin, page, rows>>

\* The admin suspends the operator and takes it back.
SuspendOrResume ==
  /\ \/ SetActive(FALSE) /\ Fault
     \/ SetActive(TRUE) /\ UNCHANGED used
  /\ UNCHANGED <<serverVars, registered, spin, page, rows>>

\* Ten seconds pass, for the limits and for the polls. The first request of the new
\* window is that of refreshState, in the code every fifteen seconds and after each
\* spin: /epochs/current, without the key, opens an epoch; the balance, with it,
\* changes nothing.
WindowTurns ==
  /\ NextWindow(Backend)
  /\ ledger' = OpenedOf(ledger)
  /\ rows' = [i \in DOMAIN rows |-> [rows[i] EXCEPT !.due = rows[i].armed]]
  /\ UNCHANGED <<rules, credit, registered, spin, page, used>>

-----------------------------------------------------------------------------
(* A spin *)

NoSpin == [stage |-> "none", bet |-> Null, stake |-> 0, receipt |-> Null]

\* doSpin up to its await, and the backend up to its own: a rule it has registered, or
\* one to register first. The button is off until the phase is idle again.
DoSpin(bet, stake) ==
  /\ page.phase = "idle" /\ used.spins < MaxSpins
  /\ page.chips >= stake
  /\ page' = [page EXCEPT !.phase = "asking"]
  /\ spin' = [stage |-> IF bet \in registered THEN "play" ELSE "register",
              bet |-> bet, stake |-> stake, receipt |-> Null]
  /\ used' = [used EXCEPT !.spins = @ + 1]
  /\ UNCHANGED <<limitVars, serverVars, registered, rows>>

\* The backend answers 400, to a client seed the player has typed wrong, or the
\* request does not get through.
SpinBad ==
  /\ spin.stage \in {"register", "play"}
  /\ Fault
  /\ spin' = [spin EXCEPT !.stage = "failed"]
  /\ UNCHANGED <<limitVars, serverVars, registered, page, rows>>

\* ensureRegistered: the rule is in the server's table before it is in the set.
SpinRegisters ==
  /\ spin.stage = "register" /\ Register(spin.bet)
  /\ registered' = registered \cup {spin.bet}
  /\ spin' = [spin EXCEPT !.stage = "play"]
  /\ UNCHANGED <<limitVars, ledger, credit, page, rows, used>>

\* What POST /play leaves behind when it is through.
Plays ==
  /\ spin.stage = "play" /\ PlayAdmitted
  /\ credit > 0 /\ Known(spin.bet)
  /\ ledger' = PlayedOf(ledger, Me)
  /\ credit' = credit - 1
  /\ UNCHANGED <<rules, registered, page, rows>>

\* The receipt: its signature verifies, the server being honest here.
SpinPlays(won) ==
  /\ Plays
  /\ LET e == Len(ledger')
         bet == Cardinality(ledger'[e].bets) - 1
     IN  spin' = [spin EXCEPT !.stage = "answer",
                              !.receipt = [epoch |-> e, bet |-> bet, won |-> won]]
  /\ UNCHANGED used

\* The bet is placed and charged, the answer is lost.
SpinLost ==
  /\ Plays
  /\ Fault
  /\ spin' = [spin EXCEPT !.stage = "failed"]

\* 403 or 429 for a suspended operator; 429 beyond the play limit; 402.
SpinRejected ==
  /\ spin.stage \in {"register", "play"}
  /\ \/ ~active /\ Refused(Backend, TRUE) /\ UNCHANGED limitVars
     \/ ~active /\ Admitted(Backend, TRUE)
     \/ active /\ spin.stage = "play" /\ PlayRefused /\ UNCHANGED limitVars
     \/ spin.stage = "play" /\ credit = 0 /\ PlayAdmitted
  /\ spin' = [spin EXCEPT !.stage = "failed"]
  /\ UNCHANGED <<serverVars, registered, page, rows, used>>

\* The stake leaves the chips with the answer, not with the click.
SpinAnswered ==
  /\ spin.stage = "answer"
  /\ page' = [page EXCEPT !.phase = "spinning", !.chips = @ - spin.stake,
                          !.pending = spin]
  /\ spin' = NoSpin
  /\ UNCHANGED <<limitVars, serverVars, registered, rows, used>>

\* Bug: takes the stake of a spin that failed.
SpinFailedCharged ==
  /\ spin.stage = "failed"
  /\ page' = [page EXCEPT !.phase = "idle", !.chips = @ - spin.stake]
  /\ spin' = NoSpin
  /\ UNCHANGED <<limitVars, serverVars, registered, rows, used>>

SpinFailed ==
  /\ spin.stage = "failed"
  /\ page' = [page EXCEPT !.phase = "idle"]
  /\ spin' = NoSpin
  /\ UNCHANGED <<limitVars, serverVars, registered, rows, used>>

\* An even-money bet; the code rounds the stake times payoutBp.
Returned(s) == IF s.receipt.won THEN 2 * s.stake ELSE 0

RowOf(s) ==
  [epoch |-> s.receipt.epoch, bet |-> s.receipt.bet, rule |-> s.bet, net |-> Returned(s) - s.stake,
   cell |-> "button", panel |-> "none", checks |-> {}, armed |-> FALSE, due |-> FALSE,
   click |-> Null, poll |-> Null]

\* settle, when the ball stops: the row of the spin.
Settle ==
  /\ page.phase = "spinning"
  /\ page' = [page EXCEPT !.phase = "idle", !.chips = @ + Returned(page.pending), !.pending = Null]
  /\ rows' = Append(rows, RowOf(page.pending))
  /\ UNCHANGED <<limitVars, serverVars, registered, spin, used>>

-----------------------------------------------------------------------------
(* A proof: /api/proof, asked by a click on Verify or by the panel's timer *)

OnPage == UNCHANGED <<limitVars, serverVars, registered, spin, page>>

NewFetch == [stage |-> "epoch", closed |-> FALSE, checks |-> {}]

At(i, who, stage) == rows[i][who] # Null /\ rows[i][who].stage = stage

Becomes(i, who, fetch) ==
  /\ rows' = [rows EXCEPT ![i][who] = fetch]
  /\ UNCHANGED <<rules, credit, registered, spin, page>>

\* GET /epochs/:id shows whether the epoch is closed, and its seed if so. (That this
\* reveals the seed is for the ledger: nothing here depends on it.)
ReadEpoch(i, who) ==
  /\ At(i, who, "epoch") /\ Admitted(Backend, FALSE)
  /\ Becomes(i, who, [rows[i][who] EXCEPT !.stage = "page", !.closed = Closed(rows[i].epoch)])
  /\ UNCHANGED <<ledger, used>>

\* Whether the backend finds the bet of a row.
OnFirstPage(row) == \E b \in Receipts(row.epoch) : b.bet = row.bet

\* GET /epochs/:id/receipts?limit=1000: the first page only. The receipt's signature
\* and, with the seed, its commitment check out. (GET /epochs/current, while the epoch
\* is open, is for the countdown only and left out.)
ReadPage(i, who) ==
  /\ At(i, who, "page") /\ Admitted(Backend, FALSE)
  /\ OnFirstPage(rows[i])
  /\ Becomes(i, who, [rows[i][who] EXCEPT !.stage = IF rows[i][who].closed THEN "rule" ELSE "answer"])
  /\ UNCHANGED <<ledger, used>>

\* GET /rules/:ruleHash, and the outcome recomputed.
ReadRule(i, who) ==
  /\ At(i, who, "rule") /\ Admitted(Backend, FALSE) /\ Known(rows[i].rule)
  /\ Becomes(i, who, [rows[i][who] EXCEPT !.stage = "proof", !.checks = @ \cup {"outcome"}])
  /\ UNCHANGED <<ledger, used>>

\* GET /epochs/:id/proof/:betId, and the path folded up to the root.
ReadProof(i, who) ==
  /\ At(i, who, "proof") /\ Admitted(Backend, FALSE)
  /\ Becomes(i, who, [rows[i][who] EXCEPT !.stage = "answer", !.checks = @ \cup {"merkle"}])
  /\ UNCHANGED <<ledger, used>>

\* 429 for a rule or a proof: its check is left out.
CheckRefused(i, who) ==
  /\ Refused(Backend, FALSE)
  /\ \/ At(i, who, "rule") /\ Becomes(i, who, [rows[i][who] EXCEPT !.stage = "proof"])
     \/ At(i, who, "proof") /\ Becomes(i, who, [rows[i][who] EXCEPT !.stage = "answer"])
  /\ UNCHANGED <<limitVars, ledger, used>>

\* Bug: leaves the cell as it is.
FailedSilently(row, who) == [row EXCEPT ![who] = Null]

\* The page on an error: a click shows it next to the button, a panel stays, a poll
\* tries again.
Failed(row, who) ==
  [row EXCEPT ![who] = Null, !.cell = IF who = "click" THEN "button" ELSE @]

\* 404: the epoch or its receipts are refused, or the bet is beyond the first page.
ProofUnknown(i, who) ==
  /\ \/ At(i, who, "epoch") /\ Refused(Backend, FALSE) /\ UNCHANGED limitVars
     \/ At(i, who, "page") /\ Refused(Backend, FALSE) /\ UNCHANGED limitVars
     \/ At(i, who, "page") /\ rows[i].bet >= PageLimit /\ Admitted(Backend, FALSE)
  /\ rows' = [rows EXCEPT ![i] = Failed(@, who)]
  /\ UNCHANGED <<serverVars, registered, spin, page, used>>

ProofLost(i, who) ==
  /\ rows[i][who] # Null
  /\ Fault
  /\ rows' = [rows EXCEPT ![i] = Failed(@, who)]
  /\ OnPage

BackendReads(i, who) ==
  \/ ReadEpoch(i, who) \/ ReadPage(i, who) \/ ReadRule(i, who) \/ ReadProof(i, who)
  \/ CheckRefused(i, who) \/ ProofUnknown(i, who)

\* The backend restarts: what it was doing fails, what it had registered is gone.
BackendRestarts ==
  /\ Fault
  /\ registered' = {}
  /\ spin' = IF spin = NoSpin THEN spin ELSE [spin EXCEPT !.stage = "failed"]
  /\ rows' = [i \in DOMAIN rows |->
       LET polled == [rows[i] EXCEPT !.poll = Null]
       IN  IF polled.click = Null THEN polled ELSE Failed(polled, "click")]
  /\ UNCHANGED <<limitVars, serverVars, page>>

-----------------------------------------------------------------------------
(* The panel of a row *)

\* Bug: starts the timer with the first panel of a row only.
RenderedOnce(row, fetch) ==
  [row EXCEPT !.cell = "button", !.checks = fetch.checks, !.due = FALSE,
              !.panel = IF fetch.closed THEN "revealed" ELSE "waiting",
              !.armed = ~fetch.closed /\ row.panel = "none"]

\* renderProof: a new panel in place of the old, whose timer stops for lack of it;
\* one that waits starts a timer of its own.
Rendered(row, fetch) ==
  [row EXCEPT !.cell = "button", !.checks = fetch.checks, !.due = FALSE,
              !.panel = IF fetch.closed THEN "revealed" ELSE "waiting",
              !.armed = ~fetch.closed]

\* runVerify; the button is gone until the cell is rendered again.
Verify(i) ==
  /\ i <= MaxPanels /\ rows[i].cell # "dots" /\ rows[i].click = Null /\ used.clicks < MaxClicks
  /\ rows' = [rows EXCEPT ![i].cell = "dots", ![i].click = NewFetch]
  /\ used' = [used EXCEPT !.clicks = @ + 1]
  /\ OnPage

ClickAnswered(i) ==
  /\ At(i, "click", "answer")
  /\ rows' = [rows EXCEPT ![i] = [Rendered(@, rows[i].click) EXCEPT !.click = Null]]
  /\ UNCHANGED used
  /\ OnPage

\* armAutoRefresh, every ten seconds. (Bound: one poll of a row at a time.)
Poll(i) ==
  /\ rows[i].armed /\ rows[i].due /\ rows[i].poll = Null
  /\ rows' = [rows EXCEPT ![i].due = FALSE, ![i].poll = NewFetch]
  /\ UNCHANGED used
  /\ OnPage

\* Only a closed epoch is rendered; whatever has become of the panel meanwhile.
PollAnswered(i) ==
  /\ At(i, "poll", "answer")
  /\ rows' = [rows EXCEPT ![i] =
       [(IF rows[i].poll.closed THEN Rendered(@, rows[i].poll) ELSE @) EXCEPT !.poll = Null]]
  /\ UNCHANGED used
  /\ OnPage

Hide(i) ==
  /\ rows[i].panel # "none"
  /\ rows' = [rows EXCEPT ![i].panel = "none", ![i].armed = FALSE, ![i].due = FALSE]
  /\ UNCHANGED used
  /\ OnPage

-----------------------------------------------------------------------------
CasinoInit ==
  /\ LimitsInit
  /\ ledger = <<Server!Committed>>
  /\ rules = {}
  /\ credit = MaxCredit
  /\ registered = {}
  /\ spin = NoSpin
  /\ page = [phase |-> "idle", chips |-> StartChips, pending |-> Null]
  /\ rows = <<>>
  /\ used = [spins |-> 0, clicks |-> 0, faults |-> 0]

SpinSteps ==
  SpinRegisters \/ (\E won \in BOOLEAN : SpinPlays(won)) \/ SpinRejected \/ SpinAnswered \/ SpinFailed \/ Settle

CasinoNext ==
  \/ ServerMoves \/ SuspendOrResume \/ WindowTurns \/ BackendRestarts
  \/ \E a \in Addresses : StrangerReads(a)
  \/ \E bet \in Bets, stake \in 1..StartChips : DoSpin(bet, stake)
  \/ SpinSteps \/ SpinBad \/ SpinLost
  \/ \E i \in DOMAIN rows, who \in {"click", "poll"} : BackendReads(i, who) \/ ProofLost(i, who)
  \/ \E i \in DOMAIN rows : Verify(i) \/ Poll(i) \/ ClickAnswered(i) \/ PollAnswered(i) \/ Hide(i)

CasinoSpec == CasinoInit /\ [][CasinoNext]_casinoVars

\* Requests are answered or fail, a ball stops, timers fire, time goes on. Nobody
\* owes the page a click, nor the server a close.
CasinoFairSpec ==
  /\ CasinoSpec
  /\ WF_casinoVars(WindowTurns)
  /\ WF_casinoVars(SpinSteps)
  /\ \A i \in 1..MaxPanels :
       /\ WF_casinoVars(i \in DOMAIN rows /\ (BackendReads(i, "click") \/ ClickAnswered(i)))
       /\ WF_casinoVars(i \in DOMAIN rows /\ (Poll(i) \/ BackendReads(i, "poll") \/ PollAnswered(i)))

-----------------------------------------------------------------------------
(* Properties *)

\* Every result the page shows is a bet of the player in the server's ledger, no bet
\* is shown twice, and the chips are what the results and the spin under way leave:
\* spins that fail on their way there and back cost nothing (doSpin, settle).
ResultsAreBets ==
  /\ \A i \in DOMAIN rows :
       /\ \E b \in ledger[rows[i].epoch].bets : b.client = Me /\ b.bet = rows[i].bet
       /\ \A j \in DOMAIN rows :
            (rows[i].epoch = rows[j].epoch /\ rows[i].bet = rows[j].bet) => i = j
  /\ page.chips = StartChips + SumFunction([i \in DOMAIN rows |-> rows[i].net])
                    - (IF page.pending = Null THEN 0 ELSE page.pending.stake)

Waits(i) == i \in DOMAIN rows /\ rows[i].panel = "waiting"

\* Once its epoch is closed, a panel that waits for the reveal is replaced by one that
\* shows it, or hidden: an answer from before the close that comes last may bring the
\* waiting panel back, but not for good, and no limit keeps the reveal away for good
\* (renderProof, armAutoRefresh).
RevealIsShown ==
  \A i \in 1..MaxPanels : (Waits(i) /\ Closed(rows[i].epoch)) ~> ~Waits(i)

\* The Verify button comes back, whatever becomes of the request (runVerify).
VerifyReturns ==
  \A i \in 1..MaxPanels :
    (i \in DOMAIN rows /\ rows[i].cell = "dots")
      ~> ~(i \in DOMAIN rows /\ rows[i].cell = "dots")

\* "After the epoch closes, the Verify button recomputes all four offline checks":
\* a panel that shows the reveal has the outcome and the Merkle proof as well.
RevealHasAllChecks ==
  \A i \in DOMAIN rows :
    rows[i].panel = "revealed" => rows[i].checks = {"outcome", "merkle"}

=============================================================================
