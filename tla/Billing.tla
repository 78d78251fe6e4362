-------------------------------- MODULE Billing --------------------------------
(***************************************************************************)
(* Money in the orchestration server (server/src/controllers.ts): services *)
(* (table operators), what they were charged (receipts.price_wei), what    *)
(* their owners paid in (table deposits) and the topup call, the one       *)
(* handler that awaits: it asks a chain node twice (server/src/wallet.ts,  *)
(* rpcChain) between reading its operator row and inserting the deposit.   *)
(* Any other call, and a restart, can come in between.                     *)
(*                                                                         *)
(* The chain is not the server's: a transaction is unknown, then pending,  *)
(* then mined or reverted, and its sender, recipient and value never       *)
(* change. API keys, session tokens and timestamps are left out; a play    *)
(* leaves its price alone here, its receipt is the business of EpochEngine.*)
(***************************************************************************)
EXTENDS Integers, Sequences, FiniteSets, Functions

CONSTANTS
  Wallets,       \* owner wallets
  TxHashes,      \* transactions of the chain
  Amounts,       \* wei a transaction may carry, 0 among them
  Prices,        \* values of FORESEER_PRICE_PER_PLAY_WEI, one per boot
  CustomNames,   \* service names a caller may choose
  Calls,         \* POST /billing/topup calls that can be in flight together
  Null,          \* an SQL NULL
  MaxServices,   \* services a wallet may create, 5 in the code
  MaxOperators,  \* bound: rows in operators
  MaxPlays,      \* bound: plays of one service
  MaxRestarts    \* bound: restarts of the process

ASSUME MoneyAssumption ==
  /\ Amounts \subseteq Nat
  /\ Prices \subseteq Nat /\ Prices # {} /\ IsFiniteSet(Prices)
ASSUME NullAssumption == Null \notin Wallets
ASSUME BoundsAssumption ==
  /\ MaxServices \in Nat
  /\ MaxOperators \in Nat
  /\ MaxPlays \in Nat
  /\ MaxRestarts \in Nat

VARIABLES
  operators,  \* table operators, in id order
  deposits,   \* table deposits: a set of rows
  plays,      \* table receipts, GROUP BY operator_id, price_wei: counts
  price,      \* pricePerPlayWei
  chain,      \* the transactions as a chain node reports them
  calls,      \* topup calls in flight
  told,       \* history: transactions a 409 called already credited
  restarts    \* restarts so far, for MaxRestarts

tables == <<operators, deposits, plays>>
vars == <<operators, deposits, plays, price, chain, calls, told, restarts>>

Ids == 1..Len(operators)

-----------------------------------------------------------------------------
(* Funds *)

NoPlays == [p \in Prices |-> 0]

PlaysOf(o) == SumFunction(plays[o])

\* Bug: charges every play at today's price.
Repriced(o) == PlaysOf(o) * price

\* playCharges: each play at the price in its own row.
Spent(o) == SumFunction([p \in Prices |-> p * plays[o][p]])

DepositsOf(o) == {d \in deposits : d.operator = o}

Deposited(o) == SumFunction([d \in DepositsOf(o) |-> d.amount])

\* operatorFunds
Balance(o) == Deposited(o) - Spent(o)

\* GET /admin/billing, over all time: a row per operator.
BillingReport ==
  [o \in Ids |-> [plays |-> PlaysOf(o), amountDue |-> Spent(o),
                  deposited |-> Deposited(o), balance |-> Balance(o)]]

-----------------------------------------------------------------------------
(* The chain, outside the server *)

\* A transaction by its sender and value; only some pay the treasury.
Unsent == [status |-> "unknown", from |-> Null, toTreasury |-> FALSE, value |-> 0]

Send(t, w, toTreasury, v) ==
  /\ chain[t].status = "unknown"
  /\ chain' = [chain EXCEPT ![t] = [status |-> "pending", from |-> w,
                                    toTreasury |-> toTreasury, value |-> v]]
  /\ UNCHANGED <<tables, price, calls, told, restarts>>

Mine(t, status) ==
  /\ chain[t].status = "pending"
  /\ chain' = [chain EXCEPT ![t].status = status]
  /\ UNCHANGED <<tables, price, calls, told, restarts>>

-----------------------------------------------------------------------------
(* Services *)

Names == {operators[o].name : o \in Ids}

Owned(w) == {o \in Ids : operators[o].owner = w}

\* service-<first digits of the wallet>-<n>
DefaultName(w) == <<w, Cardinality(Owned(w)) + 1>>

\* INSERT INTO operators, refused when the name is taken.
InsertOperator(name, owner) ==
  /\ Len(operators) < MaxOperators
  /\ name \notin Names
  /\ operators' = Append(operators, [name |-> name, owner |-> owner, active |-> TRUE])
  /\ plays' = Append(plays, NoPlays)
  /\ UNCHANGED <<deposits, price, chain, calls, told, restarts>>

\* POST /admin/operators: with an owner wallet the service is prepaid, without it
\* is invoiced.
CreateOperator(name, owner) == InsertOperator(name, owner)

\* POST /billing/operators by a logged in wallet, under its own name or the default.
CreateForWallet(w, name) ==
  /\ Cardinality(Owned(w)) < MaxServices
  /\ InsertOperator(name, w)

\* POST /admin/operators/:id/active
SetActive(o, active) ==
  /\ operators' = [operators EXCEPT ![o].active = active]
  /\ UNCHANGED <<deposits, plays, price, chain, calls, told, restarts>>

\* Bug: lets a service play until its balance is gone.
PlayOnCredit(o) ==
  /\ operators[o].active
  /\ PlaysOf(o) < MaxPlays
  /\ operators[o].owner # Null /\ price > 0 => Balance(o) > 0
  /\ plays' = [plays EXCEPT ![o][price] = @ + 1]
  /\ UNCHANGED <<operators, deposits, price, chain, calls, told, restarts>>

\* POST /play: 402 for a prepaid service that cannot pay, and the price goes into
\* the receipt.
Play(o) ==
  /\ operators[o].active
  /\ PlaysOf(o) < MaxPlays
  /\ operators[o].owner # Null /\ price > 0 => Balance(o) >= price
  /\ plays' = [plays EXCEPT ![o][price] = @ + 1]
  /\ UNCHANGED <<operators, deposits, price, chain, calls, told, restarts>>

-----------------------------------------------------------------------------
(* POST /billing/topup *)

Idle == [stage |-> "idle"]

\* Bug: takes topups for services without an owner wallet.
TopupStartUnowned(k, o, t) ==
  /\ calls[k] = Idle
  /\ operators[o].active
  /\ calls' = [calls EXCEPT ![k] =
       [stage |-> "tx", operator |-> o, owner |-> operators[o].owner, tx |-> t]]
  /\ UNCHANGED <<tables, price, chain, told, restarts>>

\* The guard reads the operator row; the handler asks the node for the transaction.
TopupStart(k, o, t) ==
  /\ calls[k] = Idle
  /\ operators[o].active
  /\ operators[o].owner # Null
  /\ calls' = [calls EXCEPT ![k] =
       [stage |-> "tx", operator |-> o, owner |-> operators[o].owner, tx |-> t]]
  /\ UNCHANGED <<tables, price, chain, told, restarts>>

\* eth_getTransactionByHash: 404 when the node does not know it.
TopupSeesTx(k) ==
  /\ calls[k].stage = "tx"
  /\ calls' = [calls EXCEPT ![k] =
       IF chain[calls[k].tx].status = "unknown" THEN Idle ELSE [@ EXCEPT !.stage = "receipt"]]
  /\ UNCHANGED <<tables, price, chain, told, restarts>>

\* eth_getTransactionReceipt: 409 while it is not mined, 400 when it reverted.
TopupSeesReceipt(k) ==
  /\ calls[k].stage = "receipt"
  /\ calls' = [calls EXCEPT ![k] =
       IF chain[calls[k].tx].status # "mined" THEN Idle ELSE [@ EXCEPT !.stage = "mined"]]
  /\ UNCHANGED <<tables, price, chain, told, restarts>>

\* 502, or any other failure of the node.
TopupRpcFails(k) ==
  /\ calls[k].stage \in {"tx", "receipt"}
  /\ calls' = [calls EXCEPT ![k] = Idle]
  /\ UNCHANGED <<tables, price, chain, told, restarts>>

Pays(t, w) == chain[t].toTreasury /\ chain[t].from = w /\ chain[t].value > 0

DepositOf(call) ==
  [tx |-> call.tx, operator |-> call.operator, from |-> chain[call.tx].from,
   amount |-> chain[call.tx].value]

Credited == {d.tx : d \in deposits}

\* Bug: a transaction is credited once per service.
CreditedTo(o) == {d.tx : d \in DepositsOf(o)}

TopupOncePerService(k) ==
  /\ calls[k].stage = "mined"
  /\ Pays(calls[k].tx, calls[k].owner)
  /\ calls[k].tx \notin CreditedTo(calls[k].operator)
  /\ deposits' = deposits \cup {DepositOf(calls[k])}
  /\ calls' = [calls EXCEPT ![k] = Idle]
  /\ UNCHANGED <<operators, plays, price, chain, told, restarts>>

\* The checks of the handler and the INSERT; tx_hash is the primary key.
TopupCredits(k) ==
  /\ calls[k].stage = "mined"
  /\ Pays(calls[k].tx, calls[k].owner)
  /\ calls[k].tx \notin Credited
  /\ deposits' = deposits \cup {DepositOf(calls[k])}
  /\ calls' = [calls EXCEPT ![k] = Idle]
  /\ UNCHANGED <<operators, plays, price, chain, told, restarts>>

\* 400 or 403 for a payment that is not this owner's to the treasury.
TopupRefused(k) ==
  /\ calls[k].stage = "mined"
  /\ ~Pays(calls[k].tx, calls[k].owner)
  /\ calls' = [calls EXCEPT ![k] = Idle]
  /\ UNCHANGED <<tables, price, chain, told, restarts>>

\* The INSERT hits the primary key: 409, already credited.
TopupDuplicate(k) ==
  /\ calls[k].stage = "mined"
  /\ Pays(calls[k].tx, calls[k].owner)
  /\ calls[k].tx \in Credited
  /\ told' = told \cup {calls[k].tx}
  /\ calls' = [calls EXCEPT ![k] = Idle]
  /\ UNCHANGED <<tables, price, chain, restarts>>

\* The INSERT fails for another reason (disk full, I/O): the same catch, the same 409.
TopupInsertFails(k) ==
  /\ calls[k].stage = "mined"
  /\ Pays(calls[k].tx, calls[k].owner)
  /\ calls[k].tx \notin Credited
  /\ told' = told \cup {calls[k].tx}
  /\ calls' = [calls EXCEPT ![k] = Idle]
  /\ UNCHANGED <<tables, price, chain, restarts>>

\* The process goes down and comes back, with the price of its environment; calls
\* in flight are gone.
Restart(p) ==
  /\ restarts < MaxRestarts
  /\ restarts' = restarts + 1
  /\ price' = p
  /\ calls' = [k \in Calls |-> Idle]
  /\ UNCHANGED <<tables, chain, told>>

-----------------------------------------------------------------------------
OperatorRow ==
  [name: CustomNames \cup (Wallets \X Nat), owner: Wallets \cup {Null}, active: BOOLEAN]

DepositRow == [tx: TxHashes, operator: Nat, from: Wallets, amount: Amounts]

ChainTx ==
  [status: {"pending", "mined", "failed"}, from: Wallets, toTreasury: BOOLEAN,
   value: Amounts]

InFlight ==
  [stage: {"tx", "receipt", "mined"}, operator: Nat, owner: Wallets, tx: TxHashes]

TypeOK ==
  /\ operators \in Seq(OperatorRow)
  /\ deposits \subseteq DepositRow
  /\ plays \in Seq([Prices -> Nat])
  /\ price \in Prices
  /\ chain \in [TxHashes -> ChainTx \cup {Unsent}]
  /\ calls \in [Calls -> InFlight \cup {Idle}]
  /\ told \subseteq TxHashes
  /\ restarts \in 0..MaxRestarts

Init ==
  /\ operators = <<>>
  /\ deposits = {}
  /\ plays = <<>>
  /\ price \in Prices
  /\ chain = [t \in TxHashes |-> Unsent]
  /\ calls = [k \in Calls |-> Idle]
  /\ told = {}
  /\ restarts = 0

Next ==
  \/ \E t \in TxHashes, w \in Wallets, b \in BOOLEAN, v \in Amounts : Send(t, w, b, v)
  \/ \E t \in TxHashes, s \in {"mined", "failed"} : Mine(t, s)
  \/ \E n \in CustomNames, w \in Wallets \cup {Null} : CreateOperator(n, w)
  \/ \E w \in Wallets : \E n \in CustomNames \cup {DefaultName(w)} : CreateForWallet(w, n)
  \/ \E o \in Ids, b \in BOOLEAN : SetActive(o, b)
  \/ \E o \in Ids : Play(o)
  \/ \E k \in Calls, o \in Ids, t \in TxHashes : TopupStart(k, o, t)
  \/ \E k \in Calls :
       \/ TopupSeesTx(k)
       \/ TopupSeesReceipt(k)
       \/ TopupRpcFails(k)
       \/ TopupCredits(k)
       \/ TopupRefused(k)
       \/ TopupDuplicate(k)
       \/ TopupInsertFails(k)
  \/ \E p \in Prices : Restart(p)

Spec == Init /\ [][Next]_vars

-----------------------------------------------------------------------------
(* Safety *)

\* Each deposit is one mined payment of the service's owner to the treasury, and
\* no payment is two deposits: calls for one transaction may overlap, for the
\* same service or for two of the wallet's, and owner is read before the awaits.
EachDepositIsItsPayment ==
  /\ \A d \in deposits :
       /\ chain[d.tx].status = "mined"
       /\ chain[d.tx].toTreasury
       /\ d.from = chain[d.tx].from
       /\ d.amount = chain[d.tx].value
       /\ d.operator \in Ids /\ operators[d.operator].owner = d.from
  /\ \A d, e \in deposits : d.tx = e.tx => d = e

Payments(w) ==
  {t \in TxHashes : chain[t].status = "mined" /\ chain[t].toTreasury /\ chain[t].from = w}

\* The amounts the admin's report calls due from the services of a wallet are together
\* no more than the wallet paid to the treasury.
SpendingIsPaidFor ==
  \A w \in Wallets :
    SumFunction([o \in Owned(w) |-> BillingReport[o].amountDue])
      <= SumFunction([t \in Payments(w) |-> chain[t].value])

\* A prepaid service is never in debt, whatever the price was when it played and
\* however often it changed since (the 402 of POST /play).
PrepaidNeverOverdrawn ==
  \A o \in Ids : operators[o].owner # Null => Balance(o) >= 0

\* "Plays are charged at their recorded price, never re-priced": what a service
\* spent changes only by a play of its own, by the price of that moment.
ChargesNeverRepriced ==
  [][\A o \in Ids : Spent(o)' # Spent(o) =>
       PlaysOf(o)' = PlaysOf(o) + 1 /\ Spent(o)' = Spent(o) + price]_vars

\* Does not hold, once an INSERT has failed for another reason: a 409 that says a
\* transaction is already credited speaks of one that is ("transaction already
\* credited", the API's table of errors).
ToldCreditedIsCredited == told \subseteq Credited

\* Does not hold, once the price has changed: the amount due is the number of plays
\* times the price, as the server's README defines it for the billing report.
AmountDueIsPlaysTimesPrice ==
  \A o \in Ids : BillingReport[o].amountDue = BillingReport[o].plays * price

\* Does not hold, once somebody has taken the name: a wallet without a service "can
\* provision itself in one call", for the name it gets by default is free.
DefaultNameIsFree ==
  \A w \in Wallets : Owned(w) = {} => DefaultName(w) \notin Names

=============================================================================
