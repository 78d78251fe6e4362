---------------------------- MODULE BillingProofs ----------------------------
(***************************************************************************)
(* Proofs about Billing, for every value of its constants.                 *)
(***************************************************************************)
EXTENDS Billing, SetSums

\* The tables, the chain and the calls are of their types.
Typed ==
  /\ operators \in Seq(OperatorRow)
  /\ deposits \in SUBSET DepositRow
  /\ chain \in [TxHashes -> ChainTx \cup {Unsent}]
  /\ calls \in [Calls -> InFlight \cup {Idle}]

\* A call that has read its row keeps an owner the row still has, and one that has
\* seen its transaction mined speaks of a transaction that stays mined.
CallsAreCurrent ==
  \A k \in Calls : calls[k] # Idle =>
    /\ calls[k].operator \in Ids
    /\ operators[calls[k].operator].owner = calls[k].owner
    /\ calls[k].stage = "mined" => chain[calls[k].tx].status = "mined"

IInv == Typed /\ CallsAreCurrent /\ EachDepositIsItsPayment

\* What a step may do to services and to the chain: add services, change who is
\* active, move a transaction forward.
Grows ==
  /\ Len(operators) <= Len(operators')
  /\ \A o \in Ids : operators'[o].owner = operators[o].owner
  /\ \A t \in TxHashes : chain[t].status = "mined" => chain'[t] = chain[t]

\* Before the first request nothing is credited.
LEMMA InitIInv == Init => IInv
BY DEF Init, IInv, Typed, CallsAreCurrent, EachDepositIsItsPayment

\* A call in flight has the fields of its stage.
LEMMA CallKinds ==
  ASSUME Typed, NEW k \in Calls, calls[k] # Idle
  PROVE  calls[k] \in InFlight
BY DEF Typed

\* What holds of the calls and deposits holds on, while services and chain grow.
LEMMA GrowsKeeps ==
  ASSUME IInv, Grows, Typed', deposits' = deposits,
         \A k \in Calls : calls'[k] \in {calls[k], Idle}
  PROVE  IInv'
<1>1. Ids \subseteq Ids'
  BY DEF IInv, Typed, Grows, Ids
<1>2. CallsAreCurrent'
  <2> SUFFICES ASSUME NEW k \in Calls, calls'[k] # Idle
               PROVE  /\ calls'[k].operator \in Ids'
                      /\ operators'[calls'[k].operator].owner = calls'[k].owner
                      /\ calls'[k].stage = "mined" => chain'[calls'[k].tx].status = "mined"
    BY DEF CallsAreCurrent
  <2>1. calls'[k] = calls[k] /\ calls[k] \in InFlight
    BY CallKinds DEF IInv
  <2>2. calls[k].tx \in TxHashes
    BY <2>1 DEF InFlight
  <2> QED
    BY <1>1, <2>1, <2>2 DEF IInv, CallsAreCurrent, Grows
<1>3. EachDepositIsItsPayment'
  <2>1. \A d \in deposits : d.tx \in TxHashes
    BY DEF IInv, Typed, DepositRow
  <2> QED
    BY <1>1, <2>1 DEF IInv, EachDepositIsItsPayment, Grows
<1> QED
  BY <1>2, <1>3 DEF IInv

\* A default name is a wallet and a number.
LEMMA DefaultNameType ==
  ASSUME Typed, NEW w \in Wallets
  PROVE  DefaultName(w) \in Wallets \X Nat
<1>1. IsFiniteSet(1..Len(operators))
  BY FS_Interval DEF Typed
<1>2. IsFiniteSet(Owned(w))
  BY <1>1, FS_Subset DEF Owned, Ids
<1>3. Cardinality(Owned(w)) + 1 \in Nat
  BY <1>2, FS_CardinalityType
<1> QED
  BY <1>3 DEF DefaultName

\* Every step keeps the invariant.
LEMMA NextIInv == IInv /\ [Next]_vars => IInv'
<1> SUFFICES ASSUME IInv, [Next]_vars PROVE IInv'
  OBVIOUS
<1> USE DEF tables
<1>1. ASSUME NEW t \in TxHashes, NEW w \in Wallets, NEW b \in BOOLEAN, NEW v \in Amounts,
             Send(t, w, b, v)
      PROVE  IInv'
  <2> DEFINE tx == [status |-> "pending", from |-> w, toTreasury |-> b, value |-> v]
  <2>1. /\ chain' = [chain EXCEPT ![t] = tx]
        /\ chain[t].status = "unknown"
        /\ UNCHANGED <<operators, deposits, calls>>
    BY <1>1 DEF Send
  <2>2. tx \in ChainTx
    BY DEF ChainTx
  <2>3. Typed'
    BY <2>1, <2>2 DEF IInv, Typed
  <2>4. Grows
    BY <2>1 DEF Grows, IInv, Typed
  <2> QED
    BY <2>1, <2>3, <2>4, GrowsKeeps
<1>2. ASSUME NEW t \in TxHashes, NEW s \in {"mined", "failed"}, Mine(t, s) PROVE IInv'
  <2>1. /\ chain' = [chain EXCEPT ![t].status = s]
        /\ chain[t].status = "pending"
        /\ UNCHANGED <<operators, deposits, calls>>
    BY <1>2 DEF Mine
  <2>2. chain[t] \in ChainTx
    BY <2>1 DEF IInv, Typed, Unsent
  <2>3. [chain[t] EXCEPT !.status = s] \in ChainTx
    BY <2>2 DEF ChainTx
  <2>4. Typed'
    BY <2>1, <2>3 DEF IInv, Typed
  <2>5. Grows
    BY <2>1 DEF Grows, IInv, Typed
  <2> QED
    BY <2>1, <2>4, <2>5, GrowsKeeps
<1>3. ASSUME NEW name \in CustomNames \cup (Wallets \X Nat), NEW owner \in Wallets \cup {Null},
             InsertOperator(name, owner)
      PROVE  IInv'
  <2> DEFINE row == [name |-> name, owner |-> owner, active |-> TRUE]
  <2>1. operators' = Append(operators, row) /\ UNCHANGED <<deposits, chain, calls>>
    BY <1>3 DEF InsertOperator
  <2>2. row \in OperatorRow
    BY DEF OperatorRow
  <2> HIDE DEF row
  <2>3. Typed' /\ Grows
    BY <2>1, <2>2 DEF IInv, Typed, Grows, Ids
  <2> QED
    BY <2>1, <2>3, GrowsKeeps
<1>4. ASSUME NEW o \in Ids, NEW b \in BOOLEAN, SetActive(o, b) PROVE IInv'
  <2>1. /\ operators' = [operators EXCEPT ![o].active = b]
        /\ UNCHANGED <<deposits, chain, calls>>
    BY <1>4 DEF SetActive
  <2> DEFINE row == [operators[o] EXCEPT !.active = b]
  <2>2. operators \in Seq(OperatorRow) /\ o \in 1..Len(operators) /\ operators[o] \in OperatorRow
    BY DEF IInv, Typed, Ids
  <2>3. row \in OperatorRow
    BY <2>2 DEF OperatorRow
  <2>4. operators' = [operators EXCEPT ![o] = row]
    BY <2>1
  <2> HIDE DEF row
  <2>5. operators' \in Seq(OperatorRow)
    BY <2>2, <2>3, <2>4
  <2>6. Typed'
    BY <2>1, <2>5 DEF IInv, Typed
  <2>7. Grows
    BY <2>1, <2>2 DEF IInv, Typed, Grows, Ids, OperatorRow
  <2> QED
    BY <2>1, <2>6, <2>7, GrowsKeeps
<1>5. ASSUME NEW k \in Calls, NEW o \in Ids, NEW t \in TxHashes, TopupStart(k, o, t)
      PROVE  IInv'
  <2> DEFINE call == [stage |-> "tx", operator |-> o, owner |-> operators[o].owner, tx |-> t]
  <2>1. /\ calls' = [calls EXCEPT ![k] = call] /\ operators[o].owner # Null
        /\ UNCHANGED <<operators, deposits, chain>>
    BY <1>5 DEF TopupStart
  <2>2. operators[o] \in OperatorRow /\ o \in Nat
    BY DEF IInv, Typed, Ids
  <2>3. operators[o].owner \in Wallets /\ o \in Nat
    BY <2>1, <2>2 DEF OperatorRow
  <2>4. call \in InFlight
    BY <2>3 DEF InFlight
  <2>5. Typed'
    BY <2>1, <2>4 DEF IInv, Typed
  <2>6. CallsAreCurrent'
    BY <2>1 DEF IInv, Typed, CallsAreCurrent, Ids
  <2>7. EachDepositIsItsPayment'
    BY <2>1 DEF IInv, EachDepositIsItsPayment, Ids
  <2> QED
    BY <2>5, <2>6, <2>7 DEF IInv
<1>6. ASSUME NEW k \in Calls, NEW call \in InFlight,
             calls' = [calls EXCEPT ![k] = call],
             calls[k] # Idle,
             call.operator = calls[k].operator /\ call.owner = calls[k].owner,
             call.stage = "mined" => chain[call.tx].status = "mined",
             UNCHANGED <<operators, deposits, chain>>
      PROVE  IInv'
  <2>1. Typed'
    BY <1>6 DEF IInv, Typed
  <2>2. CallsAreCurrent'
    BY <1>6 DEF IInv, Typed, CallsAreCurrent, Ids
  <2>3. EachDepositIsItsPayment'
    BY <1>6 DEF IInv, EachDepositIsItsPayment, Ids
  <2> QED
    BY <2>1, <2>2, <2>3 DEF IInv
<1>7. ASSUME NEW k \in Calls, calls' = [calls EXCEPT ![k] = Idle],
             UNCHANGED <<operators, deposits, chain>>
      PROVE  IInv'
  <2>1. Typed' /\ Grows /\ \A j \in Calls : calls'[j] \in {calls[j], Idle}
    BY <1>7 DEF IInv, Typed, Grows
  <2> QED
    BY <1>7, <2>1, GrowsKeeps
<1>8. ASSUME NEW k \in Calls, TopupSeesTx(k) PROVE IInv'
  <2>1. CASE chain[calls[k].tx].status = "unknown"
    BY <1>7, <1>8, <2>1 DEF TopupSeesTx
  <2>2. CASE chain[calls[k].tx].status # "unknown"
    <3> DEFINE call == [calls[k] EXCEPT !.stage = "receipt"]
    <3>1. calls[k] # Idle /\ calls[k] \in InFlight
      BY <1>8, CallKinds DEF TopupSeesTx, Idle, IInv
    <3>2. /\ call \in InFlight /\ call.stage = "receipt"
          /\ call.operator = calls[k].operator /\ call.owner = calls[k].owner
      BY <3>1 DEF InFlight
    <3>3. calls' = [calls EXCEPT ![k] = call] /\ UNCHANGED <<operators, deposits, chain>>
      BY <1>8, <2>2 DEF TopupSeesTx
    <3> HIDE DEF call
    <3> QED
      BY <1>6, <3>1, <3>2, <3>3
  <2> QED
    BY <2>1, <2>2
<1>9. ASSUME NEW k \in Calls, TopupSeesReceipt(k) PROVE IInv'
  <2>1. CASE chain[calls[k].tx].status # "mined"
    BY <1>7, <1>9, <2>1 DEF TopupSeesReceipt
  <2>2. CASE chain[calls[k].tx].status = "mined"
    <3> DEFINE call == [calls[k] EXCEPT !.stage = "mined"]
    <3>1. calls[k] # Idle /\ calls[k] \in InFlight
      BY <1>9, CallKinds DEF TopupSeesReceipt, Idle, IInv
    <3>2. /\ call \in InFlight /\ call.tx = calls[k].tx
          /\ call.operator = calls[k].operator /\ call.owner = calls[k].owner
      BY <3>1 DEF InFlight
    <3>3. calls' = [calls EXCEPT ![k] = call] /\ UNCHANGED <<operators, deposits, chain>>
      BY <1>9, <2>2 DEF TopupSeesReceipt
    <3> HIDE DEF call
    <3> QED
      BY <1>6, <2>2, <3>1, <3>2, <3>3
  <2> QED
    BY <2>1, <2>2
<1>10. ASSUME NEW k \in Calls, TopupCredits(k) PROVE IInv'
  <2> DEFINE call == calls[k]
             row == DepositOf(call)
  <2>1. /\ call # Idle /\ call \in InFlight /\ call.stage = "mined"
        /\ Pays(call.tx, call.owner) /\ call.tx \notin Credited
        /\ deposits' = deposits \cup {row}
        /\ calls' = [calls EXCEPT ![k] = Idle]
        /\ UNCHANGED <<operators, chain>>
    BY <1>10, CallKinds DEF TopupCredits, Idle, IInv
  <2>2. /\ call.operator \in Ids /\ operators[call.operator].owner = call.owner
        /\ chain[call.tx].status = "mined"
    BY <2>1 DEF IInv, CallsAreCurrent
  <2>3. call.tx \in TxHashes /\ call.operator \in Nat
    BY <2>1 DEF InFlight
  <2>4. chain[call.tx] \in ChainTx
    BY <2>2, <2>3 DEF IInv, Typed, Unsent
  <2>5. /\ row.tx = call.tx /\ row.operator = call.operator
        /\ row.from = chain[call.tx].from /\ row.amount = chain[call.tx].value
        /\ row \in DepositRow
    BY <2>3, <2>4 DEF DepositOf, DepositRow, ChainTx
  <2> HIDE DEF row, call
  <2>6. Typed'
    BY <2>1, <2>5 DEF IInv, Typed
  <2>7. CallsAreCurrent'
    BY <2>1 DEF IInv, Typed, CallsAreCurrent, Ids
  <2>8. EachDepositIsItsPayment'
    <3>1. \A d \in deposits : d.tx # row.tx
      BY <2>1, <2>5 DEF Credited
    <3>2. Ids' = Ids
      BY <2>1 DEF Ids
    <3>3. ASSUME NEW d \in deposits'
          PROVE  /\ chain[d.tx].status = "mined"
                 /\ chain[d.tx].toTreasury
                 /\ d.from = chain[d.tx].from
                 /\ d.amount = chain[d.tx].value
                 /\ d.operator \in Ids /\ operators[d.operator].owner = d.from
      BY <2>1, <2>2, <2>5 DEF IInv, EachDepositIsItsPayment, Pays
    <3>4. \A d, e \in deposits' : d.tx = e.tx => d = e
      BY <2>1, <3>1 DEF IInv, EachDepositIsItsPayment
    <3> QED
      BY <2>1, <3>2, <3>3, <3>4 DEF EachDepositIsItsPayment
  <2> QED
    BY <2>6, <2>7, <2>8 DEF IInv
<1>11. ASSUME NEW p \in Prices, Restart(p) PROVE IInv'
  <2>1. Typed' /\ Grows /\ \A j \in Calls : calls'[j] \in {calls[j], Idle}
    BY <1>11 DEF Restart, IInv, Typed, Grows
  <2> QED
    BY <1>11, <2>1, GrowsKeeps DEF Restart
<1>12. CASE UNCHANGED <<operators, deposits, chain, calls>>
  <2>1. Typed' /\ Grows
    BY <1>12 DEF IInv, Typed, Grows
  <2> QED
    BY <1>12, <2>1, GrowsKeeps
<1>13. ASSUME NEW n \in CustomNames, NEW w \in Wallets \cup {Null}, CreateOperator(n, w)
       PROVE  IInv'
  BY <1>3, <1>13 DEF CreateOperator
<1>14. ASSUME NEW w \in Wallets, NEW n \in CustomNames \cup {DefaultName(w)},
              CreateForWallet(w, n)
       PROVE  IInv'
  <2>1. DefaultName(w) \in Wallets \X Nat
    BY DefaultNameType DEF IInv
  <2> QED
    BY <1>3, <1>14, <2>1 DEF CreateForWallet
<1>15. ASSUME NEW o \in Ids, Play(o) PROVE IInv'
  BY <1>12, <1>15 DEF Play
<1>16. ASSUME NEW k \in Calls, TopupRpcFails(k) \/ TopupRefused(k) \/ TopupDuplicate(k)
                                \/ TopupInsertFails(k)
       PROVE  IInv'
  BY <1>7, <1>16 DEF TopupRpcFails, TopupRefused, TopupDuplicate, TopupInsertFails
<1>17. CASE UNCHANGED vars
  BY <1>12, <1>17 DEF vars
<1> QED
  BY <1>1, <1>2, <1>4, <1>5, <1>8, <1>9, <1>10, <1>11, <1>13, <1>14, <1>15, <1>16, <1>17 DEF Next

\* It holds in every reachable state.
LEMMA SpecIInv == Spec => []IInv
BY InitIInv, NextIInv, PTL DEF Spec

-----------------------------------------------------------------------------
(* What the invariant leaves out of TypeOK *)

Counters ==
  /\ plays \in Seq([Prices -> Nat])
  /\ Len(plays) = Len(operators)
  /\ price \in Prices
  /\ told \in SUBSET TxHashes
  /\ restarts \in 0..MaxRestarts

\* Nothing is counted before the first request.
LEMMA InitCounters == Init => Counters
BY BoundsAssumption DEF Init, Counters

\* Counts stay numbers.
LEMMA NextCounters == IInv /\ Counters /\ [Next]_vars => Counters'
<1> SUFFICES ASSUME IInv, Counters, [Next]_vars PROVE Counters'
  OBVIOUS
<1>1. CASE UNCHANGED <<plays, price, told, restarts>> /\ Len(operators') = Len(operators)
  BY <1>1 DEF Counters
<1>2. ASSUME NEW name, NEW owner, InsertOperator(name, owner) PROVE Counters'
  <2>1. NoPlays \in [Prices -> Nat]
    BY DEF NoPlays
  <2>2. /\ plays' = Append(plays, NoPlays) /\ Len(operators') = Len(operators) + 1
        /\ UNCHANGED <<price, told, restarts>>
    BY <1>2 DEF InsertOperator, IInv, Typed
  <2> QED
    BY <2>1, <2>2 DEF Counters
<1>3. ASSUME NEW o \in Ids, Play(o) PROVE Counters'
  <2> DEFINE counts == [plays[o] EXCEPT ![price] = @ + 1]
  <2>1. plays[o] \in [Prices -> Nat] /\ o \in 1..Len(plays)
    BY DEF Counters, Ids
  <2>2. counts \in [Prices -> Nat]
    BY <2>1 DEF Counters
  <2>3. /\ plays' = [plays EXCEPT ![o] = counts]
        /\ UNCHANGED <<operators, price, told, restarts>>
    BY <1>3 DEF Play
  <2> HIDE DEF counts
  <2> QED
    BY <2>1, <2>2, <2>3 DEF Counters
<1>4. ASSUME NEW k \in Calls, TopupDuplicate(k) \/ TopupInsertFails(k) PROVE Counters'
  <2>1. calls[k] \in InFlight
    BY <1>4, CallKinds DEF TopupDuplicate, TopupInsertFails, Idle, IInv
  <2>2. calls[k].tx \in TxHashes
    BY <2>1 DEF InFlight
  <2> QED
    BY <1>4, <2>2 DEF TopupDuplicate, TopupInsertFails, tables, Counters
<1>5. ASSUME NEW p \in Prices, Restart(p) PROVE Counters'
  BY <1>5, BoundsAssumption DEF Restart, tables, Counters
<1>6. ASSUME NEW o \in Ids, NEW b \in BOOLEAN, SetActive(o, b) PROVE Counters'
  BY <1>1, <1>6 DEF SetActive, IInv, Typed
<1>7. ASSUME NEW t \in TxHashes, NEW w \in Wallets, NEW b \in BOOLEAN, NEW v \in Amounts,
             Send(t, w, b, v)
      PROVE  Counters'
  BY <1>1, <1>7 DEF Send, tables
<1>8. ASSUME NEW t \in TxHashes, NEW s \in {"mined", "failed"}, Mine(t, s) PROVE Counters'
  BY <1>1, <1>8 DEF Mine, tables
<1>9. ASSUME NEW k \in Calls, NEW o \in Ids, NEW t \in TxHashes, TopupStart(k, o, t)
      PROVE  Counters'
  BY <1>1, <1>9 DEF TopupStart, tables
<1>10. ASSUME NEW k \in Calls,
              TopupSeesTx(k) \/ TopupSeesReceipt(k) \/ TopupRpcFails(k) \/ TopupCredits(k)
                \/ TopupRefused(k)
       PROVE  Counters'
  BY <1>1, <1>10 DEF TopupSeesTx, TopupSeesReceipt, TopupRpcFails, TopupCredits,
                     TopupRefused, tables
<1>11. CASE UNCHANGED vars
  BY <1>1, <1>11 DEF vars
<1> QED
  BY <1>2, <1>3, <1>4, <1>5, <1>6, <1>7, <1>8, <1>9, <1>10, <1>11
     DEF Next, CreateOperator, CreateForWallet

-----------------------------------------------------------------------------
(* Theorems *)

\* Type correctness: no topup is ever in flight for a service without an owner, and
\* every row has the columns the queries read.
THEOREM TypeCorrect == Spec => []TypeOK
<1>1. Init => IInv /\ Counters
  BY InitIInv, InitCounters
<1>2. IInv /\ Counters /\ [Next]_vars => (IInv /\ Counters)'
  BY NextIInv, NextCounters
<1>3. IInv /\ Counters => TypeOK
  BY DEF IInv, Typed, Counters, TypeOK
<1> QED
  BY <1>1, <1>2, <1>3, PTL DEF Spec

\* Every deposit is one mined payment of its service's owner to the treasury, and
\* no payment is credited twice, however topup calls overlap, fail or are cut off
\* by a restart (BillingController.topup: the primary key and the row read before
\* the awaits are enough).
THEOREM DepositsAreGenuine == Spec => []EachDepositIsItsPayment
<1>1. IInv => EachDepositIsItsPayment
  BY DEF IInv
<1> QED
  BY <1>1, SpecIInv, PTL

-----------------------------------------------------------------------------
(* Sums of charges and deposits *)

\* What some plays, counted by price, were charged (playCharges).
Charged(counts) == SumFunction([p \in Prices |-> p * counts[p]])

\* What is charged is a sum over finitely many prices.
LEMMA ChargedIsSum ==
  ASSUME NEW counts \in [Prices -> Nat]
  PROVE  /\ Charged(counts) = SumFunctionOnSet([p \in Prices |-> p * counts[p]], Prices)
         /\ SumFunction(counts) = SumFunctionOnSet(counts, Prices)
         /\ IsFiniteSet(Prices)
         /\ \A p \in Prices : p \in Nat /\ counts[p] \in Nat /\ p * counts[p] \in Nat
BY MoneyAssumption DEF Charged, SumFunction

\* Charges are never negative, and services that did not play owe nothing.
LEMMA ChargedType ==
  /\ \A counts \in [Prices -> Nat] : Charged(counts) \in Nat /\ SumFunction(counts) \in Nat
  /\ NoPlays \in [Prices -> Nat] /\ Charged(NoPlays) = 0
<1>1. ASSUME NEW counts \in [Prices -> Nat]
      PROVE  Charged(counts) \in Nat /\ SumFunction(counts) \in Nat
  <2> DEFINE f == [p \in Prices |-> p * counts[p]]
  <2>1. /\ IsFiniteSet(Prices)
        /\ \A p \in Prices : f[p] \in Nat /\ counts[p] \in Nat
        /\ Charged(counts) = SumFunctionOnSet(f, Prices)
        /\ SumFunction(counts) = SumFunctionOnSet(counts, Prices)
    BY ChargedIsSum
  <2> HIDE DEF f
  <2> QED
    BY <2>1, SumOfPart
<1>2. NoPlays \in [Prices -> Nat]
  BY DEF NoPlays
<1>3. Charged(NoPlays) = 0
  <2> DEFINE f == [p \in Prices |-> p * NoPlays[p]]
  <2>1. IsFiniteSet(Prices) /\ Charged(NoPlays) = SumFunctionOnSet(f, Prices)
    BY <1>2, ChargedIsSum
  <2>2. \A p \in Prices : f[p] = 0
    BY MoneyAssumption DEF NoPlays
  <2> HIDE DEF f
  <2> QED
    BY <2>1, <2>2, SumZero
<1> QED
  BY <1>1, <1>2, <1>3

\* One more play costs its price.
LEMMA ChargedPlay ==
  ASSUME NEW counts \in [Prices -> Nat], NEW q \in Prices,
         NEW more \in [Prices -> Nat], more = [counts EXCEPT ![q] = counts[q] + 1]
  PROVE  /\ Charged(more) = Charged(counts) + q
         /\ SumFunction(more) = SumFunction(counts) + 1
<1> DEFINE f == [p \in Prices |-> p * counts[p]]
           h == [p \in Prices |-> p * more[p]]
<1>1. /\ IsFiniteSet(Prices)
      /\ Charged(counts) = SumFunctionOnSet(f, Prices)
      /\ Charged(more) = SumFunctionOnSet(h, Prices)
      /\ SumFunction(counts) = SumFunctionOnSet(counts, Prices)
      /\ SumFunction(more) = SumFunctionOnSet(more, Prices)
  BY ChargedIsSum
<1>2. \A p \in Prices : f[p] \in Int /\ h[p] \in Int /\ counts[p] \in Int /\ more[p] \in Int
  <2>1. \A p \in Prices : counts[p] \in Nat /\ p * counts[p] \in Nat
    BY ChargedIsSum
  <2>2. \A p \in Prices : more[p] \in Nat /\ p * more[p] \in Nat
    BY ChargedIsSum
  <2> QED
    BY <2>1, <2>2
<1>3. \A p \in Prices \ {q} : f[p] = h[p] /\ counts[p] = more[p]
  OBVIOUS
<1>4. h[q] - f[q] = q /\ more[q] - counts[q] = 1
  <2> DEFINE c == counts[q]
  <2>1. f[q] = q * c /\ h[q] = q * (c + 1) /\ more[q] = c + 1 /\ c \in Nat /\ q \in Nat
    BY MoneyAssumption
  <2> HIDE DEF c, f, h
  <2>2. q * (c + 1) = q * c + q /\ q * c \in Nat
    BY <2>1
  <2> QED
    BY <2>1, <2>2 DEF c
<1> HIDE DEF f, h
<1>5. SumFunctionOnSet(h, Prices) = SumFunctionOnSet(f, Prices) + (h[q] - f[q])
  BY <1>1, <1>2, <1>3, SumChange
<1>6. SumFunctionOnSet(more, Prices) = SumFunctionOnSet(counts, Prices) + (more[q] - counts[q])
  <2>1. ASSUME NEW a, NEW b, \A y \in Prices : a[y] \in Int /\ b[y] \in Int,
               \A y \in Prices \ {q} : a[y] = b[y]
        PROVE  SumFunctionOnSet(b, Prices) = SumFunctionOnSet(a, Prices) + (b[q] - a[q])
    BY <1>1, <2>1, SumChange
  <2> QED
    BY <1>2, <1>3, <2>1
<1> QED
  BY <1>1, <1>4, <1>5, <1>6

\* What some deposits credit a service (operatorFunds).
DepositedBy(rows, o) == SumFunction([d \in {e \in rows : e.operator = o} |-> d.amount])

\* A deposit adds its amount to its service and nothing to any other.
LEMMA DepositedAdd ==
  ASSUME NEW rows \in SUBSET DepositRow, IsFiniteSet(rows),
         NEW d \in DepositRow, d \notin rows, NEW o
  PROVE  /\ DepositedBy(rows, o) \in Nat
         /\ DepositedBy(rows \cup {d}, o)
              = DepositedBy(rows, o) + (IF d.operator = o THEN d.amount ELSE 0)
<1> DEFINE Of(rs) == {e \in rs : e.operator = o}
           f == [e \in rows \cup {d} |-> e.amount]
           S == Of(rows)
<1>1. \A e \in rows \cup {d} : f[e] = e.amount /\ f[e] \in Nat
  BY MoneyAssumption DEF DepositRow
<1>2. ASSUME NEW rs \in SUBSET (rows \cup {d}), IsFiniteSet(Of(rs))
      PROVE  DepositedBy(rs, o) = SumFunctionOnSet(f, Of(rs))
  <2> DEFINE h == [e \in Of(rs) |-> e.amount]
             part == Of(rs)
  <2>1. DepositedBy(rs, o) = SumFunctionOnSet(h, part)
    BY DEF DepositedBy, SumFunction
  <2>2. \A e \in part : h[e] \in Int /\ h[e] = f[e]
    <3>1. \A e \in part : e \in rows \cup {d} /\ h[e] = e.amount
      OBVIOUS
    <3> HIDE DEF f, h, part
    <3> QED
      BY <1>1, <3>1
  <2> HIDE DEF h, f, part
  <2>3. SumFunctionOnSet(h, part) = SumFunctionOnSet(f, part)
    BY <1>2, <2>2, SumSame DEF part
  <2> QED
    BY <2>1, <2>3 DEF part
<1>3. IsFiniteSet(S) /\ S \in SUBSET rows
  BY FS_Subset
<1>4. DepositedBy(rows, o) = SumFunctionOnSet(f, S)
  BY <1>2, <1>3
<1> HIDE DEF f
<1>5. SumFunctionOnSet(f, S) \in Nat
  <2>1. \A e \in S : f[e] \in Nat
    BY <1>1
  <2> HIDE DEF S
  <2> QED
    BY <1>3, <2>1, SumOfPart
<1>6. ASSUME d.operator = o
      PROVE  DepositedBy(rows \cup {d}, o) = DepositedBy(rows, o) + d.amount
  <2>1. Of(rows \cup {d}) = S \cup {d} /\ d \notin S
    BY <1>6
  <2>2. IsFiniteSet(S \cup {d})
    BY <1>3, FS_AddElement
  <2>3. DepositedBy(rows \cup {d}, o) = SumFunctionOnSet(f, S \cup {d})
    BY <1>2, <2>1, <2>2
  <2>4. \A e \in S \cup {d} : f[e] \in Int
    BY <1>1
  <2> HIDE DEF S
  <2>5. SumFunctionOnSet(f, S \cup {d}) = f[d] + SumFunctionOnSet(f, S)
    BY <1>3, <2>1, <2>4, SumAdd
  <2>6. f[d] = d.amount /\ f[d] \in Nat
    BY <1>1
  <2> QED
    BY <1>4, <1>5, <2>3, <2>5, <2>6
<1>7. ASSUME d.operator # o
      PROVE  DepositedBy(rows \cup {d}, o) = DepositedBy(rows, o) + 0
  <2>1. Of(rows \cup {d}) = S
    BY <1>7
  <2>2. DepositedBy(rows \cup {d}, o) = SumFunctionOnSet(f, S)
    BY <1>2, <1>3, <2>1
  <2> QED
    BY <1>4, <1>5, <2>2
<1> QED
  BY <1>4, <1>5, <1>6, <1>7

-----------------------------------------------------------------------------
(* Prepaid services *)

\* The transactions anybody has sent.
Sent == {t \in TxHashes : chain[t] # Unsent}

\* Deposits and payments are finitely many, so that they have a sum, and a service
\* with an owner has deposited what it is charged.
MoneyInv ==
  /\ IsFiniteSet(deposits) /\ IsFiniteSet(Sent)
  /\ \A o \in Ids : operators[o].owner # Null =>
       DepositedBy(deposits, o) >= Charged(plays[o])

\* The balance is deposits less charges.
LEMMA BalanceIs ==
  ASSUME NEW o
  PROVE  /\ Spent(o) = Charged(plays[o]) /\ PlaysOf(o) = SumFunction(plays[o])
         /\ Deposited(o) = DepositedBy(deposits, o)
         /\ Balance(o) = DepositedBy(deposits, o) - Charged(plays[o])
BY DEF Spent, Charged, Deposited, DepositsOf, DepositedBy, Balance, PlaysOf

\* Deposits and charges of a service are numbers.
LEMMA FundsType ==
  ASSUME IInv, Counters, MoneyInv, NEW o \in Ids
  PROVE  DepositedBy(deposits, o) \in Nat /\ Charged(plays[o]) \in Nat
<1>1. plays[o] \in [Prices -> Nat]
  BY DEF Counters, Ids
<1>2. Charged(plays[o]) \in Nat
  BY <1>1, ChargedType
<1> DEFINE S == {e \in deposits : e.operator = o}
           f == [e \in S |-> e.amount]
<1>3. IsFiniteSet(S)
  BY FS_Subset DEF MoneyInv
<1>4. \A e \in S : f[e] \in Nat
  BY MoneyAssumption DEF IInv, Typed, DepositRow
<1>5. DepositedBy(deposits, o) = SumFunctionOnSet(f, S)
  BY DEF DepositedBy, SumFunction
<1> HIDE DEF f, S
<1>6. SumFunctionOnSet(f, S) \in Nat
  BY <1>3, <1>4, SumOfPart
<1> QED
  BY <1>2, <1>5, <1>6

\* A new service, of whose id no deposit speaks yet, has a balance of 0.
LEMMA NewServiceOwesNothing ==
  ASSUME IInv
  PROVE  DepositedBy(deposits, Len(operators) + 1) = 0
<1> DEFINE new == Len(operators) + 1
           S == {e \in deposits : e.operator = new}
           f == [e \in S |-> e.amount]
<1>1. new \notin Ids
  BY DEF Ids, IInv, Typed
<1>2. S = {}
  BY <1>1 DEF IInv, EachDepositIsItsPayment
<1>3. DepositedBy(deposits, new) = SumFunctionOnSet(f, S)
  BY DEF DepositedBy, SumFunction
<1> HIDE DEF f, S
<1>4. SumFunctionOnSet(f, {}) = 0
  BY FS_EmptySet, SumZero
<1> QED
  BY <1>2, <1>3, <1>4

\* What a step leaves alone as far as the money of services goes.
LEMMA MoneyUntouched ==
  ASSUME MoneyInv, plays' = plays, deposits' = deposits, Len(operators') = Len(operators),
         \A o \in Ids : operators'[o].owner = operators[o].owner,
         IsFiniteSet(Sent')
  PROVE  MoneyInv'
BY DEF MoneyInv, Ids, DepositedBy, Charged

\* No step of any handler takes more than was paid.
LEMMA NextMoney == IInv /\ Counters /\ MoneyInv /\ [Next]_vars => MoneyInv'
<1> SUFFICES ASSUME IInv, Counters, MoneyInv, [Next]_vars PROVE MoneyInv'
  OBVIOUS
<1> USE DEF tables
<1>0. /\ operators \in Seq(OperatorRow) /\ chain \in [TxHashes -> ChainTx \cup {Unsent}]
      /\ plays \in Seq([Prices -> Nat]) /\ Len(plays) = Len(operators) /\ price \in Prices
  BY DEF IInv, Typed, Counters
<1>1. ASSUME chain' = chain, plays' = plays, deposits' = deposits, operators' = operators
      PROVE  MoneyInv'
  BY <1>1, MoneyUntouched DEF Sent, MoneyInv
<1>2. ASSUME NEW t \in TxHashes, chain' = [chain EXCEPT ![t] = chain'[t]],
             plays' = plays, deposits' = deposits, operators' = operators
      PROVE  MoneyInv'
  <2>1. Sent' \in SUBSET (Sent \cup {t})
    BY <1>0, <1>2 DEF Sent
  <2>2. IsFiniteSet(Sent \cup {t})
    BY FS_AddElement DEF MoneyInv
  <2>3. IsFiniteSet(Sent')
    BY <2>1, <2>2, FS_Subset
  <2> QED
    BY <1>2, <2>3, MoneyUntouched
<1>3. ASSUME NEW name, NEW owner, InsertOperator(name, owner) PROVE MoneyInv'
  <2> DEFINE row == [name |-> name, owner |-> owner, active |-> TRUE]
             n == Len(operators)
  <2>1. /\ operators' = Append(operators, row) /\ plays' = Append(plays, NoPlays)
        /\ deposits' = deposits /\ chain' = chain
    BY <1>3 DEF InsertOperator
  <2>2. /\ Len(operators') = n + 1 /\ n \in Nat
        /\ \A o \in 1..n : operators'[o] = operators[o] /\ plays'[o] = plays[o]
        /\ plays'[n + 1] = NoPlays
    BY <1>0, <2>1, ChargedType
  <2>3. \A o \in 1..(n + 1) : o \in 1..n \/ o = n + 1
    BY <2>2
  <2>4. ASSUME NEW o \in 1..(n + 1), operators'[o].owner # Null
        PROVE  DepositedBy(deposits, o) >= Charged(plays'[o])
    <3>1. CASE o \in 1..n
      BY <2>2, <2>4, <3>1 DEF MoneyInv, Ids
    <3>2. CASE o = n + 1
      <4>1. DepositedBy(deposits, n + 1) = 0 /\ Charged(NoPlays) = 0
        BY NewServiceOwesNothing, ChargedType
      <4> QED
        BY <2>2, <3>2, <4>1
    <3> QED
      BY <2>3, <3>1, <3>2
  <2>5. IsFiniteSet(deposits') /\ IsFiniteSet(Sent')
    BY <2>1 DEF MoneyInv, Sent
  <2>6. Ids' = 1..(n + 1)
    BY <2>2 DEF Ids
  <2> HIDE DEF n
  <2> QED
    BY <2>1, <2>4, <2>5, <2>6 DEF MoneyInv, DepositedBy, Charged
<1>4. ASSUME NEW o \in Ids, NEW b \in BOOLEAN, SetActive(o, b) PROVE MoneyInv'
  <2>1. /\ operators' = [operators EXCEPT ![o].active = b]
        /\ UNCHANGED <<deposits, plays, chain>>
    BY <1>4 DEF SetActive
  <2>2. Len(operators') = Len(operators)
    BY <1>0, <2>1
  <2>3. \A p \in Ids : operators'[p].owner = operators[p].owner
    BY <1>0, <2>1 DEF Ids, OperatorRow
  <2> QED
    BY <2>1, <2>2, <2>3, MoneyUntouched DEF MoneyInv, Sent
<1>5. ASSUME NEW o \in Ids, Play(o) PROVE MoneyInv'
  <2> DEFINE counts == plays[o]
             more == [counts EXCEPT ![price] = counts[price] + 1]
  <2>1. /\ plays' = [plays EXCEPT ![o] = more]
        /\ operators[o].owner # Null /\ price > 0 => Balance(o) >= price
        /\ UNCHANGED <<operators, deposits, chain>>
    BY <1>5 DEF Play
  <2>2. counts \in [Prices -> Nat] /\ o \in 1..Len(plays) /\ price \in Nat
    BY <1>0, MoneyAssumption DEF Ids
  <2>3. more \in [Prices -> Nat]
    BY <1>0, <2>2
  <2>4. Charged(more) = Charged(counts) + price
    BY <1>0, <2>2, <2>3, ChargedPlay
  <2>5. DepositedBy(deposits, o) \in Nat /\ Charged(counts) \in Nat
    BY FundsType
  <2>6. Balance(o) = DepositedBy(deposits, o) - Charged(counts)
    BY BalanceIs
  <2>7. plays'[o] = more /\ \A p \in Ids : p # o => plays'[p] = plays[p]
    <3> HIDE DEF more
    <3> QED
      BY <1>0, <2>1, <2>2 DEF Ids
  <2> HIDE DEF more, counts
  <2>8. operators[o].owner # Null => DepositedBy(deposits, o) >= Charged(more)
    <3>1. operators[o].owner # Null => DepositedBy(deposits, o) >= Charged(counts)
      BY DEF MoneyInv, counts
    <3> QED
      BY <2>1, <2>2, <2>4, <2>5, <2>6, <3>1
  <2>9. ASSUME NEW p \in Ids, operators[p].owner # Null
        PROVE  DepositedBy(deposits, p) >= Charged(plays'[p])
    BY <2>7, <2>8, <2>9 DEF MoneyInv
  <2> QED
    BY <2>1, <2>9 DEF MoneyInv, Ids, Sent, DepositedBy, Charged
<1>6. ASSUME NEW k \in Calls, TopupCredits(k) PROVE MoneyInv'
  <2> DEFINE d == DepositOf(calls[k])
  <2>1. deposits' = deposits \cup {d} /\ UNCHANGED <<operators, plays, chain>>
    BY <1>6 DEF TopupCredits
  <2>2. d \in DepositRow /\ d \notin deposits
    <3>1. calls[k] \in InFlight /\ calls[k].tx \in TxHashes /\ calls[k].stage = "mined"
      BY <1>6, CallKinds DEF TopupCredits, Idle, IInv, InFlight
    <3>2. chain[calls[k].tx].status = "mined"
      BY <1>6, <3>1 DEF IInv, CallsAreCurrent, Idle
    <3>3. chain[calls[k].tx] \in ChainTx
      BY <1>0, <3>1, <3>2 DEF Unsent
    <3>4. d \in DepositRow
      BY <3>1, <3>3 DEF DepositOf, DepositRow, InFlight, ChainTx
    <3>5. d.tx = calls[k].tx /\ calls[k].tx \notin Credited
      BY <1>6 DEF TopupCredits, DepositOf
    <3> QED
      BY <3>4, <3>5 DEF Credited
  <2> HIDE DEF d
  <2>3. IsFiniteSet(deposits) /\ deposits \in SUBSET DepositRow
    BY DEF MoneyInv, IInv, Typed
  <2>4. IsFiniteSet(deposits')
    BY <2>1, <2>3, FS_AddElement
  <2>5. d.amount \in Nat
    BY <2>2, MoneyAssumption DEF DepositRow
  <2>6. ASSUME NEW o \in Ids, operators[o].owner # Null
        PROVE  DepositedBy(deposits', o) >= Charged(plays[o])
    <3>1. /\ DepositedBy(deposits, o) \in Nat
          /\ DepositedBy(deposits', o)
               = DepositedBy(deposits, o) + (IF d.operator = o THEN d.amount ELSE 0)
      BY <2>1, <2>2, <2>3, DepositedAdd
    <3>2. Charged(plays[o]) \in Nat
      BY FundsType
    <3>3. DepositedBy(deposits, o) >= Charged(plays[o])
      BY <2>6 DEF MoneyInv
    <3> QED
      BY <2>5, <3>1, <3>2, <3>3
  <2> QED
    BY <2>1, <2>4, <2>6 DEF MoneyInv, Ids, Sent, DepositedBy, Charged
<1>7. ASSUME NEW t \in TxHashes, NEW w \in Wallets, NEW b \in BOOLEAN, NEW v \in Amounts,
             Send(t, w, b, v)
      PROVE  MoneyInv'
  BY <1>0, <1>2, <1>7 DEF Send
<1>8. ASSUME NEW t \in TxHashes, NEW s \in {"mined", "failed"}, Mine(t, s) PROVE MoneyInv'
  BY <1>0, <1>2, <1>8 DEF Mine
<1>9. ASSUME NEW k \in Calls,
             TopupSeesTx(k) \/ TopupSeesReceipt(k) \/ TopupRpcFails(k) \/ TopupRefused(k)
               \/ TopupDuplicate(k) \/ TopupInsertFails(k)
      PROVE  MoneyInv'
  BY <1>1, <1>9 DEF TopupSeesTx, TopupSeesReceipt, TopupRpcFails, TopupRefused,
                    TopupDuplicate, TopupInsertFails
<1>10. ASSUME NEW k \in Calls, NEW o \in Ids, NEW t \in TxHashes, TopupStart(k, o, t)
       PROVE  MoneyInv'
  BY <1>1, <1>10 DEF TopupStart
<1>11. ASSUME NEW p \in Prices, Restart(p) PROVE MoneyInv'
  BY <1>1, <1>11 DEF Restart
<1>12. CASE UNCHANGED vars
  BY <1>1, <1>12 DEF vars
<1> QED
  BY <1>3, <1>4, <1>5, <1>6, <1>7, <1>8, <1>9, <1>10, <1>11, <1>12
     DEF Next, CreateOperator, CreateForWallet

-----------------------------------------------------------------------------
(* What the services of a wallet were credited, together, is what it paid *)

\* The transactions that some deposits of a wallet credit.
Txs(rows, w) == {t \in TxHashes : \E d \in rows : d.from = w /\ d.tx = t}

\* Those, and the payments of the wallet, are among the transactions sent.
LEMMA PaymentsFinite ==
  ASSUME IInv, MoneyInv, NEW w \in Wallets
  PROVE  /\ IsFiniteSet(Owned(w)) /\ IsFiniteSet(Payments(w))
         /\ Txs(deposits, w) \in SUBSET Payments(w)
         /\ \A t \in Payments(w) : chain[t].value \in Nat
<1>1. IsFiniteSet(Owned(w))
  <2>1. IsFiniteSet(1..Len(operators))
    BY FS_Interval DEF IInv, Typed
  <2>2. Owned(w) \in SUBSET (1..Len(operators))
    BY DEF Owned, Ids
  <2> QED
    BY <2>1, <2>2, FS_Subset
<1>2. Payments(w) \in SUBSET Sent
  BY DEF Payments, Sent, Unsent
<1>3. IsFiniteSet(Payments(w))
  BY <1>2, FS_Subset DEF MoneyInv
<1>4. Txs(deposits, w) \in SUBSET Payments(w)
  BY DEF Txs, Payments, IInv, EachDepositIsItsPayment
<1>5. ASSUME NEW t \in Payments(w) PROVE chain[t].value \in Nat
  <2>1. chain[t] \in ChainTx \cup {Unsent} /\ chain[t].status = "mined"
    BY DEF Payments, IInv, Typed
  <2>2. chain[t] \in ChainTx
    BY <2>1 DEF Unsent
  <2> QED
    BY <2>2, MoneyAssumption DEF ChainTx
<1> QED
  BY <1>1, <1>3, <1>4, <1>5

\* Deposits of a wallet's services and payments of the wallet match one to one, so
\* their sums do.
LEMMA CreditsArePayments ==
  ASSUME IInv, MoneyInv, NEW w \in Wallets
  PROVE  SumFunctionOnSet([o \in Owned(w) |-> DepositedBy(deposits, o)], Owned(w))
           = SumFunctionOnSet([t \in TxHashes |-> chain[t].value], Txs(deposits, w))
<1> DEFINE S == Owned(w)
           credit(rows) == [o \in S |-> DepositedBy(rows, o)]
           value == [t \in TxHashes |-> chain[t].value]
           L(rows) == SumFunctionOnSet(credit(rows), S)
           R(rows) == SumFunctionOnSet(value, Txs(rows, w))
           Bad == {rows \in SUBSET deposits : L(rows) # R(rows)}
<1>1. SUFFICES ASSUME Bad # {} PROVE FALSE
  <2>1. Bad = {} => L(deposits) = R(deposits)
    OBVIOUS
  <2> QED
    BY <2>1
<1>2. /\ IsFiniteSet(S) /\ IsFiniteSet(Payments(w)) /\ IsFiniteSet(deposits)
      /\ Txs(deposits, w) \in SUBSET Payments(w)
      /\ \A t \in Payments(w) : t \in TxHashes /\ value[t] \in Nat /\ value[t] = chain[t].value
  BY PaymentsFinite DEF MoneyInv, Payments
<1>3. PICK rows \in Bad : \A d \in rows : rows \ {d} \notin Bad
  BY <1>1, <1>2, SmallestBad
<1>4. rows \in SUBSET deposits /\ L(rows) # R(rows)
  BY <1>3
<1>5. rows # {}
  <2> SUFFICES ASSUME rows = {} PROVE FALSE
    OBVIOUS
  <2>1. ASSUME NEW o \in S PROVE credit({})[o] = 0
    <3> DEFINE f == [d \in {e \in {} : e.operator = o} |-> d.amount]
    <3>1. DepositedBy({}, o) = SumFunctionOnSet(f, {})
      <4>1. {e \in {} : e.operator = o} = {}
        OBVIOUS
      <4> QED
        BY <4>1 DEF DepositedBy, SumFunction
    <3> HIDE DEF f
    <3>2. SumFunctionOnSet(f, {}) = 0
      BY FS_EmptySet, SumZero
    <3> QED
      BY <3>1, <3>2
  <2>2. L({}) = 0
    <3> DEFINE c == credit({})
    <3>1. \A o \in S : c[o] = 0
      BY <2>1
    <3> HIDE DEF c, S
    <3>2. SumFunctionOnSet(c, S) = 0
      BY <1>2, <3>1, SumZero
    <3> QED
      BY <3>2 DEF c
  <2>3. Txs({}, w) = {}
    BY DEF Txs
  <2>4. R({}) = 0
    <3> HIDE DEF value
    <3>1. SumFunctionOnSet(value, {}) = 0
      BY FS_EmptySet, SumZero
    <3> QED
      BY <2>3, <3>1
  <2> QED
    BY <1>4, <2>2, <2>4
<1>6. PICK d \in rows : TRUE
  BY <1>5
<1> DEFINE base == rows \ {d}
<1>7. base \in SUBSET deposits /\ L(base) = R(base)
  BY <1>3, <1>4
<1>8. /\ base \in SUBSET DepositRow /\ IsFiniteSet(base) /\ d \in DepositRow /\ d \notin base
      /\ base \cup {d} = rows
  BY <1>2, <1>4, <1>6, FS_Subset DEF IInv, Typed
<1>9. /\ d.operator \in Ids /\ operators[d.operator].owner = d.from
      /\ d.amount = chain[d.tx].value /\ d.tx \in TxHashes /\ d.amount \in Nat
      /\ \A e \in base : e.tx # d.tx
  BY <1>4, <1>6, <1>8, MoneyAssumption DEF IInv, EachDepositIsItsPayment, DepositRow
<1> DEFINE a == credit(base)
           b == credit(rows)
<1>10. \A o \in S : a[o] = DepositedBy(base, o) /\ b[o] = DepositedBy(rows, o)
  OBVIOUS
<1>11. ASSUME NEW o \in S
       PROVE  /\ a[o] \in Int /\ b[o] \in Int
              /\ d.operator = o => b[o] - a[o] = d.amount
              /\ d.operator # o => b[o] = a[o]
  <2> DEFINE more == IF d.operator = o THEN d.amount ELSE 0
             old == DepositedBy(base, o)
  <2>1. old \in Nat /\ DepositedBy(base \cup {d}, o) = old + more
    <3> HIDE DEF base
    <3> QED
      BY <1>8, DepositedAdd
  <2>2. more \in Nat /\ (d.operator = o => more = d.amount) /\ (d.operator # o => more = 0)
    BY <1>9
  <2>3. a[o] = old /\ b[o] = old + more
    BY <1>8, <1>10, <2>1
  <2> HIDE DEF a, b, old, more
  <2> QED
    BY <2>1, <2>2, <2>3
<1>12. Txs(rows, w) \in SUBSET Payments(w) /\ Txs(base, w) \in SUBSET Payments(w)
  BY <1>2, <1>4 DEF Txs
<1>13. IsFiniteSet(Txs(base, w)) /\ IsFiniteSet(Txs(rows, w))
  BY <1>2, <1>12, FS_Subset
<1>14. L(base) = SumFunctionOnSet(a, S) /\ L(rows) = SumFunctionOnSet(b, S)
  OBVIOUS
<1>15. ASSUME d.from = w PROVE FALSE
  <2>1. d.operator \in S
    BY <1>9, <1>15 DEF Owned
  <2>2. b[d.operator] - a[d.operator] = d.amount
    BY <1>11, <2>1
  <2>3. \A o \in S \ {d.operator} : a[o] = b[o]
    <3> HIDE DEF a, b, S
    <3> QED
      BY <1>11
  <2>4. Txs(rows, w) = Txs(base, w) \cup {d.tx} /\ d.tx \notin Txs(base, w)
    BY <1>6, <1>8, <1>9, <1>15 DEF Txs
  <2>5. d.tx \in Payments(w)
    BY <1>12, <2>4
  <2> HIDE DEF a, b, S, value
  <2>6. SumFunctionOnSet(b, S) = SumFunctionOnSet(a, S) + (b[d.operator] - a[d.operator])
    BY <1>2, <1>11, <2>1, <2>3, SumChange
  <2>7. \A t \in Txs(base, w) \cup {d.tx} : value[t] \in Int
    BY <1>2, <1>12, <2>5
  <2>8. SumFunctionOnSet(value, Txs(base, w) \cup {d.tx})
          = value[d.tx] + SumFunctionOnSet(value, Txs(base, w))
    BY <1>13, <2>4, <2>7, SumAdd
  <2>9. SumFunctionOnSet(value, Txs(base, w)) \in Int
    BY <1>13, <2>7, SumTakeOut
  <2>10. value[d.tx] = d.amount /\ d.amount \in Nat
    BY <1>2, <1>9, <2>5
  <2> QED
    BY <1>4, <1>7, <1>14, <2>2, <2>4, <2>6, <2>8, <2>9, <2>10
<1>16. ASSUME d.from # w PROVE FALSE
  <2>1. d.operator \notin S
    BY <1>9, <1>16 DEF Owned
  <2>2. \A o \in S : a[o] \in Int /\ a[o] = b[o]
    <3> HIDE DEF a, b, S
    <3> QED
      BY <1>11, <2>1
  <2>3. Txs(rows, w) = Txs(base, w)
    BY <1>8, <1>16 DEF Txs
  <2> HIDE DEF a, b, S, value
  <2>4. SumFunctionOnSet(a, S) = SumFunctionOnSet(b, S)
    BY <1>2, <2>2, SumSame
  <2> QED
    BY <1>4, <1>7, <1>14, <2>3, <2>4
<1> QED
  BY <1>15, <1>16

\* What the services of a wallet spent is no more than they were credited, and that no
\* more than the wallet paid.
LEMMA SpendingFollows == IInv /\ Counters /\ MoneyInv => SpendingIsPaidFor
<1> SUFFICES ASSUME IInv, Counters, MoneyInv, NEW w \in Wallets
             PROVE  SumFunction([o \in Owned(w) |-> BillingReport[o].amountDue])
                      <= SumFunction([t \in Payments(w) |-> chain[t].value])
  BY DEF SpendingIsPaidFor
<1> DEFINE S == Owned(w)
           P == Payments(w)
           T == Txs(deposits, w)
           due == [o \in S |-> BillingReport[o].amountDue]
           credit == [o \in S |-> DepositedBy(deposits, o)]
           value == [t \in TxHashes |-> chain[t].value]
           paid == [t \in P |-> chain[t].value]
<1>1. IsFiniteSet(S) /\ IsFiniteSet(P) /\ T \in SUBSET P /\ \A t \in P : chain[t].value \in Nat
  BY PaymentsFinite
<1>2. ASSUME NEW o \in S PROVE due[o] \in Int /\ credit[o] \in Int /\ due[o] <= credit[o]
  <2>1. o \in Ids /\ operators[o].owner # Null
    BY NullAssumption DEF Owned
  <2>2. due[o] = Charged(plays[o])
    BY <2>1, BalanceIs DEF BillingReport
  <2>3. DepositedBy(deposits, o) \in Nat /\ Charged(plays[o]) \in Nat
    BY <2>1, FundsType
  <2>4. DepositedBy(deposits, o) >= Charged(plays[o])
    BY <2>1 DEF MoneyInv
  <2> QED
    BY <2>2, <2>3, <2>4
<1>3. \A t \in P : t \in TxHashes /\ value[t] \in Nat /\ paid[t] = value[t]
  BY <1>1 DEF Payments
<1>4. SumFunctionOnSet(credit, S) = SumFunctionOnSet(value, T)
  BY CreditsArePayments
<1>5. SumFunction(due) = SumFunctionOnSet(due, S) /\ SumFunction(paid) = SumFunctionOnSet(paid, P)
  BY DEF SumFunction
<1> HIDE DEF due, credit, value, paid, S, P, T
<1>6. SumFunctionOnSet(due, S) <= SumFunctionOnSet(credit, S) /\ SumFunctionOnSet(due, S) \in Int
  BY <1>1, <1>2, SumMonotone, SumTakeOut
<1>7. SumFunctionOnSet(value, T) <= SumFunctionOnSet(value, P)
  BY <1>1, <1>3, SumOfPart
<1>8. SumFunctionOnSet(paid, P) = SumFunctionOnSet(value, P) /\ SumFunctionOnSet(value, P) \in Int
  BY <1>1, <1>3, SumSame, SumTakeOut
<1>9. SumFunctionOnSet(credit, S) \in Int
  BY <1>1, <1>2, SumTakeOut
<1> DEFINE x == SumFunctionOnSet(due, S)
           y == SumFunctionOnSet(credit, S)
           z == SumFunctionOnSet(value, P)
<1>10. x \in Int /\ y \in Int /\ z \in Int /\ x <= y /\ y <= z
  BY <1>4, <1>6, <1>7, <1>8, <1>9
<1>11. SumFunction(due) = x /\ SumFunction(paid) = z
  BY <1>5, <1>8
<1> HIDE DEF x, y, z
<1>12. x <= z
  BY <1>10
<1> QED
  BY <1>11, <1>12 DEF due, paid, S, P

-----------------------------------------------------------------------------
(* Charges *)

\* Only a play of a service changes what it spent, and by the price of that moment.
LEMMA NextCharges ==
  ASSUME IInv, Counters, [Next]_vars, NEW o \in Ids
  PROVE  Spent(o)' # Spent(o) =>
           PlaysOf(o)' = PlaysOf(o) + 1 /\ Spent(o)' = Spent(o) + price
<1> USE DEF tables
<1>0. /\ plays \in Seq([Prices -> Nat]) /\ Len(plays) = Len(operators) /\ price \in Prices
      /\ o \in 1..Len(plays)
  BY DEF Counters, Ids
<1>1. ASSUME plays'[o] = plays[o] PROVE Spent(o)' = Spent(o)
  BY <1>1 DEF Spent
<1>2. ASSUME NEW p \in Ids, Play(p)
      PROVE  Spent(o)' # Spent(o) =>
               PlaysOf(o)' = PlaysOf(o) + 1 /\ Spent(o)' = Spent(o) + price
  <2> DEFINE counts == plays[p]
             more == [counts EXCEPT ![price] = counts[price] + 1]
  <2>1. plays' = [plays EXCEPT ![p] = more]
    BY <1>2 DEF Play
  <2>2. counts \in [Prices -> Nat] /\ p \in 1..Len(plays)
    BY <1>0 DEF Ids
  <2>3. more \in [Prices -> Nat]
    BY <1>0, <2>2
  <2>4. Charged(more) = Charged(counts) + price /\ SumFunction(more) = SumFunction(counts) + 1
    BY <1>0, <2>2, <2>3, ChargedPlay
  <2>5. plays'[p] = more /\ (o # p => plays'[o] = plays[o])
    <3> HIDE DEF more
    <3> QED
      BY <1>0, <2>1, <2>2
  <2> HIDE DEF more
  <2>6. CASE o = p
    <3>1. Spent(o)' = Charged(more) /\ PlaysOf(o)' = SumFunction(more)
      BY <2>5, <2>6 DEF Spent, Charged, PlaysOf
    <3>2. Spent(o) = Charged(counts) /\ PlaysOf(o) = SumFunction(counts)
      BY <2>6, BalanceIs
    <3> QED
      BY <2>4, <3>1, <3>2
  <2>7. CASE o # p
    BY <1>1, <2>5, <2>7
  <2> QED
    BY <2>6, <2>7
<1>3. ASSUME NEW name, NEW owner, InsertOperator(name, owner) PROVE Spent(o)' = Spent(o)
  <2>1. plays' = Append(plays, NoPlays)
    BY <1>3 DEF InsertOperator
  <2>2. plays'[o] = plays[o]
    BY <1>0, <2>1, ChargedType
  <2> QED
    BY <1>1, <2>2
<1>4. ASSUME plays' = plays PROVE Spent(o)' = Spent(o)
  BY <1>1, <1>4
<1>5. ASSUME NEW k \in Calls,
             TopupSeesTx(k) \/ TopupSeesReceipt(k) \/ TopupRpcFails(k) \/ TopupCredits(k)
               \/ TopupRefused(k) \/ TopupDuplicate(k) \/ TopupInsertFails(k)
      PROVE  plays' = plays
  BY <1>5 DEF TopupSeesTx, TopupSeesReceipt, TopupRpcFails, TopupCredits, TopupRefused,
              TopupDuplicate, TopupInsertFails
<1>6. ASSUME \/ \E t \in TxHashes, w \in Wallets, b \in BOOLEAN, v \in Amounts : Send(t, w, b, v)
             \/ \E t \in TxHashes, s \in {"mined", "failed"} : Mine(t, s)
             \/ \E p \in Ids, b \in BOOLEAN : SetActive(p, b)
             \/ \E k \in Calls, p \in Ids, t \in TxHashes : TopupStart(k, p, t)
             \/ \E p \in Prices : Restart(p)
             \/ UNCHANGED vars
      PROVE  plays' = plays
  BY <1>6 DEF Send, Mine, SetActive, TopupStart, Restart, vars
<1> QED
  BY <1>2, <1>3, <1>4, <1>5, <1>6 DEF Next, CreateOperator, CreateForWallet

-----------------------------------------------------------------------------
(* Theorems about money *)

\* No money has moved before the first request.
LEMMA InitMoney == Init => MoneyInv
<1> SUFFICES ASSUME Init PROVE MoneyInv
  OBVIOUS
<1>1. Sent = {} /\ Ids = {}
  BY DEF Init, Sent, Ids
<1> QED
  BY <1>1, FS_EmptySet DEF Init, MoneyInv

\* The three invariants hold in every reachable state.
LEMMA SpecMoney == Spec => [](IInv /\ Counters /\ MoneyInv)
<1>1. Init => IInv /\ Counters /\ MoneyInv
  BY InitIInv, InitCounters, InitMoney
<1>2. IInv /\ Counters /\ MoneyInv /\ [Next]_vars => (IInv /\ Counters /\ MoneyInv)'
  BY NextIInv, NextCounters, NextMoney
<1> QED
  BY <1>1, <1>2, PTL DEF Spec

\* No prepaid service is ever in debt, for any prices and any number of changes of the
\* price (the 402 of POST /play).
THEOREM PrepaidStaysPaid == Spec => []PrepaidNeverOverdrawn
<1>1. IInv /\ Counters /\ MoneyInv => PrepaidNeverOverdrawn
  <2> SUFFICES ASSUME IInv, Counters, MoneyInv, NEW o \in Ids, operators[o].owner # Null
               PROVE  Balance(o) >= 0
    BY DEF PrepaidNeverOverdrawn
  <2>1. /\ DepositedBy(deposits, o) \in Nat /\ Charged(plays[o]) \in Nat
        /\ DepositedBy(deposits, o) >= Charged(plays[o])
    BY FundsType DEF MoneyInv
  <2> QED
    BY <2>1, BalanceIs
<1> QED
  BY <1>1, SpecMoney, PTL

\* What a wallet's services owe together is covered by what the wallet paid to the
\* treasury (operatorFunds, topup and the billing report).
THEOREM SpendingCovered == Spec => []SpendingIsPaidFor
BY SpendingFollows, SpecMoney, PTL

\* Plays keep the price of their receipt: what a service spent changes by the current
\* price with a play of its own, and with nothing else (playCharges).
THEOREM ChargesKept == Spec => ChargesNeverRepriced
<1> DEFINE Kept == \A o \in Ids : Spent(o)' # Spent(o) =>
                     PlaysOf(o)' = PlaysOf(o) + 1 /\ Spent(o)' = Spent(o) + price
<1>1. IInv /\ Counters /\ MoneyInv /\ [Next]_vars => [Kept]_vars
  BY NextCharges
<1>2. [](IInv /\ Counters /\ MoneyInv) /\ [][Next]_vars => [][Kept]_vars
  BY <1>1, PTL
<1> QED
  BY <1>2, SpecMoney, PTL DEF Spec, ChargesNeverRepriced
=============================================================================
