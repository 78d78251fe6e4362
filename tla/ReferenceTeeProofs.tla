-------------------------- MODULE ReferenceTeeProofs --------------------------
(***************************************************************************)
(* Proofs about ReferenceTee: numbering and closes, for any machines, keys *)
(* and restarts.                                                           *)
(***************************************************************************)
EXTENDS ReferenceTee, FiniteSetTheorems, TLAPS

-----------------------------------------------------------------------------
(* Lemmas about numbering *)

\* The receipts drawn from a seed.
Under(rs, s) == {r \in rs : r.seed = s}

BetsAndNonces(rs) ==
  /\ {r.bet : r \in rs} = 0..(Cardinality(rs) - 1)
  /\ \A c \in ClientSeeds :
       {r.nonce : r \in {x \in rs : x.client = c}}
         = 0..(Cardinality({x \in rs : x.client = c}) - 1)

\* The receipts a machine holds are all those under the seed, in bet order.
Holds(q, rs, s) ==
  /\ q \in Seq(Receipt)
  /\ \A i \in DOMAIN q : q[i].bet = i - 1
  /\ {q[i] : i \in DOMAIN q} = Under(rs, s)

\* Numbers 0, 1, 2, ... stay that way when the next one is added.
LEMMA NumbersGrow ==
  ASSUME NEW S, IsFiniteSet(S), NEW new, new \notin S,
         NEW numbers, numbers = 0..(Cardinality(S) - 1)
  PROVE  numbers \cup {Cardinality(S)} = 0..(Cardinality(S \cup {new}) - 1)
<1> DEFINE n == Cardinality(S)
           grown == Cardinality(S \cup {new})
<1>1. n \in Nat /\ grown = n + 1
  BY FS_CardinalityType, FS_AddElement
<1> HIDE DEF n, grown
<1>2. 0..(n - 1) \cup {n} = 0..(grown - 1)
  BY <1>1
<1> QED
  BY <1>2 DEF n, grown

\* The lengths the code reads are the counts of receipts under the seed.
LEMMA HeldCounts ==
  ASSUME NEW q, NEW rs, NEW s, Holds(q, rs, s)
  PROVE  /\ IsFiniteSet(Under(rs, s))
         /\ Len(q) = Cardinality(Under(rs, s))
         /\ \A c : NonceOf(q, c) = Cardinality({r \in Under(rs, s) : r.client = c})
<1> DEFINE n == Len(q)
           f == [i \in 1..n |-> q[i]]
<1>1. q \in Seq(Receipt) /\ n \in Nat /\ DOMAIN q = 1..n
  BY DEF Holds
<1>2. \A i, j \in 1..n : q[i] = q[j] => i = j
  BY <1>1 DEF Holds
<1>3. Under(rs, s) = {q[i] : i \in 1..n}
  BY <1>1 DEF Holds
<1> HIDE DEF n
<1>4. f \in Bijection(1..n, Under(rs, s))
  BY <1>2, <1>3 DEF Bijection, Injection, Surjection, IsInjective
<1>5. IsFiniteSet(1..n) /\ Cardinality(1..n) = n
  BY <1>1, FS_Interval
<1>6. ExistsBijection(1..n, Under(rs, s))
  BY <1>4 DEF ExistsBijection
<1>7. IsFiniteSet(Under(rs, s)) /\ Cardinality(Under(rs, s)) = n
  BY <1>5, <1>6, FS_Bijection
<1>8. ASSUME NEW c PROVE NonceOf(q, c) = Cardinality({r \in Under(rs, s) : r.client = c})
  <2> DEFINE places == {i \in 1..n : q[i].client = c}
             mine == {r \in Under(rs, s) : r.client = c}
             g == [i \in places |-> q[i]]
  <2>1. g \in Bijection(places, mine)
    BY <1>2, <1>3 DEF Bijection, Injection, Surjection, IsInjective
  <2>2. ExistsBijection(places, mine)
    BY <2>1 DEF ExistsBijection
  <2>3. IsFiniteSet(places)
    BY <1>5, FS_Subset
  <2>4. Cardinality(places) = Cardinality(mine)
    BY <2>2, <2>3, FS_Bijection
  <2>5. NonceOf(q, c) = Cardinality(places)
    BY <1>1 DEF NonceOf
  <2> QED
    BY <2>4, <2>5
<1> QED
  BY <1>7, <1>8 DEF n

\* Play signs the next bet and the next nonce, and keeps the receipt.
LEMMA NextReceipt ==
  ASSUME NEW q, NEW rs, NEW s, Holds(q, rs, s), BetsAndNonces(Under(rs, s)),
         NEW r \in Receipt, r.seed = s, r.bet = Len(q), r.nonce = NonceOf(q, r.client)
  PROVE  /\ Holds(Append(q, r), rs \cup {r}, s)
         /\ BetsAndNonces(Under(rs \cup {r}, s))
<1> DEFINE old == Under(rs, s)
           new == old \cup {r}
           n == Len(q)
           q2 == Append(q, r)
<1>1. /\ q \in Seq(Receipt) /\ n \in Nat /\ DOMAIN q = 1..n
      /\ \A i \in 1..n : q[i].bet = i - 1
      /\ {q[i] : i \in 1..n} = old
  BY DEF Holds
<1>2. IsFiniteSet(old) /\ n = Cardinality(old)
  BY HeldCounts
<1>3. Under(rs \cup {r}, s) = new
  BY DEF Under
<1>4. r \notin old
  <2>1. \A x \in old : x.bet \in 0..(n - 1)
    BY <1>2 DEF BetsAndNonces
  <2> HIDE DEF n, old
  <2>2. r.bet = n
    BY DEF n
  <2> QED
    BY <1>1, <2>1, <2>2
<1>5. Holds(q2, rs \cup {r}, s)
  <2>1. /\ q2 \in Seq(Receipt) /\ DOMAIN q2 = 1..(n + 1) /\ q2[n + 1] = r
        /\ \A i \in 1..n : q2[i] = q[i]
    BY <1>1
  <2>2. r.bet = n
    OBVIOUS
  <2> HIDE DEF q2, n, old
  <2>3. \A i \in 1..(n + 1) : q2[i].bet = i - 1
    BY <1>1, <2>1, <2>2
  <2>4. {q2[i] : i \in 1..(n + 1)} = old \cup {r}
    <3>1. 1..(n + 1) = 1..n \cup {n + 1}
      BY <1>1
    <3>2. {q2[i] : i \in 1..n} = {q[i] : i \in 1..n}
      BY <2>1
    <3> QED
      BY <1>1, <2>1, <3>1, <3>2
  <2> QED
    BY <1>3, <2>1, <2>3, <2>4 DEF Holds
<1>6. {x.bet : x \in new} = 0..(Cardinality(new) - 1)
  <2>1. {x.bet : x \in new} = {x.bet : x \in old} \cup {Cardinality(old)}
    BY <1>2
  <2>2. {x.bet : x \in old} = 0..(Cardinality(old) - 1)
    BY DEF BetsAndNonces
  <2> HIDE DEF old
  <2> QED
    BY <1>2, <1>4, <2>1, <2>2, NumbersGrow
<1>7. ASSUME NEW c \in ClientSeeds
      PROVE  {x.nonce : x \in {y \in new : y.client = c}}
               = 0..(Cardinality({y \in new : y.client = c}) - 1)
  <2> DEFINE mine == {y \in old : y.client = c}
  <2>1. IsFiniteSet(mine)
    BY <1>2, FS_Subset
  <2>2. {x.nonce : x \in mine} = 0..(Cardinality(mine) - 1)
    BY DEF BetsAndNonces
  <2>3. CASE r.client = c
    <3>1. {y \in new : y.client = c} = mine \cup {r}
      BY <2>3
    <3>2. r.nonce = Cardinality(mine) /\ r \notin mine
      BY <1>4, <2>3, HeldCounts
    <3>3. {x.nonce : x \in mine \cup {r}} = {x.nonce : x \in mine} \cup {Cardinality(mine)}
      BY <3>2
    <3> DEFINE numbers == {x.nonce : x \in mine}
               mine2 == {y \in new : y.client = c}
    <3>4. numbers \cup {Cardinality(mine)} = 0..(Cardinality(mine \cup {r}) - 1)
      <4> HIDE DEF mine
      <4> QED
        BY <2>1, <2>2, <3>2, NumbersGrow
    <3>5. {x.nonce : x \in mine2} = numbers \cup {Cardinality(mine)}
      BY <3>1, <3>3
    <3>6. mine2 = mine \cup {r}
      BY <3>1
    <3> HIDE DEF mine, mine2, numbers
    <3>7. {x.nonce : x \in mine2} = 0..(Cardinality(mine2) - 1)
      BY <3>4, <3>5, <3>6
    <3> QED
      BY <3>7 DEF mine2
  <2>4. CASE r.client # c
    <3>1. {y \in new : y.client = c} = mine
      BY <2>4
    <3> QED
      BY <2>2, <3>1
  <2> QED
    BY <2>3, <2>4
<1> QED
  BY <1>3, <1>5, <1>6, <1>7 DEF BetsAndNonces

-----------------------------------------------------------------------------
(* The inductive invariant *)

\* Receipts are under seeds that have been drawn, and numbered under each.
SignedInv(d, rs) ==
  /\ \A r \in rs : r.seed \in 1..d
  /\ \A s \in 1..d : BetsAndNonces(Under(rs, s))

\* An open epoch has a seed of its own, and all receipts under it.
OpenInv(t, d, rs) ==
  /\ \A m \in Machines : t[m].epoch # Null =>
       t[m].epoch.seed \in 1..d /\ Holds(t[m].epoch.receipts, rs, t[m].epoch.seed)
  /\ \A m, n \in Machines :
       t[m].epoch # Null /\ t[n].epoch # Null /\ t[m].epoch.seed = t[n].epoch.seed => m = n

\* A close has all receipts under its seed, and no machine draws from that any more.
ClosesInv(t, d, rs, ks) ==
  /\ \A k \in ks : k.seed \in 1..d /\ Holds(k.root, rs, k.seed)
  /\ \A k, l \in ks : k.seed = l.seed => k = l
  /\ \A k \in ks, m \in Machines : t[m].epoch # Null => t[m].epoch.seed # k.seed

TInv ==
  /\ TeeTypeOK
  /\ SignedInv(drawn, signed)
  /\ OpenInv(tee, drawn, signed)
  /\ ClosesInv(tee, drawn, signed, closes)

TeeState == [next: Nat, epoch: EpochState \cup {Null}]

\* What each command does to the machine it reaches; the other machines stay.
LEMMA OpenEffect ==
  ASSUME TInv, NEW m \in Machines, OpenEpoch(m)
  PROVE  /\ tee' \in [Machines -> TeeState]
         /\ \A n \in Machines : n # m => tee'[n] = tee[n]
         /\ tee'[m].epoch.id = tee[m].next /\ tee'[m].epoch.seed = drawn + 1
         /\ tee'[m].epoch.receipts = <<>>
         /\ tee'[m].next = tee[m].next + 1
         /\ tee'[m].epoch # Null
         /\ drawn' = drawn + 1 /\ drawn \in Nat /\ drawn' \in 0..MaxSeeds
<1> DEFINE opened == [id |-> tee[m].next, seed |-> drawn + 1, receipts |-> <<>>]
<1>1. tee \in [Machines -> TeeState] /\ drawn \in Nat /\ drawn' = drawn + 1
  BY DEF TInv, TeeTypeOK, TeeState, OpenEpoch
<1>2. opened \in EpochState
  BY <1>1 DEF EpochState, TeeState
<1> HIDE DEF opened
<1>3. tee' = [tee EXCEPT ![m] = [next |-> tee[m].next + 1, epoch |-> opened]]
  BY DEF OpenEpoch, opened
<1>4. [next |-> tee[m].next + 1, epoch |-> opened] \in TeeState
  BY <1>1, <1>2 DEF TeeState
<1>5. tee'[m] = [next |-> tee[m].next + 1, epoch |-> opened]
  BY <1>1, <1>3
<1>6. tee' \in [Machines -> TeeState] /\ \A n \in Machines : n # m => tee'[n] = tee[n]
  BY <1>1, <1>3, <1>4
<1>7. opened # Null
  BY <1>2, TeeNullAssumption
<1>8. drawn' \in 0..MaxSeeds
  BY TeeBoundsAssumption DEF TInv, TeeTypeOK, OpenEpoch
<1>9. tee'[m].epoch = opened /\ tee'[m].next = tee[m].next + 1
  BY <1>5
<1>10. opened.id = tee[m].next /\ opened.seed = drawn + 1 /\ opened.receipts = <<>>
  BY DEF opened
<1> QED
  BY <1>1, <1>6, <1>7, <1>8, <1>9, <1>10

\* PLAY adds one receipt to the open epoch of its machine.
LEMMA PlayEffect ==
  ASSUME TInv, NEW m \in Machines, NEW c \in ClientSeeds, Play(m, c)
  PROVE  /\ tee' \in [Machines -> TeeState]
         /\ \A n \in Machines : n # m => tee'[n] = tee[n]
         /\ tee[m].epoch \in EpochState
         /\ tee'[m].epoch.id = tee[m].epoch.id /\ tee'[m].epoch.seed = tee[m].epoch.seed
         /\ tee'[m].epoch.receipts = Append(tee[m].epoch.receipts, ReceiptOf(m, c))
         /\ tee'[m].next = tee[m].next
         /\ tee'[m].epoch # Null
         /\ ReceiptOf(m, c) \in Receipt
<1> DEFINE e == tee[m].epoch
           r == ReceiptOf(m, c)
           played == [id |-> e.id, seed |-> e.seed, receipts |-> Append(e.receipts, r)]
<1>1. tee \in [Machines -> TeeState] /\ e \in EpochState
  BY DEF TInv, TeeTypeOK, TeeState, Play
<1>2. NonceOf(e.receipts, c) \in Nat
  <2>1. IsFiniteSet(DOMAIN e.receipts)
    <3>1. DOMAIN e.receipts = 1..Len(e.receipts) /\ Len(e.receipts) \in Nat
      BY <1>1 DEF EpochState
    <3> QED
      BY <3>1, FS_Interval
  <2> QED
    BY <2>1, FS_Subset, FS_CardinalityType DEF NonceOf
<1>3. r \in Receipt
  BY <1>1, <1>2 DEF ReceiptOf, Receipt, EpochState, Keys
<1> HIDE DEF r
<1>4. played \in EpochState
  BY <1>1, <1>3 DEF EpochState
<1>5. tee' = [tee EXCEPT ![m] = [tee[m] EXCEPT !.epoch =
                   [e EXCEPT !.receipts = Append(e.receipts, r)]]]
  BY <1>1 DEF Play, r
<1>6. [e EXCEPT !.receipts = Append(e.receipts, r)] = played
  BY <1>1, SMTT(30) DEF EpochState
<1> HIDE DEF played
<1>7. [tee[m] EXCEPT !.epoch = played] = [next |-> tee[m].next, epoch |-> played]
  BY <1>1 DEF TeeState
<1>8. tee' = [tee EXCEPT ![m] = [next |-> tee[m].next, epoch |-> played]]
  BY <1>5, <1>6, <1>7
<1>9. [next |-> tee[m].next, epoch |-> played] \in TeeState
  BY <1>1, <1>4 DEF TeeState
<1>10. tee'[m] = [next |-> tee[m].next, epoch |-> played]
  BY <1>1, <1>8
<1>11. tee' \in [Machines -> TeeState] /\ \A n \in Machines : n # m => tee'[n] = tee[n]
  BY <1>1, <1>8, <1>9
<1>12. played # Null
  BY <1>4, TeeNullAssumption
<1>13. tee'[m].epoch = played /\ tee'[m].next = tee[m].next
  BY <1>10
<1>14. played.id = e.id /\ played.seed = e.seed /\ played.receipts = Append(e.receipts, r)
  BY DEF played
<1> QED
  BY <1>1, <1>3, <1>11, <1>12, <1>13, <1>14 DEF r

\* CLOSE_EPOCH leaves the machine without an epoch.
LEMMA CloseEffect ==
  ASSUME TInv, NEW m \in Machines, CloseEpoch(m)
  PROVE  /\ tee' \in [Machines -> TeeState]
         /\ \A n \in Machines : n # m => tee'[n] = tee[n]
         /\ tee[m].epoch \in EpochState
         /\ tee'[m].epoch = Null /\ tee'[m].next = tee[m].next
         /\ CloseOf(m) \in CloseRecord
<1>1. tee \in [Machines -> TeeState] /\ tee[m].epoch \in EpochState
  BY DEF TInv, TeeTypeOK, TeeState, CloseEpoch
<1>2. [tee[m] EXCEPT !.epoch = Null] = [next |-> tee[m].next, epoch |-> Null]
  BY <1>1 DEF TeeState
<1>3. tee' = [tee EXCEPT ![m] = [next |-> tee[m].next, epoch |-> Null]]
  BY <1>2 DEF CloseEpoch
<1>4. [next |-> tee[m].next, epoch |-> Null] \in TeeState
  BY <1>1 DEF TeeState
<1>5. CloseOf(m) \in CloseRecord
  BY <1>1 DEF CloseOf, CloseRecord, EpochState, Keys
<1> QED
  BY <1>1, <1>3, <1>4, <1>5

\* A restart forgets the epoch and the numbering.
LEMMA RestartEffect ==
  ASSUME TInv, NEW m \in Machines, Restart(m)
  PROVE  /\ tee' \in [Machines -> TeeState]
         /\ \A n \in Machines : n # m => tee'[n] = tee[n]
         /\ tee'[m].epoch = Null /\ tee'[m].next = 1
         /\ restarted' \in [Machines -> Nat]
<1>1. tee \in [Machines -> TeeState] /\ restarted \in [Machines -> Nat]
  BY DEF TInv, TeeTypeOK, TeeState
<1>2. tee' = [tee EXCEPT ![m] = [next |-> 1, epoch |-> Null]]
  BY DEF Restart, Fresh
<1>3. [next |-> 1, epoch |-> Null] \in TeeState
  BY DEF TeeState
<1>4. restarted' \in [Machines -> Nat]
  BY <1>1 DEF Restart
<1> QED
  BY <1>1, <1>2, <1>3, <1>4

-----------------------------------------------------------------------------
(* Every command keeps the invariant *)

\* OPEN_EPOCH keeps the invariant.
LEMMA OpenKeeps ==
  ASSUME TInv, NEW m \in Machines, OpenEpoch(m)
  PROVE  TInv'
<1> DEFINE s == drawn + 1
<1>1. /\ tee' \in [Machines -> TeeState]
      /\ \A n \in Machines : n # m => tee'[n] = tee[n]
      /\ tee'[m].epoch.seed = s /\ tee'[m].epoch.receipts = <<>>
      /\ drawn' = s /\ drawn \in Nat /\ drawn' \in 0..MaxSeeds
  BY OpenEffect
<1>2. UNCHANGED <<signed, closes, restarted>>
  BY DEF OpenEpoch
<1>3. 1..drawn' = 1..drawn \cup {s} /\ s \notin 1..drawn
  BY <1>1
<1> HIDE DEF s
<1>4. Under(signed, s) = {}
  BY <1>3 DEF TInv, SignedInv, Under
<1>5. TeeTypeOK'
  BY <1>1, <1>2 DEF TInv, TeeTypeOK, TeeState
<1>6. SignedInv(drawn', signed')
  <2>1. BetsAndNonces({})
    <3>1. Cardinality({}) = 0 /\ 0..(0 - 1) = {}
      BY FS_EmptySet
    <3>2. \A c : {x \in {} : x.client = c} = {}
      OBVIOUS
    <3> QED
      BY <3>1, <3>2 DEF BetsAndNonces
  <2> QED
    BY <1>2, <1>3, <1>4, <2>1 DEF TInv, SignedInv
<1>7. OpenInv(tee', drawn', signed')
  <2>1. Holds(<<>>, signed, s)
    BY <1>4 DEF Holds
  <2>2. ASSUME NEW n \in Machines, tee'[n].epoch # Null
        PROVE  tee'[n].epoch.seed \in 1..drawn' /\ Holds(tee'[n].epoch.receipts, signed, tee'[n].epoch.seed)
    <3>1. CASE n = m
      BY <1>1, <1>3, <2>1, <3>1
    <3>2. CASE n # m
      BY <1>1, <1>3, <2>2, <3>2 DEF TInv, OpenInv
    <3> QED
      BY <3>1, <3>2
  <2>3. \A n \in Machines : n # m /\ tee'[n].epoch # Null => tee'[n].epoch.seed # s
    BY <1>1, <1>3 DEF TInv, OpenInv
  <2> QED
    BY <1>1, <1>2, <2>2, <2>3 DEF TInv, OpenInv
<1>8. ClosesInv(tee', drawn', signed', closes')
  <2>1. \A k \in closes : k.seed \in 1..drawn' /\ Holds(k.root, signed, k.seed) /\ k.seed # s
    BY <1>3 DEF TInv, ClosesInv
  <2>2. ASSUME NEW k \in closes, NEW n \in Machines, tee'[n].epoch # Null
        PROVE  tee'[n].epoch.seed # k.seed
    BY <1>1, <2>1, <2>2 DEF TInv, ClosesInv
  <2> QED
    BY <1>2, <2>1, <2>2 DEF TInv, ClosesInv
<1> QED
  BY <1>5, <1>6, <1>7, <1>8 DEF TInv

\* A receipt under one seed changes nothing under the others.
LEMMA HoldsElsewhere ==
  ASSUME NEW rs, NEW r, NEW s, r.seed # s
  PROVE  /\ Under(rs \cup {r}, s) = Under(rs, s)
         /\ \A q : Holds(q, rs, s) => Holds(q, rs \cup {r}, s)
<1>1. Under(rs \cup {r}, s) = Under(rs, s)
  BY DEF Under
<1> QED
  BY <1>1 DEF Holds

\* So does PLAY.
LEMMA PlayKeeps ==
  ASSUME TInv, NEW m \in Machines, NEW c \in ClientSeeds, Play(m, c)
  PROVE  TInv'
<1> DEFINE e == tee[m].epoch
           r == ReceiptOf(m, c)
           s == e.seed
<1>1. /\ tee' \in [Machines -> TeeState]
      /\ \A n \in Machines : n # m => tee'[n] = tee[n]
      /\ tee'[m].epoch.seed = s /\ tee'[m].epoch.receipts = Append(e.receipts, r)
      /\ r \in Receipt
  BY PlayEffect
<1>2. /\ signed' = signed \cup {r}
      /\ UNCHANGED <<drawn, closes, restarted>>
      /\ e # Null
  BY DEF Play
<1>3. s \in 1..drawn /\ Holds(e.receipts, signed, s) /\ BetsAndNonces(Under(signed, s))
  BY <1>2 DEF TInv, OpenInv, SignedInv
<1>4. r.seed = s /\ r.bet = Len(e.receipts) /\ r.nonce = NonceOf(e.receipts, r.client)
  BY DEF ReceiptOf
<1> HIDE DEF r
<1>5. Holds(Append(e.receipts, r), signed', s) /\ BetsAndNonces(Under(signed', s))
  BY <1>1, <1>2, <1>3, <1>4, NextReceipt
<1>6. \A d : d # s => /\ Under(signed', d) = Under(signed, d)
                      /\ \A q : Holds(q, signed, d) => Holds(q, signed', d)
  BY <1>2, <1>4, HoldsElsewhere
<1>7. TeeTypeOK'
  BY <1>1, <1>2 DEF TInv, TeeTypeOK, TeeState
<1>8. SignedInv(drawn', signed')
  BY <1>2, <1>3, <1>4, <1>5, <1>6 DEF TInv, SignedInv
<1>9. OpenInv(tee', drawn', signed')
  <2>1. ASSUME NEW n \in Machines, tee'[n].epoch # Null
        PROVE  /\ tee'[n].epoch.seed \in 1..drawn'
               /\ Holds(tee'[n].epoch.receipts, signed', tee'[n].epoch.seed)
    <3>1. CASE n = m
      BY <1>1, <1>2, <1>3, <1>5, <3>1
    <3>2. CASE n # m
      BY <1>1, <1>2, <1>6, <2>1, <3>2 DEF TInv, OpenInv
    <3> QED
      BY <3>1, <3>2
  <2>2. ASSUME NEW n \in Machines, NEW o \in Machines, tee'[n].epoch # Null,
               tee'[o].epoch # Null, tee'[n].epoch.seed = tee'[o].epoch.seed
        PROVE  n = o
    BY <1>1, <1>2, <2>2 DEF TInv, OpenInv
  <2> QED
    BY <2>1, <2>2 DEF OpenInv
<1>10. ClosesInv(tee', drawn', signed', closes')
  <2>1. \A k \in closes : k.seed # s
    BY <1>2 DEF TInv, ClosesInv
  <2>2. ASSUME NEW k \in closes, NEW n \in Machines, tee'[n].epoch # Null
        PROVE  tee'[n].epoch.seed # k.seed
    BY <1>1, <2>1, <2>2 DEF TInv, ClosesInv
  <2> QED
    BY <1>2, <1>6, <2>1, <2>2 DEF TInv, ClosesInv
<1> QED
  BY <1>7, <1>8, <1>9, <1>10 DEF TInv

\* So does CLOSE_EPOCH.
LEMMA CloseKeeps ==
  ASSUME TInv, NEW m \in Machines, CloseEpoch(m)
  PROVE  TInv'
<1> DEFINE e == tee[m].epoch
           k == CloseOf(m)
<1>1. /\ tee' \in [Machines -> TeeState]
      /\ \A n \in Machines : n # m => tee'[n] = tee[n]
      /\ tee'[m].epoch = Null
      /\ k \in CloseRecord
  BY CloseEffect
<1>2. /\ closes' = closes \cup {k}
      /\ UNCHANGED <<drawn, signed, restarted>>
      /\ e # Null
  BY DEF CloseEpoch
<1>3. k.seed = e.seed /\ k.root = e.receipts
  BY DEF CloseOf
<1> HIDE DEF k
<1>4. k.seed \in 1..drawn /\ Holds(k.root, signed, k.seed)
  BY <1>2, <1>3 DEF TInv, OpenInv
<1>5. TeeTypeOK'
  BY <1>1, <1>2 DEF TInv, TeeTypeOK, TeeState
<1>6. OpenInv(tee', drawn', signed')
  BY <1>1, <1>2 DEF TInv, OpenInv
<1>7. ClosesInv(tee', drawn', signed', closes')
  <2>1. \A l \in closes : l.seed # k.seed
    BY <1>2, <1>3 DEF TInv, ClosesInv
  <2>2. \A n \in Machines : tee'[n].epoch # Null => tee'[n].epoch.seed # k.seed
    BY <1>1, <1>2, <1>3 DEF TInv, OpenInv
  <2>3. \A l \in closes' : l.seed \in 1..drawn /\ Holds(l.root, signed, l.seed)
    BY <1>2, <1>4 DEF TInv, ClosesInv
  <2>4. \A l, o \in closes' : l.seed = o.seed => l = o
    BY <1>2, <2>1 DEF TInv, ClosesInv
  <2>5. \A l \in closes', n \in Machines : tee'[n].epoch # Null => tee'[n].epoch.seed # l.seed
    BY <1>1, <1>2, <2>2 DEF TInv, ClosesInv
  <2> QED
    BY <1>2, <2>3, <2>4, <2>5 DEF ClosesInv
<1> QED
  BY <1>2, <1>5, <1>6, <1>7 DEF TInv

\* So does a restart.
LEMMA RestartKeeps ==
  ASSUME TInv, NEW m \in Machines, Restart(m)
  PROVE  TInv'
<1>1. /\ tee' \in [Machines -> TeeState]
      /\ \A n \in Machines : n # m => tee'[n] = tee[n]
      /\ tee'[m].epoch = Null
      /\ restarted' \in [Machines -> Nat]
  BY RestartEffect
<1>2. UNCHANGED <<drawn, signed, closes>>
  BY DEF Restart
<1>3. TeeTypeOK'
  BY <1>1, <1>2 DEF TInv, TeeTypeOK, TeeState
<1>4. OpenInv(tee', drawn', signed') /\ ClosesInv(tee', drawn', signed', closes')
  BY <1>1, <1>2 DEF TInv, OpenInv, ClosesInv
<1> QED
  BY <1>2, <1>3, <1>4 DEF TInv

\* The invariant holds in every reachable state.
LEMMA SpecTInv == TeeSpec => []TInv
<1>1. TeeInit => TInv
  <2> SUFFICES ASSUME TeeInit PROVE TInv
    OBVIOUS
  <2>1. tee = [m \in Machines |-> [next |-> 1, epoch |-> Null]]
    BY DEF TeeInit, Fresh
  <2>2. TeeTypeOK
    BY <2>1, TeeBoundsAssumption DEF TeeInit, TeeTypeOK
  <2>3. 1..drawn = {}
    BY DEF TeeInit
  <2>4. SignedInv(drawn, signed) /\ OpenInv(tee, drawn, signed)
          /\ ClosesInv(tee, drawn, signed, closes)
    BY <2>1, <2>3 DEF TeeInit, SignedInv, OpenInv, ClosesInv
  <2> QED
    BY <2>2, <2>4 DEF TInv
<1>2. TInv /\ [TeeNext]_teeVars => TInv'
  <2> SUFFICES ASSUME TInv, [TeeNext]_teeVars PROVE TInv'
    OBVIOUS
  <2>1. CASE UNCHANGED teeVars
    BY <2>1 DEF teeVars, TInv, TeeTypeOK
  <2> QED
    BY <2>1, OpenKeeps, PlayKeeps, CloseKeeps, RestartKeeps DEF TeeNext
<1> QED
  BY <1>1, <1>2, PTL DEF TeeSpec

-----------------------------------------------------------------------------
(* Theorems *)

\* Type correctness: among others every signed receipt and close is well-formed.
THEOREM TeeTypeCorrect == TeeSpec => []TeeTypeOK
<1>1. TInv => TeeTypeOK
  BY DEF TInv
<1> QED
  BY <1>1, SpecTInv, PTL

\* Under one seed the bets, and the nonces of each client seed, are 0, 1, 2, ...,
\* whatever other machines sign and however often machines restart (Play).
THEOREM SeedsNumbered == TeeSpec => []SequentialUnderSeed
<1>1. TInv => SequentialUnderSeed
  BY DEF TInv, SignedInv, BetsAndNonces, Under, SequentialUnderSeed
<1> QED
  BY <1>1, SpecTInv, PTL

\* A close commits to all receipts ever signed under its seed, and nothing is drawn
\* from that seed later, although machines forget their epoch when they restart
\* (CloseEpoch).
THEOREM ClosesComplete == TeeSpec => []CloseCoversReceipts
<1>1. TInv => CloseCoversReceipts
  BY DEF TInv, ClosesInv, Holds, Under, CloseCoversReceipts
<1> QED
  BY <1>1, SpecTInv, PTL

-----------------------------------------------------------------------------
(* Refinement: the ledger of a machine that does not restart *)

BetRow == [bet: Nat, client: ClientSeeds, nonce: Nat]

Entry == [phase: {"sealed", "accepting"}, bets: SUBSET BetRow, revealed: BOOLEAN]

\* Page id of the ledger of machine m.
PageOf(t, ks, m, id) ==
  IF t[m].epoch # Null /\ t[m].epoch.id = id
  THEN [phase |-> "accepting", bets |-> BetsOf(t[m].epoch.receipts), revealed |-> FALSE]
  ELSE LET k == CHOOSE k \in ks : k.epoch = id /\ k.signer = KeyOf[m]
       IN  [phase |-> "sealed", bets |-> BetsOf(k.root), revealed |-> TRUE]

BookOf(t, ks, m) == [id \in 1..(t[m].next - 1) |-> PageOf(t, ks, m, id)]

\* Machine m has numbered its epochs 1, 2, 3, ..., and closed each but the one that is
\* open exactly once.
NumbersEpochs(t, ks, m) ==
  /\ t[m].next > 0
  /\ t[m].epoch # Null => t[m].epoch.id = t[m].next - 1 /\ t[m].epoch.id > 0
  /\ \A k \in ks : k.signer = KeyOf[m] =>
       /\ k.epoch \in 1..(t[m].next - 1)
       /\ t[m].epoch # Null => k.epoch # t[m].epoch.id
  /\ \A k, l \in ks :
       k.signer = KeyOf[m] /\ l.signer = KeyOf[m] /\ k.epoch = l.epoch => k = l
  /\ \A id \in 1..(t[m].next - 1) : (t[m].epoch # Null => id # t[m].epoch.id) =>
       \E k \in ks : k.signer = KeyOf[m] /\ k.epoch = id

\* A closed epoch's page is what its one close says.
LEMMA SealedPage ==
  ASSUME NEW t, NEW ks, NEW m, NumbersEpochs(t, ks, m),
         NEW k \in ks, k.signer = KeyOf[m]
  PROVE  PageOf(t, ks, m, k.epoch)
           = [phase |-> "sealed", bets |-> BetsOf(k.root), revealed |-> TRUE]
<1> DEFINE chosen == CHOOSE l \in ks : l.epoch = k.epoch /\ l.signer = KeyOf[m]
<1>1. chosen \in ks /\ chosen.epoch = k.epoch /\ chosen.signer = KeyOf[m]
  OBVIOUS
<1>2. chosen = k
  BY <1>1 DEF NumbersEpochs
<1>3. ~(t[m].epoch # Null /\ t[m].epoch.id = k.epoch)
  BY DEF NumbersEpochs
<1> QED
  BY <1>2, <1>3 DEF PageOf

\* The bets of a sequence of receipts.
LEMMA BetsType ==
  ASSUME NEW q \in Seq(Receipt)
  PROVE  BetsOf(q) \in SUBSET BetRow
<1>1. ASSUME NEW i \in DOMAIN q
      PROVE  [bet |-> q[i].bet, client |-> q[i].client, nonce |-> q[i].nonce] \in BetRow
  <2>1. q[i] \in Receipt
    OBVIOUS
  <2> QED
    BY <2>1 DEF Receipt, BetRow
<1> QED
  BY <1>1 DEF BetsOf

\* The ledger of a machine has an entry per epoch it opened.
LEMMA BookType ==
  ASSUME NEW t \in [Machines -> TeeState], NEW ks \in SUBSET CloseRecord, NEW m \in Machines,
         NumbersEpochs(t, ks, m)
  PROVE  /\ BookOf(t, ks, m) \in Seq(Entry)
         /\ Len(BookOf(t, ks, m)) = t[m].next - 1
         /\ t[m].next - 1 \in Nat
<1> DEFINE n == t[m].next - 1
           book == BookOf(t, ks, m)
<1>1. n \in Nat
  BY DEF TeeState, NumbersEpochs
<1>2. ASSUME NEW id \in 1..n PROVE PageOf(t, ks, m, id) \in Entry
  <2>1. CASE t[m].epoch # Null /\ t[m].epoch.id = id
    <3>1. t[m].epoch.receipts \in Seq(Receipt)
      BY <2>1 DEF TeeState, EpochState
    <3>2. BetsOf(t[m].epoch.receipts) \in SUBSET BetRow
      BY <3>1, BetsType
    <3> QED
      BY <2>1, <3>2 DEF PageOf, Entry
  <2>2. CASE ~(t[m].epoch # Null /\ t[m].epoch.id = id)
    <3>1. PICK k \in ks : k.signer = KeyOf[m] /\ k.epoch = id
      BY <2>2 DEF NumbersEpochs
    <3>2. k.root \in Seq(Receipt)
      BY DEF CloseRecord
    <3>3. BetsOf(k.root) \in SUBSET BetRow
      BY <3>2, BetsType
    <3>4. PageOf(t, ks, m, id) = [phase |-> "sealed", bets |-> BetsOf(k.root), revealed |-> TRUE]
      BY <3>1, SealedPage
    <3> QED
      BY <3>3, <3>4 DEF Entry
  <2> QED
    BY <2>1, <2>2
<1>3. book \in [1..n -> Entry]
  BY <1>2 DEF BookOf
<1> HIDE DEF book, n
<1>4. book \in Seq(Entry) /\ Len(book) = n
  BY <1>1, <1>3
<1> QED
  BY <1>1, <1>4 DEF book, n

\* The ledger takes bets exactly while the machine has an epoch open.
LEMMA AcceptingIsOpen ==
  ASSUME NEW t \in [Machines -> TeeState], NEW ks \in SUBSET CloseRecord, NEW m \in Machines,
         NumbersEpochs(t, ks, m)
  PROVE  Ledger!Accepting(BookOf(t, ks, m)) <=> t[m].epoch # Null
<1> DEFINE n == t[m].next - 1
           book == BookOf(t, ks, m)
<1>1. book \in Seq(Entry) /\ Len(book) = n /\ n \in Nat
  BY BookType
<1>2. n > 0 => book[n] = PageOf(t, ks, m, n)
  BY <1>1 DEF BookOf
<1>3. CASE t[m].epoch # Null
  <2>1. n > 0 /\ t[m].epoch.id = n
    BY <1>3 DEF NumbersEpochs
  <2>2. PageOf(t, ks, m, n).phase = "accepting"
    BY <1>3, <2>1 DEF PageOf
  <2> HIDE DEF book, n
  <2>3. Ledger!Accepting(book)
    BY <1>1, <1>2, <2>1, <2>2 DEF Ledger!Accepting
  <2> QED
    BY <1>3, <2>3 DEF book
<1>4. CASE t[m].epoch = Null
  <2>1. ASSUME n > 0 PROVE PageOf(t, ks, m, n).phase = "sealed"
    BY <1>4 DEF PageOf
  <2> HIDE DEF book, n
  <2>2. ~Ledger!Accepting(book)
    <3>1. CASE n = 0
      BY <1>1, <3>1 DEF Ledger!Accepting
    <3>2. CASE n > 0
      BY <1>1, <1>2, <2>1, <3>2 DEF Ledger!Accepting
    <3> QED
      BY <1>1, <3>1, <3>2
  <2> QED
    BY <1>4, <2>2 DEF book
<1> QED
  BY <1>3, <1>4

\* What other machines do is not in the ledger.
LEMMA OthersUnseen ==
  ASSUME NEW t1, NEW t2, NEW ks1, NEW ks2, NEW m,
         NumbersEpochs(t1, ks1, m), t2[m] = t1[m], ks1 \subseteq ks2,
         \A k \in ks2 \ ks1 : k.signer # KeyOf[m]
  PROVE  NumbersEpochs(t2, ks2, m) /\ BookOf(t2, ks2, m) = BookOf(t1, ks1, m)
<1>1. NumbersEpochs(t2, ks2, m)
  <2>1. \A k \in ks2 : k.signer = KeyOf[m] => k \in ks1
    OBVIOUS
  <2> QED
    BY <2>1 DEF NumbersEpochs
<1>2. ASSUME NEW id \in 1..(t1[m].next - 1) PROVE PageOf(t2, ks2, m, id) = PageOf(t1, ks1, m, id)
  <2>1. CASE t1[m].epoch # Null /\ t1[m].epoch.id = id
    BY <2>1 DEF PageOf
  <2>2. CASE ~(t1[m].epoch # Null /\ t1[m].epoch.id = id)
    <3>1. PICK k \in ks1 : k.signer = KeyOf[m] /\ k.epoch = id
      BY <2>2 DEF NumbersEpochs
    <3>2. k \in ks2
      OBVIOUS
    <3> DEFINE page == [phase |-> "sealed", bets |-> BetsOf(k.root), revealed |-> TRUE]
    <3>3. PageOf(t1, ks1, m, k.epoch) = page
      BY <3>1, SealedPage
    <3>4. PageOf(t2, ks2, m, k.epoch) = page
      BY <1>1, <3>1, <3>2, SealedPage
    <3> QED
      BY <3>1, <3>3, <3>4
  <2> QED
    BY <2>1, <2>2
<1>3. BookOf(t2, ks2, m) = BookOf(t1, ks1, m)
  BY <1>2 DEF BookOf
<1> QED
  BY <1>1, <1>3

\* OpenEpoch commits to the next epoch.
LEMMA OpenCommits ==
  ASSUME TInv, NEW m \in Machines, NumbersEpochs(tee, closes, m), OpenEpoch(m)
  PROVE  /\ NumbersEpochs(tee', closes', m)
         /\ BookOf(tee', closes', m) \in Ledger!Commitments(BookOf(tee, closes, m))
<1> DEFINE n == tee[m].next - 1
           old == BookOf(tee, closes, m)
           new == BookOf(tee', closes', m)
<1>1. /\ tee' \in [Machines -> TeeState] /\ tee \in [Machines -> TeeState]
      /\ tee'[m].epoch.id = tee[m].next /\ tee'[m].epoch.receipts = <<>>
      /\ tee'[m].next = tee[m].next + 1 /\ tee'[m].epoch # Null
  BY OpenEffect DEF TInv, TeeTypeOK, TeeState
<1>2. tee[m].epoch = Null /\ closes' = closes
  BY DEF OpenEpoch
<1>3. closes \in SUBSET CloseRecord
  BY DEF TInv, TeeTypeOK
<1>4. old \in Seq(Entry) /\ Len(old) = n /\ n \in Nat
  BY <1>1, <1>3, BookType
<1>5. tee[m].next = n + 1 /\ tee'[m].next - 1 = n + 1 /\ 1..(n + 1) = 1..n \cup {n + 1}
  BY <1>1, <1>4 DEF TeeState
<1>6. NumbersEpochs(tee', closes', m)
  <2>1. \A k \in closes : k.signer = KeyOf[m] => k.epoch \in 1..n
    BY DEF NumbersEpochs
  <2>2. \A k, l \in closes :
          k.signer = KeyOf[m] /\ l.signer = KeyOf[m] /\ k.epoch = l.epoch => k = l
    BY DEF NumbersEpochs
  <2>3. \A id \in 1..n : \E k \in closes : k.signer = KeyOf[m] /\ k.epoch = id
    BY <1>2 DEF NumbersEpochs
  <2> HIDE DEF n
  <2>4. tee'[m].next > 0 /\ tee'[m].epoch.id = n + 1 /\ tee'[m].epoch.id > 0
    BY <1>1, <1>4, <1>5
  <2> QED
    BY <1>1, <1>2, <1>4, <1>5, <2>1, <2>2, <2>3, <2>4 DEF NumbersEpochs
<1>7. ~Ledger!Accepting(old)
  BY <1>1, <1>2, <1>3, AcceptingIsOpen
<1>8. new \in Seq(Entry) /\ Len(new) = n + 1
  <2>1. new \in Seq(Entry) /\ Len(new) = tee'[m].next - 1
    BY <1>1, <1>2, <1>3, <1>6, BookType
  <2> QED
    BY <1>5, <2>1
<1>9. ASSUME NEW id \in 1..n PROVE new[id] = old[id]
  <2>1. tee'[m].epoch.id # id
    BY <1>1, <1>4, <1>5
  <2>2. PageOf(tee', closes', m, id) = PageOf(tee, closes, m, id)
    BY <1>2, <2>1 DEF PageOf
  <2>3. id \in 1..(tee'[m].next - 1)
    BY <1>5
  <2> QED
    BY <2>2, <2>3 DEF BookOf
<1>10. new[n + 1] = Ledger!Committed
  <2>1. BetsOf(<<>>) = {}
    BY DEF BetsOf
  <2>2. PageOf(tee', closes', m, n + 1) = [phase |-> "accepting", bets |-> {}, revealed |-> FALSE]
    BY <1>1, <1>5, <2>1 DEF PageOf
  <2>3. n + 1 \in 1..(tee'[m].next - 1)
    BY <1>5
  <2> QED
    BY <2>2, <2>3 DEF BookOf, Ledger!Committed
<1> HIDE DEF old, new, n
<1>11. new = Append(old, Ledger!Committed)
  BY <1>4, <1>8, <1>9, <1>10
<1> QED
  BY <1>6, <1>7, <1>11 DEF Ledger!Commitments, old, new

\* The ledger counts as the machine does.
LEMMA SameCount == \A S : Ledger!Cardinality(S) = Cardinality(S)
BY DEF Ledger!Cardinality, Ledger!IsFiniteSet, Cardinality, IsFiniteSet

\* As many bets in the ledger as receipts in memory, in all and per client seed.
LEMMA BetsAreReceipts ==
  ASSUME NEW q, NEW rs, NEW s, Holds(q, rs, s)
  PROVE  /\ Cardinality(BetsOf(q)) = Len(q)
         /\ \A c : Cardinality({b \in BetsOf(q) : b.client = c}) = NonceOf(q, c)
<1> DEFINE n == Len(q)
           Bet(i) == [bet |-> q[i].bet, client |-> q[i].client, nonce |-> q[i].nonce]
           f == [i \in 1..n |-> Bet(i)]
<1>1. q \in Seq(Receipt) /\ n \in Nat /\ DOMAIN q = 1..n /\ \A i \in 1..n : q[i].bet = i - 1
  BY DEF Holds
<1>2. \A i, j \in 1..n : Bet(i) = Bet(j) => i = j
  BY <1>1
<1>3. BetsOf(q) = {Bet(i) : i \in 1..n}
  BY <1>1 DEF BetsOf
<1>4. \A i : Bet(i).client = q[i].client
  OBVIOUS
<1> HIDE DEF n, Bet
<1>5. f \in Bijection(1..n, BetsOf(q))
  BY <1>2, <1>3 DEF Bijection, Injection, Surjection, IsInjective
<1>6. IsFiniteSet(1..n) /\ Cardinality(1..n) = n
  BY <1>1, FS_Interval
<1>7. ExistsBijection(1..n, BetsOf(q))
  BY <1>5 DEF ExistsBijection
<1>8. Cardinality(BetsOf(q)) = n
  BY <1>6, <1>7, FS_Bijection
<1>9. ASSUME NEW c PROVE Cardinality({b \in BetsOf(q) : b.client = c}) = NonceOf(q, c)
  <2> DEFINE places == {i \in 1..n : q[i].client = c}
             mine == {b \in BetsOf(q) : b.client = c}
             g == [i \in places |-> Bet(i)]
  <2>1. g \in Bijection(places, mine)
    BY <1>2, <1>3, <1>4 DEF Bijection, Injection, Surjection, IsInjective
  <2>2. ExistsBijection(places, mine)
    BY <2>1 DEF ExistsBijection
  <2>3. IsFiniteSet(places)
    BY <1>6, FS_Subset
  <2>4. Cardinality(places) = Cardinality(mine)
    BY <2>2, <2>3, FS_Bijection
  <2>5. NonceOf(q, c) = Cardinality(places)
    BY <1>1 DEF NonceOf
  <2> QED
    BY <2>4, <2>5
<1> QED
  BY <1>8, <1>9 DEF n

\* What a machine remembers of a bet it has just signed is the next bet of the ledger.
LEMMA BetsGrow ==
  ASSUME NEW q \in Seq(Receipt), NEW r \in Receipt
  PROVE  BetsOf(Append(q, r))
           = BetsOf(q) \cup {[bet |-> r.bet, client |-> r.client, nonce |-> r.nonce]}
<1> DEFINE n == Len(q)
           q2 == Append(q, r)
           Bet(x) == [bet |-> x.bet, client |-> x.client, nonce |-> x.nonce]
<1>1. /\ n \in Nat /\ DOMAIN q = 1..n /\ DOMAIN q2 = 1..(n + 1) /\ q2[n + 1] = r
      /\ \A i \in 1..n : q2[i] = q[i]
  OBVIOUS
<1>2. BetsOf(q2) = {Bet(q2[i]) : i \in 1..(n + 1)} /\ BetsOf(q) = {Bet(q[i]) : i \in 1..n}
  BY <1>1 DEF BetsOf
<1> HIDE DEF n, q2, Bet
<1>3. 1..(n + 1) = 1..n \cup {n + 1}
  BY <1>1
<1>4. BetsOf(q2) = BetsOf(q) \cup {Bet(r)}
  BY <1>1, <1>2, <1>3
<1> QED
  BY <1>4 DEF q2, Bet

\* Play records the next bet, and nothing else.
LEMMA PlayRecords ==
  ASSUME TInv, NEW m \in Machines, NumbersEpochs(tee, closes, m),
         NEW c \in ClientSeeds, Play(m, c)
  PROVE  /\ NumbersEpochs(tee', closes', m)
         /\ BookOf(tee', closes', m) \in Ledger!Recordings(BookOf(tee, closes, m))
<1> DEFINE n == tee[m].next - 1
           q == tee[m].epoch.receipts
           r == ReceiptOf(m, c)
           bets == BetsOf(q)
           old == BookOf(tee, closes, m)
           new == BookOf(tee', closes', m)
           next == Ledger!NextBet(bets, c)
<1>1. /\ tee' \in [Machines -> TeeState] /\ tee \in [Machines -> TeeState]
      /\ tee[m].epoch \in EpochState
      /\ tee'[m].epoch.id = tee[m].epoch.id /\ tee'[m].epoch.receipts = Append(q, r)
      /\ tee'[m].next = tee[m].next /\ tee'[m].epoch # Null
      /\ r \in Receipt
  BY PlayEffect DEF TInv, TeeTypeOK, TeeState
<1>2. tee[m].epoch # Null /\ closes' = closes /\ closes \in SUBSET CloseRecord
  BY DEF Play, TInv, TeeTypeOK
<1>3. old \in Seq(Entry) /\ Len(old) = n /\ n \in Nat
  BY <1>1, <1>2, BookType
<1>4. tee[m].epoch.id = n /\ n \in 1..n
  BY <1>2, <1>3 DEF NumbersEpochs
<1>5. NumbersEpochs(tee', closes', m)
  BY <1>1, <1>2 DEF NumbersEpochs
<1>6. Ledger!Accepting(old)
  BY <1>1, <1>2, AcceptingIsOpen
<1>7. BetsOf(Append(q, r)) = bets \cup {next}
  <2>1. q \in Seq(Receipt)
    BY <1>1 DEF EpochState
  <2>2. Holds(q, signed, tee[m].epoch.seed)
    BY <1>2 DEF TInv, OpenInv
  <2>3. r.bet = Cardinality(bets) /\ r.client = c
          /\ r.nonce = Cardinality({b \in bets : b.client = c})
    BY <2>2, BetsAreReceipts DEF ReceiptOf
  <2>4. next = [bet |-> r.bet, client |-> r.client, nonce |-> r.nonce]
    BY <2>3, SameCount DEF Ledger!NextBet
  <2> HIDE DEF next, r, q
  <2> QED
    BY <1>1, <2>1, <2>4, BetsGrow
<1>8. DOMAIN new = 1..n /\ DOMAIN old = 1..n
  BY <1>1 DEF BookOf
<1>9. ASSUME NEW id \in 1..n, id # n PROVE new[id] = old[id]
  <2>1. PageOf(tee', closes', m, id) = PageOf(tee, closes, m, id)
    BY <1>1, <1>2, <1>4, <1>9 DEF PageOf
  <2> QED
    BY <1>1, <2>1 DEF BookOf
<1>10. old[n] = [phase |-> "accepting", bets |-> bets, revealed |-> FALSE]
  BY <1>2, <1>4 DEF BookOf, PageOf
<1>11. new[n] = [phase |-> "accepting", bets |-> bets \cup {next}, revealed |-> FALSE]
  BY <1>1, <1>4, <1>7 DEF BookOf, PageOf
<1>12. new[n] = [old[n] EXCEPT !.bets = @ \cup {Ledger!NextBet(@, c)}]
  <2> DEFINE phase == "accepting"
             shown == FALSE
  <2>1. /\ old[n] = [phase |-> phase, bets |-> bets, revealed |-> shown]
        /\ new[n] = [phase |-> phase, bets |-> bets \cup {Ledger!NextBet(bets, c)},
                     revealed |-> shown]
    BY <1>10, <1>11
  <2> HIDE DEF old, new, bets, phase, shown
  <2> QED
    BY <2>1
<1>13. new = [id \in 1..n |-> new[id]] /\ old = [id \in 1..n |-> old[id]]
  BY <1>8 DEF BookOf
<1> HIDE DEF old, new, n, next
<1>14. new = [old EXCEPT ![Len(old)].bets = @ \cup {Ledger!NextBet(@, c)}]
  BY <1>3, <1>4, <1>9, <1>12, <1>13
<1> QED
  BY <1>5, <1>6, <1>14 DEF Ledger!Recordings, old, new

\* CloseEpoch seals the open epoch with the bets it took, and reveals its seed.
LEMMA CloseSeals ==
  ASSUME TInv, NEW m \in Machines, NumbersEpochs(tee, closes, m), CloseEpoch(m)
  PROVE  /\ NumbersEpochs(tee', closes', m)
         /\ BookOf(tee', closes', m) \in Ledger!Sealings(BookOf(tee, closes, m))
<1> DEFINE n == tee[m].next - 1
           k == CloseOf(m)
           bets == BetsOf(tee[m].epoch.receipts)
           old == BookOf(tee, closes, m)
           new == BookOf(tee', closes', m)
<1>1. /\ tee' \in [Machines -> TeeState] /\ tee \in [Machines -> TeeState]
      /\ tee'[m].epoch = Null /\ tee'[m].next = tee[m].next
  BY CloseEffect DEF TInv, TeeTypeOK, TeeState
<1>2. tee[m].epoch # Null /\ closes' = closes \cup {k} /\ closes \in SUBSET CloseRecord
  BY DEF CloseEpoch, TInv, TeeTypeOK
<1>3. old \in Seq(Entry) /\ Len(old) = n /\ n \in Nat
  BY <1>1, <1>2, BookType
<1>4. tee[m].epoch.id = n /\ n \in 1..n
  BY <1>2, <1>3 DEF NumbersEpochs
<1>5. k.epoch = n /\ k.signer = KeyOf[m] /\ k.root = tee[m].epoch.receipts
  BY <1>4 DEF CloseOf
<1>6. NumbersEpochs(tee', closes', m)
  <2>1. \A l \in closes : l.signer = KeyOf[m] => l.epoch \in 1..n /\ l.epoch # n
    BY <1>2, <1>4 DEF NumbersEpochs
  <2>2. \A l, o \in closes :
          l.signer = KeyOf[m] /\ o.signer = KeyOf[m] /\ l.epoch = o.epoch => l = o
    BY DEF NumbersEpochs
  <2>3. \A id \in 1..n : id # n => \E l \in closes : l.signer = KeyOf[m] /\ l.epoch = id
    BY <1>4 DEF NumbersEpochs
  <2>4. tee'[m].next > 0 /\ tee'[m].next - 1 = n
    BY <1>1 DEF NumbersEpochs
  <2> HIDE DEF n, k
  <2>5. \A l \in closes' : l.signer = KeyOf[m] => l.epoch \in 1..n
    BY <1>2, <1>4, <1>5, <2>1
  <2>6. \A l, o \in closes' :
          l.signer = KeyOf[m] /\ o.signer = KeyOf[m] /\ l.epoch = o.epoch => l = o
    BY <1>2, <1>5, <2>1, <2>2
  <2>7. \A id \in 1..n : \E l \in closes' : l.signer = KeyOf[m] /\ l.epoch = id
    BY <1>2, <1>5, <2>3
  <2> QED
    BY <1>1, <2>4, <2>5, <2>6, <2>7 DEF NumbersEpochs
<1>7. Ledger!Accepting(old)
  BY <1>1, <1>2, AcceptingIsOpen
<1>8. DOMAIN new = 1..n /\ DOMAIN old = 1..n
  BY <1>1 DEF BookOf
<1>9. ASSUME NEW id \in 1..n, id # n PROVE new[id] = old[id]
  <2>1. PICK l \in closes : l.signer = KeyOf[m] /\ l.epoch = id
    BY <1>4, <1>9 DEF NumbersEpochs
  <2> DEFINE page == [phase |-> "sealed", bets |-> BetsOf(l.root), revealed |-> TRUE]
  <2>2. PageOf(tee, closes, m, l.epoch) = page
    BY <2>1, SealedPage
  <2>3. PageOf(tee', closes', m, l.epoch) = page
    BY <1>2, <1>6, <2>1, SealedPage
  <2> HIDE DEF page
  <2> QED
    BY <1>1, <2>1, <2>2, <2>3 DEF BookOf
<1>10. old[n] = [phase |-> "accepting", bets |-> bets, revealed |-> FALSE]
  BY <1>2, <1>4 DEF BookOf, PageOf
<1>11. new[n] = [phase |-> "sealed", bets |-> bets, revealed |-> TRUE]
  <2>1. k \in closes'
    BY <1>2
  <2>2. PageOf(tee', closes', m, k.epoch)
          = [phase |-> "sealed", bets |-> BetsOf(k.root), revealed |-> TRUE]
    BY <1>5, <1>6, <2>1, SealedPage
  <2> QED
    BY <1>1, <1>4, <1>5, <2>2 DEF BookOf
<1>12. new[n] = [phase |-> "sealed", bets |-> old[n].bets, revealed |-> TRUE]
  BY <1>10, <1>11
<1>13. new = [id \in 1..n |-> new[id]] /\ old = [id \in 1..n |-> old[id]]
  BY <1>8 DEF BookOf
<1> HIDE DEF old, new, n
<1>14. new = [old EXCEPT ![Len(old)] = [phase |-> "sealed", bets |-> @.bets, revealed |-> TRUE]]
  BY <1>3, <1>4, <1>9, <1>12, <1>13
<1> QED
  BY <1>6, <1>7, <1>14 DEF Ledger!Sealings, old, new

\* Any part of a step of the ledger may be missing.
LEMMA NothingIsAllowed ==
  ASSUME NEW l
  PROVE  l \in Ledger!Sealings(l) /\ l \in Ledger!Commitments(l) /\ l \in Ledger!Recordings(l)
<1>1. l \in Ledger!Sealings(l) /\ l \in Ledger!Recordings(l)
  BY DEF Ledger!Sealings, Ledger!Recordings
<1>2. l \in Ledger!Commitments(l)
  BY DEF Ledger!Commitments
<1> QED
  BY <1>1, <1>2

OwnKeys == \A m, n \in Machines : KeyOf[m] = KeyOf[n] => m = n

SteadyInv == TInv /\ NumbersEpochs(tee, closes, Steady)

\* Every command, whichever machine it reaches, is a step of the steady machine's
\* ledger or leaves it as it is.
LEMMA NextLedger ==
  ASSUME OwnKeys, Steady \in Machines, MaxRestarts[Steady] = 0,
         SteadyInv, [TeeNext]_teeVars
  PROVE  /\ NumbersEpochs(tee', closes', Steady)
         /\ \/ BookOf(tee', closes', Steady) = BookOf(tee, closes, Steady)
            \/ \E sealed \in Ledger!Sealings(BookOf(tee, closes, Steady)) :
                 \E committed \in Ledger!Commitments(sealed) :
                   BookOf(tee', closes', Steady) \in Ledger!Recordings(committed)
<1> DEFINE old == BookOf(tee, closes, Steady)
           new == BookOf(tee', closes', Steady)
<1>1. TInv /\ NumbersEpochs(tee, closes, Steady)
  BY DEF SteadyInv
<1>2. ASSUME UNCHANGED teeVars
      PROVE  NumbersEpochs(tee', closes', Steady) /\ new = old
  BY <1>1, <1>2 DEF teeVars
<1>3. ASSUME NEW m \in Machines, m # Steady, tee'[Steady] = tee[Steady],
             closes' = closes \/ closes' = closes \cup {CloseOf(m)}
      PROVE  NumbersEpochs(tee', closes', Steady) /\ new = old
  <2>1. CloseOf(m).signer # KeyOf[Steady]
    BY <1>3 DEF CloseOf, OwnKeys
  <2>2. closes \subseteq closes' /\ \A k \in closes' \ closes : k.signer # KeyOf[Steady]
    BY <1>3, <2>1
  <2> QED
    BY <1>1, <1>3, <2>2, OthersUnseen
<1>4. ASSUME NEW m \in Machines, OpenEpoch(m)
      PROVE  NumbersEpochs(tee', closes', Steady) /\ (new = old \/ new \in Ledger!Commitments(old))
  <2>1. CASE m = Steady
    BY <1>1, <1>4, <2>1, OpenCommits
  <2>2. CASE m # Steady
    BY <1>1, <1>3, <1>4, <2>2, OpenEffect DEF OpenEpoch
  <2> QED
    BY <2>1, <2>2
<1>5. ASSUME NEW m \in Machines, NEW c \in ClientSeeds, Play(m, c)
      PROVE  NumbersEpochs(tee', closes', Steady) /\ (new = old \/ new \in Ledger!Recordings(old))
  <2>1. CASE m = Steady
    BY <1>1, <1>5, <2>1, PlayRecords
  <2>2. CASE m # Steady
    BY <1>1, <1>3, <1>5, <2>2, PlayEffect DEF Play
  <2> QED
    BY <2>1, <2>2
<1>6. ASSUME NEW m \in Machines, CloseEpoch(m)
      PROVE  NumbersEpochs(tee', closes', Steady) /\ (new = old \/ new \in Ledger!Sealings(old))
  <2>1. CASE m = Steady
    BY <1>1, <1>6, <2>1, CloseSeals
  <2>2. CASE m # Steady
    BY <1>1, <1>3, <1>6, <2>2, CloseEffect DEF CloseEpoch
  <2> QED
    BY <2>1, <2>2
<1>7. ASSUME NEW m \in Machines, Restart(m)
      PROVE  NumbersEpochs(tee', closes', Steady) /\ new = old
  <2>1. m # Steady
    <3>1. restarted[Steady] \in Nat
      BY <1>1 DEF TInv, TeeTypeOK
    <3> QED
      BY <1>7, <3>1 DEF Restart
  <2> QED
    BY <1>1, <1>3, <1>7, <2>1, RestartEffect DEF Restart
<1>8. \A l : l \in Ledger!Sealings(l) /\ l \in Ledger!Commitments(l) /\ l \in Ledger!Recordings(l)
  BY NothingIsAllowed
<1> HIDE DEF old, new
<1>9. /\ NumbersEpochs(tee', closes', Steady)
      /\ \/ new = old
         \/ new \in Ledger!Commitments(old)
         \/ new \in Ledger!Recordings(old)
         \/ new \in Ledger!Sealings(old)
  <2>1. CASE UNCHANGED teeVars
    BY <1>2, <2>1
  <2> QED
    BY <1>4, <1>5, <1>6, <1>7, <2>1 DEF TeeNext
<1> QED
  BY <1>8, <1>9 DEF old, new

\* A machine that does not restart keeps the promise the server keeps, whatever other
\* machines with keys of their own do: commit, number the bets, seal exactly those,
\* reveal (OpenEpoch, Play, CloseEpoch; "distinct identity keys", HARDENING.md).
THEOREM TeeImplementsLedger ==
  ASSUME OwnKeys, \E n \in Machines : MaxRestarts[n] = 0
  PROVE  TeeSpec => ImplementsLedger
<1>1. Steady \in Machines /\ MaxRestarts[Steady] = 0
  BY DEF Steady
<1>2. TeeInit => NumbersEpochs(tee, closes, Steady) /\ Ledger!Init
  <2> SUFFICES ASSUME TeeInit PROVE NumbersEpochs(tee, closes, Steady) /\ Ledger!Init
    OBVIOUS
  <2>1. tee[Steady].next = 1 /\ tee[Steady].epoch = Null /\ closes = {} /\ 1..(1 - 1) = {}
    BY <1>1 DEF TeeInit, Fresh
  <2>2. LedgerOf(Steady) = <<>>
    BY <2>1 DEF LedgerOf
  <2> QED
    BY <2>1, <2>2 DEF NumbersEpochs, Ledger!Init
<1>3. TInv /\ NumbersEpochs(tee, closes, Steady) /\ [TeeNext]_teeVars
        => NumbersEpochs(tee, closes, Steady)' /\ [Ledger!Next]_(LedgerOf(Steady))
  <2> SUFFICES ASSUME SteadyInv, [TeeNext]_teeVars
               PROVE  NumbersEpochs(tee', closes', Steady) /\ [Ledger!Next]_(LedgerOf(Steady))
    BY DEF SteadyInv, NumbersEpochs
  <2>1. /\ LedgerOf(Steady) = BookOf(tee, closes, Steady)
        /\ LedgerOf(Steady)' = BookOf(tee', closes', Steady)
    BY DEF LedgerOf, BookOf, PageOf
  <2> QED
    BY <1>1, <2>1, NextLedger DEF Ledger!Next, Ledger!Advance
<1> QED
  BY <1>2, <1>3, SpecTInv, PTL DEF TeeSpec, ImplementsLedger, Ledger!Spec

=============================================================================
