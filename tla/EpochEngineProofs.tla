-------------------------- MODULE EpochEngineProofs --------------------------
(***************************************************************************)
(* Proofs about EpochEngine, for every value of its constants.             *)
(***************************************************************************)
EXTENDS EpochEngine, FiniteSetTheorems, TLAPS

-----------------------------------------------------------------------------
(* Lemmas about the operators *)

\* The largest element of a singleton, and of an initial segment of Nat.
LEMMA MaxSingleton ==
  ASSUME NEW n \in Int
  PROVE  Max({n}) = n
BY DEF Max

\* The largest of 0, ..., n is n.
LEMMA MaxInitialSegment ==
  ASSUME NEW n \in Nat
  PROVE  Max(0..n) = n
BY DEF Max

\* MAX(nonce) + 1, or 0: the next nonce after 0, ..., n - 1 is n.
LEMMA NextNonceCounts ==
  ASSUME NEW rs, NEW e, NEW c, NEW n \in Nat, NoncesOf(rs, e, c) = 0..(n - 1)
  PROVE  NextNonce(rs, e, c) = n
<1>1. CASE n = 0
  BY <1>1 DEF NextNonce
<1>2. CASE n > 0
  <2>1. n - 1 \in Nat
    BY <1>2
  <2>2. 0..(n - 1) # {}
    BY <1>2
  <2> QED
    BY <2>1, <2>2, MaxInitialSegment DEF NextNonce
<1> QED
  BY <1>1, <1>2

\* ensureEpoch on a table whose only open epoch, if any, is the last: afterwards
\* the last one is open, and the rows before are as they were.
LEMMA EnsureOpensLast ==
  ASSUME NEW es \in Seq(EpochRow), clock \in Nat, OpenIds(es) \subseteq {Len(es)}
  PROVE  /\ Ensure(es) \in Seq(EpochRow)
         /\ Len(Ensure(es)) \in Nat \ {0}
         /\ Len(es) <= Len(Ensure(es))
         /\ \A e \in 1..Len(es) : Ensure(es)[e] = es[e]
         /\ OpenIds(Ensure(es)) = {Len(Ensure(es))}
         /\ OpenEpoch(Ensure(es)) = Len(Ensure(es))
         /\ \A e \in DOMAIN Ensure(es) \ DOMAIN es :
              e = Len(es) + 1 /\ Ensure(es)[e].seed = e
<1>1. CASE OpenIds(es) # {}
  <2>1. Ensure(es) = es
    BY <1>1 DEF Ensure
  <2>2. OpenIds(es) = {Len(es)} /\ Len(es) \in 1..Len(es)
    BY <1>1 DEF OpenIds
  <2> QED
    BY <2>1, <2>2, MaxSingleton DEF OpenEpoch
<1>2. CASE OpenIds(es) = {}
  <2> DEFINE new == Append(es, FreshEpoch(es))
  <2>1. Ensure(es) = new
    BY <1>2 DEF Ensure
  <2>2. FreshEpoch(es) \in EpochRow
    BY DEF FreshEpoch, EpochRow
  <2>3. new \in Seq(EpochRow) /\ Len(new) = Len(es) + 1
    BY <2>2
  <2>4. \A e \in 1..Len(es) : new[e] = es[e]
    OBVIOUS
  <2>5. new[Len(new)] = FreshEpoch(es)
    BY <2>3
  <2>7. new[Len(new)].seed = Len(new)
    BY <2>3, <2>5 DEF FreshEpoch
  <2>6. OpenIds(new) = {Len(new)}
    <3>1. Len(new) \in OpenIds(new)
      BY <2>3, <2>5 DEF OpenIds, FreshEpoch
    <3>2. ASSUME NEW e \in OpenIds(new) PROVE e = Len(new)
      BY <1>2, <2>3, <2>4, <3>2 DEF OpenIds
    <3> QED
      BY <3>1, <3>2
  <2> HIDE DEF new
  <2> QED
    BY <2>1, <2>3, <2>4, <2>6, <2>7, MaxSingleton DEF OpenEpoch
<1> QED
  BY <1>1, <1>2

\* With dense bet ids, a row has as many rows before it as its bet id says.
LEMMA RankIsBet ==
  ASSUME NEW rs \in SUBSET ReceiptRow, NEW e, IsFiniteSet(RowsOf(rs, e)),
         DenseBets(rs, e), NEW r \in RowsOf(rs, e)
  PROVE  Cardinality({s \in RowsOf(rs, e) : s.bet < r.bet}) = r.bet
<1> DEFINE rows == RowsOf(rs, e)
           before == {s \in rows : s.bet < r.bet}
           f == [s \in before |-> s.bet]
<1>1. \A s \in rows : s.bet \in Nat /\ s.bet <= Cardinality(rows) - 1
  BY FS_CardinalityType DEF DenseBets, RowsOf, ReceiptRow
<1>2. f \in [before -> 0..(r.bet - 1)]
  BY <1>1
<1>3. \A s, t \in before : f[s] = f[t] => s = t
  BY DEF DenseBets
<1>4. ASSUME NEW b \in 0..(r.bet - 1)
      PROVE  \E s \in before : f[s] = b
  <2>1. b \in 0..(Cardinality(rows) - 1)
    BY <1>1, FS_CardinalityType
  <2>2. PICK s \in rows : s.bet = b
    BY <2>1 DEF DenseBets
  <2> QED
    BY <1>1, <2>2
<1>5. f \in Bijection(before, 0..(r.bet - 1))
  BY <1>2, <1>3, <1>4 DEF Bijection, Injection, Surjection, IsInjective
<1>6. ExistsBijection(before, 0..(r.bet - 1))
  BY <1>5 DEF ExistsBijection
<1>7. IsFiniteSet(before)
  BY FS_Subset
<1>8. Cardinality(0..(r.bet - 1)) = r.bet
  BY <1>1, FS_Interval
<1> QED
  BY <1>6, <1>7, <1>8, FS_Bijection

\* ORDER BY bet_id over dense bet ids: leaf betId + 1 of the tree is the digest of
\* bet betId, and there is one leaf per row.
LEMMA LeavesInBetOrder ==
  ASSUME NEW rs \in SUBSET ReceiptRow, NEW e, IsFiniteSet(RowsOf(rs, e)), DenseBets(rs, e)
  PROVE  /\ LeavesOf(rs, e) \in Seq(Leaf)
         /\ Len(LeavesOf(rs, e)) = Cardinality(RowsOf(rs, e))
         /\ \A r \in RowsOf(rs, e) : LeavesOf(rs, e)[r.bet + 1] = Digest(r)
<1> DEFINE rows == RowsOf(rs, e)
           n == Cardinality(rows)
           Rank(r) == Cardinality({s \in rows : s.bet < r.bet})
           Bet(b) == CHOOSE r \in rows : Rank(r) = b
           f == [i \in 1..n |-> Digest(Bet(i - 1))]
<1>1. n \in Nat
  BY FS_CardinalityType
<1>2. \A r \in rows : Rank(r) = r.bet
  BY RankIsBet
<1>3. \A r \in rows : r.bet \in 0..(n - 1)
  BY DEF DenseBets
<1>4. \A r, s \in rows : r.bet = s.bet => r = s
  BY DEF DenseBets
<1>5. ASSUME NEW b \in 0..(n - 1) PROVE \E r \in rows : r.bet = b
  BY DEF DenseBets
<1>6. \A r \in rows : Digest(r) \in Leaf
  BY DEF Digest, Leaf, RowsOf, ReceiptRow
<1>7. LeavesOf(rs, e) = f
  BY DEF LeavesOf
<1> HIDE DEF Rank, n, rows
<1>8. ASSUME NEW b \in 0..(n - 1) PROVE Bet(b) \in rows /\ Rank(Bet(b)) = b
  BY <1>2, <1>5
<1>9. ASSUME NEW r \in rows PROVE Bet(r.bet) = r
  BY <1>2, <1>3, <1>4, <1>8
<1> HIDE DEF Bet
<1>10. f \in [1..n -> Leaf]
  <2>1. ASSUME NEW i \in 1..n PROVE Bet(i - 1) \in rows
    BY <1>1, <1>8
  <2> QED
    BY <1>6, <2>1
<1>11. ASSUME NEW r \in rows PROVE f[r.bet + 1] = Digest(r)
  <2> DEFINE i == r.bet + 1
  <2>1. i \in 1..n /\ i - 1 = r.bet
    BY <1>1, <1>3
  <2>2. Bet(i - 1) = r
    BY <1>9, <2>1
  <2> HIDE DEF i
  <2>3. f[i] = Digest(Bet(i - 1))
    BY <2>1
  <2> QED
    BY <2>2, <2>3 DEF i
<1> HIDE DEF f
<1>12. f \in Seq(Leaf) /\ Len(f) = n
  BY <1>1, <1>10
<1> QED
  BY <1>7, <1>11, <1>12 DEF rows, n

-----------------------------------------------------------------------------
(* The two tables: what a handler may find in them, and leaves in them *)

Tables(es, rs) ==
  /\ es \in Seq(EpochRow)
  /\ rs \in SUBSET ReceiptRow
  /\ IsFiniteSet(rs)
  /\ OpenIds(es) \subseteq {Len(es)}
  /\ \A r \in rs : r.epoch \in DOMAIN es
  /\ \A e \in DOMAIN es : DenseBets(rs, e)
  /\ \A e \in DOMAIN es, c \in ClientSeeds : DenseNonces(rs, e, c)
  /\ \A e \in DOMAIN es : es[e].closed =>
       es[e].root = LeavesOf(rs, e) /\ es[e].count = Cardinality(RowsOf(rs, e))
  /\ \A r \in rs : r.asked \in {Null, r.nonce}
  /\ \A e \in DOMAIN es : es[e].seed = e

\* Table es2 has the rows of es1 and maybe more; the closed ones are as they were.
KeepsClosed(es1, es2) ==
  /\ DOMAIN es1 \subseteq DOMAIN es2
  /\ \A e \in DOMAIN es1 : es1[e].closed => es2[e] = es1[e]

\* An epoch without receipts has dense bets and nonces.
LEMMA NoRowsDense ==
  ASSUME NEW rs, NEW e, RowsOf(rs, e) = {}, NEW c
  PROVE  DenseBets(rs, e) /\ DenseNonces(rs, e, c)
<1>1. Cardinality({}) = 0 /\ 0..(0 - 1) = {}
  BY FS_EmptySet
<1>2. DenseBets(rs, e)
  BY <1>1 DEF DenseBets
<1>3. {r \in RowsOf(rs, e) : r.client = c} = {} /\ NoncesOf(rs, e, c) = {}
  BY DEF NoncesOf
<1>4. DenseNonces(rs, e, c)
  BY <1>1, <1>3 DEF DenseNonces
<1> QED
  BY <1>2, <1>4

\* ensureEpoch keeps the tables well-formed: a new epoch has no receipts yet.
LEMMA EnsureKeepsTables ==
  ASSUME NEW es, NEW rs, Tables(es, rs), clock \in Nat
  PROVE  Tables(Ensure(es), rs) /\ KeepsClosed(es, Ensure(es))
<1> DEFINE new == Ensure(es)
<1>1. /\ new \in Seq(EpochRow)
      /\ Len(new) \in Nat \ {0}
      /\ Len(es) <= Len(new)
      /\ \A e \in 1..Len(es) : new[e] = es[e]
      /\ OpenIds(new) = {Len(new)}
      /\ \A e \in DOMAIN new \ DOMAIN es : e = Len(es) + 1 /\ new[e].seed = e
  BY EnsureOpensLast DEF Tables
<1> HIDE DEF new
<1>2. DOMAIN es = 1..Len(es) /\ DOMAIN new = 1..Len(new) /\ Len(es) \in Nat
  BY <1>1 DEF Tables
<1>3. DOMAIN es \subseteq DOMAIN new
  BY <1>1, <1>2
<1>4. \A e \in DOMAIN new \ DOMAIN es : RowsOf(rs, e) = {}
  BY DEF Tables, RowsOf
<1>5. \A e \in DOMAIN new \ DOMAIN es : ~new[e].closed
  <2> SUFFICES ASSUME NEW e \in DOMAIN new \ DOMAIN es PROVE e \in OpenIds(new)
    BY DEF OpenIds
  <2> QED
    BY <1>1, <1>2
<1>6. \A e \in DOMAIN new : DenseBets(rs, e)
  BY <1>4, NoRowsDense DEF Tables
<1>7. \A e \in DOMAIN new, c \in ClientSeeds : DenseNonces(rs, e, c)
  BY <1>4, NoRowsDense DEF Tables
<1>8. \A e \in DOMAIN new : new[e].closed =>
        new[e].root = LeavesOf(rs, e) /\ new[e].count = Cardinality(RowsOf(rs, e))
  BY <1>1, <1>2, <1>5 DEF Tables
<1>9. Tables(new, rs)
  BY <1>1, <1>3, <1>6, <1>7, <1>8 DEF Tables
<1>10. KeepsClosed(es, new)
  BY <1>1, <1>2, <1>3 DEF KeepsClosed
<1> QED
  BY <1>9, <1>10 DEF new

\* closeOpen keeps the tables well-formed and closes the one open epoch.
LEMMA CloseKeepsTables ==
  ASSUME NEW es, Tables(es, receipts), key \in Keys, OpenIds(es) # {}
  PROVE  /\ Tables(Close(es), receipts)
         /\ KeepsClosed(es, Close(es))
         /\ Len(Close(es)) = Len(es)
<1> DEFINE e == Len(es)
           root == LeavesOf(receipts, e)
           count == Cardinality(RowsOf(receipts, e))
           row == [es[e] EXCEPT !.closed = TRUE, !.closer = key, !.root = root, !.count = count]
           new == [es EXCEPT ![e] = row]
<1>1. es \in Seq(EpochRow) /\ OpenIds(es) = {e} /\ e \in DOMAIN es
  BY DEF Tables, OpenIds
<1>2. OpenEpoch(es) = e
  BY <1>1, MaxSingleton DEF OpenEpoch
<1>3. Close(es) = new
  BY <1>1, <1>2 DEF Close
<1>4. root \in Seq(Leaf) /\ count \in Nat
  <2>1. IsFiniteSet(RowsOf(receipts, e))
    BY FS_Subset DEF RowsOf, Tables
  <2>2. DenseBets(receipts, e) /\ receipts \in SUBSET ReceiptRow
    BY <1>1 DEF Tables
  <2> QED
    BY <2>1, <2>2, LeavesInBetOrder, FS_CardinalityType
<1> HIDE DEF root, count
<1>5. /\ row \in EpochRow
      /\ row.closed
      /\ row.root = root
      /\ row.count = count
      /\ row.seed = es[e].seed
  <2>1. es[e] \in EpochRow
    BY <1>1
  <2> QED
    BY <2>1, <1>4 DEF EpochRow
<1> HIDE DEF row
<1>6. /\ new \in Seq(EpochRow)
      /\ Len(new) = Len(es)
      /\ DOMAIN new = DOMAIN es
      /\ new[e] = row
      /\ \A d \in DOMAIN es : d # e => new[d] = es[d]
  BY <1>1, <1>5
<1> HIDE DEF new
<1>7. OpenIds(new) = {}
  BY <1>1, <1>5, <1>6 DEF OpenIds
<1>8. \A d \in DOMAIN new : new[d].closed =>
        /\ new[d].root = LeavesOf(receipts, d)
        /\ new[d].count = Cardinality(RowsOf(receipts, d))
  BY <1>5, <1>6 DEF Tables, root, count
<1>9. Tables(new, receipts)
  BY <1>5, <1>6, <1>7, <1>8 DEF Tables
<1>10. KeepsClosed(es, new)
  BY <1>1, <1>6 DEF KeepsClosed, OpenIds
<1> QED
  BY <1>3, <1>6, <1>9, <1>10

\* The receipt Engine.play inserts in epoch e.
NewRow(rs, e, c, asked) ==
  [epoch |-> e, bet |-> Cardinality(RowsOf(rs, e)), client |-> c,
   nonce |-> NextNonce(rs, e, c), asked |-> asked, signer |-> key]

\* Inserting the next receipt of the open epoch keeps the tables well-formed.
LEMMA InsertKeepsTables ==
  ASSUME NEW es, NEW rs, Tables(es, rs), key \in Keys,
         NEW e \in OpenIds(es), NEW c \in ClientSeeds,
         NEW asked \in {Null, NextNonce(rs, e, c)}
  PROVE  Tables(es, rs \cup {NewRow(rs, e, c, asked)})
<1> DEFINE new == NewRow(rs, e, c, asked)
           rs2 == rs \cup {new}
           rows == RowsOf(rs, e)
           bet == Cardinality(rows)
           mine(d) == {r \in rows : r.client = d}
           nonce == Cardinality(mine(c))
<1>1. e \in DOMAIN es /\ ~es[e].closed /\ e \in Nat
  BY DEF Tables, OpenIds
<1>2. /\ IsFiniteSet(rows) /\ bet \in Nat
      /\ \A d : IsFiniteSet(mine(d)) /\ Cardinality(mine(d)) \in Nat
  <2>1. IsFiniteSet(rows)
    BY FS_Subset DEF Tables, RowsOf
  <2>2. \A d : IsFiniteSet(mine(d))
    BY <2>1, FS_Subset
  <2> QED
    BY <2>1, <2>2, FS_CardinalityType
<1>3. DenseBets(rs, e) /\ \A d \in ClientSeeds : DenseNonces(rs, e, d)
  BY <1>1 DEF Tables
<1>4. NextNonce(rs, e, c) = nonce
  <2>1. NoncesOf(rs, e, c) = 0..(nonce - 1)
    BY <1>3 DEF DenseNonces
  <2> HIDE DEF nonce
  <2>2. nonce \in Nat
    BY <1>2 DEF nonce
  <2> QED
    BY <2>1, <2>2, NextNonceCounts
<1>5. {r.bet : r \in rows} = 0..(bet - 1) /\ \A r, s \in rows : r.bet = s.bet => r = s
  BY <1>3 DEF DenseBets
<1>6. /\ NoncesOf(rs, e, c) = {r.nonce : r \in mine(c)}
      /\ NoncesOf(rs, e, c) = 0..(nonce - 1)
      /\ \A r, s \in mine(c) : r.nonce = s.nonce => r = s
  BY <1>3 DEF DenseNonces, NoncesOf
<1>7. nonce \in Nat /\ IsFiniteSet(mine(c)) /\ Cardinality(mine(c)) = nonce
  BY <1>2
<1>8. bet = Cardinality(RowsOf(rs, e)) /\ bet \in Nat
  BY <1>2
<1> HIDE DEF bet, nonce
<1>9. /\ new \in ReceiptRow /\ new.epoch = e /\ new.bet = bet /\ new.client = c
      /\ new.nonce = nonce /\ new.asked \in {Null, nonce}
  BY <1>1, <1>4, <1>7, <1>8 DEF NewRow, ReceiptRow
<1> HIDE DEF new
<1>10. rs2 \in SUBSET ReceiptRow /\ IsFiniteSet(rs2)
  BY <1>9, FS_AddElement DEF Tables
<1>11. RowsOf(rs2, e) = rows \cup {new} /\ \A d : d # e => RowsOf(rs2, d) = RowsOf(rs, d)
  BY <1>9 DEF RowsOf
<1>12. \A r \in rows : r.bet \in 0..(bet - 1)
  BY <1>5
<1>13. new \notin rows
  BY <1>2, <1>9, <1>12
<1>14. DenseBets(rs2, e)
  <2>1. Cardinality(RowsOf(rs2, e)) = bet + 1
    BY <1>2, <1>11, <1>13, FS_AddElement DEF bet
  <2>2. {r.bet : r \in RowsOf(rs2, e)} = 0..bet
    <3>1. {r.bet : r \in RowsOf(rs2, e)} = {r.bet : r \in rows} \cup {bet}
      BY <1>9, <1>11
    <3>2. 0..(bet - 1) \cup {bet} = 0..bet
      BY <1>2
    <3> QED
      BY <1>5, <3>1, <3>2
  <2>3. ASSUME NEW r \in RowsOf(rs2, e), NEW s \in RowsOf(rs2, e), r.bet = s.bet
        PROVE  r = s
    <3>1. \A x \in rows : x.bet # new.bet
      BY <1>2, <1>9, <1>12
    <3> QED
      BY <1>11, <1>5, <2>3, <3>1
  <2> DEFINE size == Cardinality(RowsOf(rs2, e))
  <2>4. size - 1 = bet
    BY <1>8, <2>1
  <2> HIDE DEF size
  <2>5. {r.bet : r \in RowsOf(rs2, e)} = 0..(size - 1)
    BY <2>2, <2>4
  <2> QED
    BY <2>3, <2>5 DEF DenseBets, size
<1>15. DenseNonces(rs2, e, c)
  <2> DEFINE mine2 == {r \in RowsOf(rs2, e) : r.client = c}
  <2>1. mine2 = mine(c) \cup {new} /\ new \notin mine(c)
    BY <1>9, <1>11, <1>13
  <2>2. Cardinality(mine2) = nonce + 1
    <3>1. Cardinality(mine(c) \cup {new}) = Cardinality(mine(c)) + 1
      BY <1>7, <2>1, FS_AddElement
    <3> QED
      BY <1>7, <2>1, <3>1
  <2>3. NoncesOf(rs2, e, c) = {r.nonce : r \in mine2}
    BY DEF NoncesOf
  <2> HIDE DEF mine2
  <2>4. NoncesOf(rs2, e, c) = 0..nonce
    <3>1. {r.nonce : r \in mine2} = {r.nonce : r \in mine(c)} \cup {nonce}
      BY <1>9, <2>1
    <3>2. 0..(nonce - 1) \cup {nonce} = 0..nonce
      BY <1>7
    <3> QED
      BY <1>6, <2>3, <3>1, <3>2
  <2>5. ASSUME NEW r \in mine2, NEW s \in mine2, r.nonce = s.nonce
        PROVE  r = s
    <3>1. \A x \in mine(c) : x.nonce \in 0..(nonce - 1)
      BY <1>6
    <3>2. \A x \in mine(c) : x.nonce # new.nonce
      BY <1>7, <1>9, <3>1
    <3> QED
      BY <1>6, <2>1, <2>5, <3>2
  <2> DEFINE size == Cardinality(mine2)
  <2>6. size - 1 = nonce
    BY <1>7, <2>2
  <2> HIDE DEF size
  <2>7. NoncesOf(rs2, e, c) = 0..(size - 1)
    BY <2>4, <2>6
  <2> QED
    BY <2>5, <2>7 DEF DenseNonces, mine2, size
<1>16. ASSUME NEW d \in ClientSeeds, d # c PROVE DenseNonces(rs2, e, d)
  <2>1. {r \in RowsOf(rs2, e) : r.client = d} = {r \in RowsOf(rs, e) : r.client = d}
    BY <1>9, <1>11, <1>16
  <2>2. NoncesOf(rs2, e, d) = NoncesOf(rs, e, d)
    BY <2>1 DEF NoncesOf
  <2> QED
    BY <1>3, <2>1, <2>2 DEF DenseNonces
<1>17. ASSUME NEW d \in DOMAIN es, d # e
       PROVE  /\ DenseBets(rs2, d)
              /\ \A b \in ClientSeeds : DenseNonces(rs2, d, b)
              /\ LeavesOf(rs2, d) = LeavesOf(rs, d)
  <2>1. RowsOf(rs2, d) = RowsOf(rs, d)
    BY <1>11, <1>17
  <2>2. \A b : NoncesOf(rs2, d, b) = NoncesOf(rs, d, b)
    BY <2>1 DEF NoncesOf
  <2> HIDE DEF rs2
  <2>3. DenseBets(rs, d) /\ \A b \in ClientSeeds : DenseNonces(rs, d, b)
    BY DEF Tables
  <2>4. DenseBets(rs2, d)
    BY <2>1, <2>3 DEF DenseBets
  <2>5. ASSUME NEW b \in ClientSeeds PROVE DenseNonces(rs2, d, b)
    BY <2>1, <2>2, <2>3 DEF DenseNonces
  <2>6. LeavesOf(rs2, d) = LeavesOf(rs, d)
    BY <2>1 DEF LeavesOf
  <2> QED
    BY <2>4, <2>5, <2>6
<1>18. \A d \in DOMAIN es : es[d].closed =>
         /\ es[d].root = LeavesOf(rs2, d)
         /\ es[d].count = Cardinality(RowsOf(rs2, d))
  BY <1>1, <1>11, <1>17 DEF Tables
<1> HIDE DEF rs2
<1>19. \A r \in rs2 : r.epoch \in DOMAIN es /\ r.asked \in {Null, r.nonce}
  BY <1>1, <1>9 DEF Tables, rs2
<1>20. \A d \in DOMAIN es : DenseBets(rs2, d) /\ \A b \in ClientSeeds : DenseNonces(rs2, d, b)
  BY <1>14, <1>15, <1>16, <1>17
<1>21. es \in Seq(EpochRow) /\ OpenIds(es) \subseteq {Len(es)}
  BY DEF Tables
<1>22. Tables(es, rs2)
  BY <1>10, <1>18, <1>19, <1>20, <1>21 DEF Tables
<1> QED
  BY <1>22 DEF rs2, new

-----------------------------------------------------------------------------
(* The inductive invariant *)

\* What memory and the responses sent so far rest on: closed epochs only.
CommittedTrees(es) ==
  {t \in [epoch: Nat, tree: Seq(Leaf)] :
     t.epoch \in DOMAIN es /\ es[t.epoch].closed /\ t.tree = es[t.epoch].root}

Memory(es, cache, pub, order) ==
  /\ cache \in Seq(CommittedTrees(es))
  /\ pub \subseteq DOMAIN es
  /\ \A e \in pub : es[e].closed
  /\ order \in Seq(DOMAIN es)

Process ==
  /\ key \in Keys
  /\ clock \in 0..MaxClock
  /\ up \in BOOLEAN
  /\ crashes \in 0..MaxCrashes

IInv ==
  /\ Tables(epochs, receipts)
  /\ Memory(epochs, merkleCache, published, proven)
  /\ Process

\* What a step does to the tables: closed epochs and their receipts stay, and new
\* receipts go to an open epoch.
TablesStep ==
  /\ Tables(epochs', receipts')
  /\ KeepsClosed(epochs, epochs')
  /\ \A e \in DOMAIN epochs : epochs[e].closed => RowsOf(receipts', e) = RowsOf(receipts, e)
  /\ \A r \in receipts' \ receipts : ~epochs'[r.epoch].closed

\* The invariant holds of an empty database.
LEMMA InitIInv == Init => IInv
<1> SUFFICES ASSUME Init PROVE IInv
  OBVIOUS
<1>1. IsFiniteSet({})
  BY FS_EmptySet
<1>2. Tables(epochs, receipts)
  BY <1>1 DEF Init, Tables, OpenIds
<1>3. Memory(epochs, merkleCache, published, proven)
  BY DEF Init, Memory
<1>4. Process
  <2>1. up \in BOOLEAN
    BY DEF Init
  <2>2. clock \in 0..MaxClock /\ crashes \in 0..MaxCrashes
    BY BoundsAssumption DEF Init
  <2> QED
    BY <2>1, <2>2 DEF Init, Process
<1> QED
  BY <1>2, <1>3, <1>4 DEF IInv

\* A handler that only makes sure an epoch is open.
LEMMA EnsureStep ==
  ASSUME IInv, epochs' = Ensure(epochs), receipts' = receipts
  PROVE  TablesStep
<1>1. Tables(Ensure(epochs), receipts) /\ KeepsClosed(epochs, Ensure(epochs))
  BY EnsureKeepsTables DEF IInv, Process
<1> QED
  BY <1>1 DEF TablesStep

\* A handler that closes the open epoch.
LEMMA CloseStep ==
  ASSUME IInv, OpenIds(epochs) # {}, epochs' = Close(epochs), receipts' = receipts
  PROVE  TablesStep
<1>1. Tables(Close(epochs), receipts) /\ KeepsClosed(epochs, Close(epochs))
  BY CloseKeepsTables DEF IInv, Process
<1> QED
  BY <1>1 DEF TablesStep

\* tick: both, one after the other.
LEMMA TickStep ==
  ASSUME IInv, Tick
  PROVE  TablesStep
<1>1. CASE Expired
  <2> DEFINE closed == Close(epochs)
  <2>1. Tables(closed, receipts) /\ KeepsClosed(epochs, closed)
    BY <1>1, CloseKeepsTables DEF IInv, Process, Expired
  <2>2. epochs' = Ensure(closed) /\ receipts' = receipts
    BY <1>1 DEF Tick
  <2> HIDE DEF closed
  <2>3. Tables(epochs', receipts') /\ KeepsClosed(closed, epochs')
    BY <2>1, <2>2, EnsureKeepsTables DEF IInv, Process
  <2>4. KeepsClosed(epochs, epochs')
    BY <2>1, <2>3 DEF KeepsClosed
  <2> QED
    BY <2>2, <2>3, <2>4 DEF TablesStep
<1>2. CASE ~Expired
  BY <1>2, EnsureStep DEF Tick
<1> QED
  BY <1>1, <1>2

\* play: the receipt goes to the epoch that is open after ensureEpoch.
LEMMA PlayStep ==
  ASSUME IInv, NEW c \in ClientSeeds, NEW asked \in Asked, Play(c, asked)
  PROVE  TablesStep
<1> DEFINE es == Ensure(epochs)
           e == OpenEpoch(es)
           new == NewRow(receipts, e, c, asked)
<1>1. /\ asked \in {Null, NextNonce(receipts, e, c)}
      /\ epochs' = es
      /\ receipts' = receipts \cup {new}
  BY DEF Play, NewRow
<1>2. Tables(es, receipts) /\ KeepsClosed(epochs, es)
  BY EnsureKeepsTables DEF IInv, Process
<1>3. OpenIds(es) = {e}
  BY EnsureOpensLast DEF IInv, Process, Tables
<1>4. new.epoch = e
  BY DEF NewRow
<1> HIDE DEF es, e, new
<1>5. Tables(es, receipts \cup {new})
  BY <1>1, <1>2, <1>3, InsertKeepsTables DEF IInv, Process, new
<1>6. ~es[e].closed
  BY <1>3 DEF OpenIds
<1>7. ASSUME NEW d \in DOMAIN epochs, epochs[d].closed
      PROVE  RowsOf(receipts', d) = RowsOf(receipts, d)
  <2>1. d # e
    BY <1>2, <1>6, <1>7 DEF KeepsClosed
  <2> QED
    BY <1>1, <1>4, <2>1 DEF RowsOf
<1> QED
  BY <1>1, <1>2, <1>4, <1>5, <1>6, <1>7 DEF TablesStep

\* Every step, action by action.
LEMMA NextTables ==
  ASSUME IInv, [Next]_vars
  PROVE  TablesStep
<1>1. CASE UNCHANGED tables
  BY <1>1 DEF tables, IInv, TablesStep, KeepsClosed
<1>2. ASSUME NEW k \in Keys, Boot(k) PROVE TablesStep
  BY <1>2, EnsureStep DEF Boot
<1>3. CASE Tick
  BY <1>3, TickStep
<1>4. CASE TickFails
  BY <1>4, CloseStep DEF TickFails, Expired
<1>5. CASE AdminClose
  BY <1>5, CloseStep DEF AdminClose
<1>6. CASE Current
  BY <1>6, EnsureStep DEF Current
<1>7. ASSUME NEW c \in ClientSeeds, NEW asked \in Asked, Play(c, asked) PROVE TablesStep
  BY <1>7, PlayStep
<1>8. ASSUME NEW c \in ClientSeeds, NEW asked \in Asked, PlayRefused(c, asked) PROVE TablesStep
  BY <1>8, EnsureStep DEF PlayRefused
<1>9. (Crash \/ ClockTick \/ (\E e \in DOMAIN epochs : Publish(e) \/ Prove(e))
        \/ UNCHANGED vars) => UNCHANGED tables
  BY DEF Crash, ClockTick, Publish, Prove, vars, tables
<1> QED
  BY <1>1, <1>2, <1>3, <1>4, <1>5, <1>6, <1>7, <1>8, <1>9 DEF Next

-----------------------------------------------------------------------------
(* The cache and the histories *)

\* Removing one element of a sequence leaves a sequence over the same set.
LEMMA RemoveAtType ==
  ASSUME NEW S, NEW s \in Seq(S), NEW i \in DOMAIN s
  PROVE  RemoveAt(s, i) \in Seq(S)
BY DEF RemoveAt

\* A sequence over a set is one over a larger set.
LEMMA SeqMonotone ==
  ASSUME NEW S, NEW T, S \subseteq T, NEW s \in Seq(S)
  PROVE  s \in Seq(T)
OBVIOUS

\* What memory holds stays true while closed epochs stay as they are.
LEMMA MemoryStays ==
  ASSUME NEW es1, NEW es2, KeepsClosed(es1, es2),
         NEW cache, NEW pub, NEW order, Memory(es1, cache, pub, order)
  PROVE  Memory(es2, cache, pub, order)
<1>1. CommittedTrees(es1) \subseteq CommittedTrees(es2)
  BY DEF CommittedTrees, KeepsClosed
<1>2. cache \in Seq(CommittedTrees(es2))
  BY <1>1 DEF Memory
<1>3. DOMAIN es1 \subseteq DOMAIN es2
  BY DEF KeepsClosed
<1>4. order \in Seq(DOMAIN es2)
  BY <1>3 DEF Memory
<1>5. pub \subseteq DOMAIN es2 /\ \A e \in pub : es2[e].closed
  BY DEF Memory, KeepsClosed
<1> QED
  BY <1>2, <1>4, <1>5 DEF Memory

\* cachedTree of a closed epoch: whether it hits, misses or evicts, only trees of
\* closed epochs are kept.
LEMMA TouchKeepsCommitted ==
  ASSUME IInv, NEW e \in DOMAIN epochs, epochs[e].closed
  PROVE  Touch(e) \in Seq(CommittedTrees(epochs))
<1> DEFINE S == CommittedTrees(epochs)
           entry == [epoch |-> e, tree |-> LeavesOf(receipts, e)]
           grown == Append(merkleCache, entry)
<1>1. merkleCache \in Seq(S)
  BY DEF IInv, Memory
<1>2. entry \in S
  <2>1. epochs \in Seq(EpochRow) /\ epochs[e].root = LeavesOf(receipts, e)
    BY DEF IInv, Tables
  <2>2. e \in Nat /\ epochs[e] \in EpochRow
    BY <2>1
  <2>3. LeavesOf(receipts, e) \in Seq(Leaf)
    BY <2>1, <2>2 DEF EpochRow
  <2> QED
    BY <2>1, <2>2, <2>3 DEF CommittedTrees
<1> HIDE DEF S, entry
<1>3. CASE CacheHits(e) # {}
  <2> DEFINE i == CHOOSE j \in CacheHits(e) : TRUE
  <2>1. i \in DOMAIN merkleCache
    BY <1>3 DEF CacheHits
  <2>2. Touch(e) = Append(RemoveAt(merkleCache, i), merkleCache[i])
    BY <1>3 DEF Touch
  <2> HIDE DEF i
  <2>3. RemoveAt(merkleCache, i) \in Seq(S) /\ merkleCache[i] \in S
    BY <1>1, <2>1, RemoveAtType
  <2> QED
    BY <2>2, <2>3 DEF S
<1>4. CASE CacheHits(e) = {}
  <2>1. Touch(e) = IF Len(grown) > CacheCap THEN Tail(grown) ELSE grown
    BY <1>4 DEF Touch, entry
  <2>2. grown \in Seq(S) /\ grown # <<>>
    BY <1>1, <1>2
  <2> HIDE DEF grown
  <2>3. Tail(grown) \in Seq(S)
    BY <2>2
  <2> QED
    BY <2>1, <2>2, <2>3 DEF S
<1> QED
  BY <1>3, <1>4

\* The order of proofs stays a sequence of epochs.
LEMMA ProvenThenType ==
  ASSUME NEW S, proven \in Seq(S), NEW e \in S
  PROVE  ProvenThen(e) \in Seq(S)
<1> DEFINE again == {i \in DOMAIN proven : proven[i] = e}
           i == CHOOSE j \in again : TRUE
<1>1. CASE again = {}
  BY <1>1 DEF ProvenThen
<1>2. CASE again # {}
  <2>1. i \in DOMAIN proven
    BY <1>2
  <2>2. ProvenThen(e) = Append(RemoveAt(proven, i), e)
    BY <1>2 DEF ProvenThen
  <2> HIDE DEF i
  <2>3. RemoveAt(proven, i) \in Seq(S)
    BY <2>1, RemoveAtType
  <2> QED
    BY <2>2, <2>3
<1> QED
  BY <1>1, <1>2

\* After every step memory holds what closed epochs committed to.
LEMMA NextMemory ==
  ASSUME IInv, [Next]_vars, TablesStep
  PROVE  Memory(epochs', merkleCache', published', proven')
<1>1. Memory(epochs', merkleCache, published, proven)
  BY MemoryStays DEF IInv, TablesStep
<1>2. CASE UNCHANGED <<merkleCache, published, proven>>
  BY <1>1, <1>2
<1>3. CASE published' = published /\ merkleCache' = <<>> /\ proven' = <<>>
  BY <1>1, <1>3 DEF Memory
<1>4. ASSUME NEW e \in DOMAIN epochs, Publish(e)
      PROVE  Memory(epochs', merkleCache', published', proven')
  <2>1. /\ epochs' = epochs /\ epochs[e].closed /\ published' = published \cup {e}
        /\ merkleCache' = merkleCache /\ proven' = proven
    BY <1>4 DEF Publish, tables, memory
  <2> QED
    BY <1>1, <2>1 DEF Memory
<1>5. ASSUME NEW e \in DOMAIN epochs, Prove(e)
      PROVE  Memory(epochs', merkleCache', published', proven')
  <2>1. /\ epochs' = epochs /\ epochs[e].closed /\ published' = published
        /\ merkleCache' = Touch(e) /\ proven' = ProvenThen(e)
    BY <1>5 DEF Prove, tables
  <2>2. Touch(e) \in Seq(CommittedTrees(epochs))
    BY <2>1, TouchKeepsCommitted
  <2>3. ProvenThen(e) \in Seq(DOMAIN epochs)
    BY ProvenThenType DEF IInv, Memory
  <2> QED
    BY <1>1, <2>1, <2>2, <2>3 DEF Memory
<1>6. (\E k \in Keys : Boot(k)) \/ Crash
        => published' = published /\ merkleCache' = <<>> /\ proven' = <<>>
  BY DEF Boot, Crash
<1>7. ClockTick \/ Tick \/ TickFails \/ AdminClose \/ Current
        \/ (\E c \in ClientSeeds, asked \in Asked : Play(c, asked) \/ PlayRefused(c, asked))
        \/ UNCHANGED vars
        => UNCHANGED <<merkleCache, published, proven>>
  BY DEF ClockTick, Tick, TickFails, AdminClose, Current, Play, PlayRefused, vars,
         memory, history
<1> QED
  BY <1>2, <1>3, <1>4, <1>5, <1>6, <1>7 DEF Next

\* After every step the process state has its type.
LEMMA NextProcess ==
  ASSUME IInv, [Next]_vars
  PROVE  Process'
<1>1. CASE UNCHANGED <<key, clock, up, crashes>>
  BY <1>1 DEF IInv, Process
<1>2. ASSUME NEW k \in Keys, Boot(k) PROVE Process'
  <2>1. up' \in BOOLEAN
    BY <1>2 DEF Boot
  <2> QED
    BY <1>2, <2>1 DEF Boot, IInv, Process
<1>3. CASE Crash
  <2>1. up' \in BOOLEAN
    BY <1>3 DEF Crash
  <2>2. crashes' \in 0..MaxCrashes
    BY <1>3, BoundsAssumption DEF Crash, IInv, Process
  <2> QED
    BY <1>3, <2>1, <2>2 DEF Crash, IInv, Process
<1>4. CASE ClockTick
  <2>1. clock' \in 0..MaxClock
    BY <1>4, BoundsAssumption DEF ClockTick, IInv, Process
  <2> QED
    BY <1>4, <2>1 DEF ClockTick, memory, IInv, Process
<1>5. Tick \/ TickFails \/ AdminClose \/ Current
        \/ (\E c \in ClientSeeds, asked \in Asked : Play(c, asked) \/ PlayRefused(c, asked))
        \/ (\E e \in DOMAIN epochs : Publish(e) \/ Prove(e))
        \/ UNCHANGED vars
        => UNCHANGED <<key, clock, up, crashes>>
  BY DEF Tick, TickFails, AdminClose, Current, Play, PlayRefused, Publish, Prove, vars,
         memory
<1> QED
  BY <1>1, <1>2, <1>3, <1>4, <1>5 DEF Next

\* Every step keeps the invariant.
LEMMA NextIInv == IInv /\ [Next]_vars => IInv'
<1> SUFFICES ASSUME IInv, [Next]_vars PROVE IInv'
  OBVIOUS
<1>1. TablesStep
  BY NextTables
<1>2. Memory(epochs', merkleCache', published', proven')
  BY <1>1, NextMemory
<1>3. Process'
  BY NextProcess
<1> QED
  BY <1>1, <1>2, <1>3 DEF IInv, TablesStep

\* It holds in every reachable state.
LEMMA SpecIInv == Spec => []IInv
BY InitIInv, NextIInv, PTL DEF Spec

-----------------------------------------------------------------------------
(* Theorems *)

\* Type correctness: among others the nonce the code reads back from SQL is always
\* a number, and every root is a sequence of receipt digests.
THEOREM TypeCorrect == Spec => []TypeOK
<1>1. IInv => TypeOK
  <2> SUFFICES ASSUME IInv PROVE TypeOK
    OBVIOUS
  <2>1. CommittedTrees(epochs) \subseteq [epoch: Nat, tree: Seq(Leaf)]
    BY DEF CommittedTrees
  <2>2. merkleCache \in Seq([epoch: Nat, tree: Seq(Leaf)])
    BY <2>1, SeqMonotone DEF IInv, Memory
  <2>3. epochs \in Seq(EpochRow) /\ receipts \subseteq ReceiptRow
    BY DEF IInv, Tables
  <2>4. published \subseteq DOMAIN epochs /\ proven \in Seq(DOMAIN epochs)
    BY DEF IInv, Memory
  <2> QED
    BY <2>2, <2>3, <2>4 DEF IInv, Process, TypeOK
<1> QED
  BY <1>1, SpecIInv, PTL

\* At most one epoch takes bets, the newest, whatever mix of timer, admin close,
\* requests, faults and restarts produced it (ensureEpoch, closeOpen, tick).
THEOREM OneEpochOpen == Spec => []OneOpenEpoch
<1>1. IInv => OneOpenEpoch
  BY DEF IInv, Tables, OneOpenEpoch
<1> QED
  BY <1>1, SpecIInv, PTL

\* Bet ids of every epoch are dense (COUNT(*) in Engine.play).
THEOREM BetsSequential == Spec => []SequentialBets
<1>1. IInv => SequentialBets
  BY DEF IInv, Tables, SequentialBets
<1> QED
  BY <1>1, SpecIInv, PTL

\* Nonces of every epoch and client seed are dense (MAX(nonce) + 1 in Engine.play).
THEOREM NoncesSequential == Spec => []SequentialNonces
<1>1. IInv => SequentialNonces
  BY DEF IInv, Tables, SequentialNonces
<1> QED
  BY <1>1, SpecIInv, PTL

\* Every receipt of a closed epoch is a leaf of its signed root, at its bet id
\* (closeOpen and proofFor read the rows in the same order).
THEOREM ReceiptsProvable == Spec => []ClosedReceiptsProvable
<1>1. IInv => ClosedReceiptsProvable
  <2> SUFFICES ASSUME IInv, NEW e \in DOMAIN epochs, epochs[e].closed
               PROVE  LET rows == RowsOf(receipts, e) IN
                      /\ epochs[e].count = Cardinality(rows)
                      /\ Len(epochs[e].root) = epochs[e].count
                      /\ \A r \in rows : epochs[e].root[r.bet + 1] = Digest(r)
    BY DEF ClosedReceiptsProvable
  <2>1. /\ epochs[e].root = LeavesOf(receipts, e)
        /\ epochs[e].count = Cardinality(RowsOf(receipts, e))
    BY DEF IInv, Tables
  <2>2. IsFiniteSet(RowsOf(receipts, e))
    BY FS_Subset DEF IInv, Tables, RowsOf
  <2>3. receipts \in SUBSET ReceiptRow /\ DenseBets(receipts, e)
    BY DEF IInv, Tables
  <2> QED
    BY <2>1, <2>2, <2>3, LeavesInBetOrder
<1> QED
  BY <1>1, SpecIInv, PTL

\* A tree in memory is the tree of the signed root (cachedTree).
THEOREM CacheCommitted == Spec => []CacheServesCommittedTree
<1>1. IInv => CacheServesCommittedTree
  <2> SUFFICES ASSUME IInv, NEW i \in DOMAIN merkleCache
               PROVE  LET entry == merkleCache[i] IN
                      /\ entry.epoch \in DOMAIN epochs
                      /\ epochs[entry.epoch].closed
                      /\ entry.tree = epochs[entry.epoch].root
    BY DEF CacheServesCommittedTree
  <2>1. merkleCache[i] \in CommittedTrees(epochs)
    BY DEF IInv, Memory
  <2> QED
    BY <2>1 DEF CommittedTrees
<1> QED
  BY <1>1, SpecIInv, PTL

\* Naming the nonce makes a retry safe within the epoch (the 409 of Engine.play).
THEOREM RetryIsSafe == Spec => []RetriedBetNotDoubled
<1>1. IInv => RetriedBetNotDoubled
  <2> SUFFICES ASSUME IInv, NEW r \in receipts, NEW s \in receipts,
                      r.epoch = s.epoch, r.client = s.client, r.asked = s.asked,
                      r.asked # Null
               PROVE  r = s
    BY DEF RetriedBetNotDoubled
  <2>1. r.nonce = s.nonce
    BY DEF IInv, Tables
  <2>2. r.epoch \in DOMAIN epochs /\ r.client \in ClientSeeds
    BY DEF IInv, Tables, ReceiptRow
  <2>3. DenseNonces(receipts, r.epoch, r.client)
    BY <2>2 DEF IInv, Tables
  <2> QED
    BY <2>1, <2>3 DEF DenseNonces, RowsOf
<1> QED
  BY <1>1, SpecIInv, PTL

\* A closed epoch's row and receipts are never touched again (no UPDATE or INSERT
\* of the engine reaches them).
THEOREM ClosedIsFinal == Spec => ClosedEpochsNeverChange
<1> DEFINE Kept == \A e \in DOMAIN epochs : epochs[e].closed =>
                     /\ epochs'[e] = epochs[e]
                     /\ RowsOf(receipts', e) = RowsOf(receipts, e)
<1>1. IInv /\ [Next]_vars => [Kept]_vars
  BY NextTables DEF TablesStep, KeepsClosed
<1> QED
  BY <1>1, SpecIInv, PTL DEF Spec, ClosedEpochsNeverChange

\* No bet is drawn from a seed a response has shown (epochJson shows it only once
\* closed_at is set, and Engine.play plays only in an open epoch).
THEOREM PublishedSeedsAreSpent == Spec => NoPlayUnderPublishedSeed
<1> DEFINE Unspent == \A r \in receipts' \ receipts :
                        \A e \in published : epochs'[r.epoch].seed # epochs[e].seed
<1>1. IInv /\ [Next]_vars => [Unspent]_vars
  <2> SUFFICES ASSUME IInv, [Next]_vars, NEW r \in receipts' \ receipts, NEW e \in published
               PROVE  epochs'[r.epoch].seed # epochs[e].seed
    OBVIOUS
  <2>1. TablesStep
    BY NextTables
  <2>2. e \in DOMAIN epochs /\ epochs[e].closed /\ epochs[e].seed = e
    BY DEF IInv, Memory, Tables
  <2>3. epochs'[e] = epochs[e]
    BY <2>1, <2>2 DEF TablesStep, KeepsClosed
  <2>4. r.epoch \in DOMAIN epochs' /\ ~epochs'[r.epoch].closed
    BY <2>1 DEF TablesStep, Tables
  <2>5. epochs'[r.epoch].seed = r.epoch
    BY <2>1, <2>4 DEF TablesStep, Tables
  <2> QED
    BY <2>2, <2>3, <2>4, <2>5
<1> QED
  BY <1>1, SpecIInv, PTL DEF Spec, NoPlayUnderPublishedSeed

-----------------------------------------------------------------------------
(* The order of the cache *)

\* What is left of a sequence without one element.
LEMMA RemoveAtElements ==
  ASSUME NEW S, NEW s \in Seq(S), NEW i \in DOMAIN s
  PROVE  /\ RemoveAt(s, i) \in Seq(S)
         /\ Len(RemoveAt(s, i)) = Len(s) - 1
         /\ \A j \in 1..(Len(s) - 1) : RemoveAt(s, i)[j] = IF j < i THEN s[j] ELSE s[j + 1]
<1>1. Len(s) \in Nat /\ i \in 1..Len(s)
  OBVIOUS
<1> DEFINE front == SubSeq(s, 1, i - 1)
           back == SubSeq(s, i + 1, Len(s))
<1>2. front \in Seq(S) /\ Len(front) = i - 1
  BY <1>1
<1>3. back \in Seq(S) /\ Len(back) = Len(s) - i
  BY <1>1
<1>4. /\ \A j \in 1..(i - 1) : front[j] = s[j]
      /\ \A j \in 1..(Len(s) - i) : back[j] = s[j + i]
  BY <1>1
<1>5. RemoveAt(s, i) = front \o back
  BY DEF RemoveAt
<1> HIDE DEF front, back
<1>6. front \o back \in Seq(S) /\ Len(front \o back) = Len(s) - 1
  BY <1>1, <1>2, <1>3
<1>7. ASSUME NEW j \in 1..(Len(s) - 1), j < i PROVE (front \o back)[j] = s[j]
  BY <1>1, <1>2, <1>3, <1>4, <1>7
<1>8. ASSUME NEW j \in 1..(Len(s) - 1), j >= i PROVE (front \o back)[j] = s[j + 1]
  <2> DEFINE x == j - (i - 1)
  <2>1. x \in 1..(Len(s) - i) /\ x + i = j + 1
    BY <1>1, <1>8
  <2>2. (front \o back)[j] = back[x]
    <3>1. j \in 1..(Len(front) + Len(back)) /\ j > Len(front) /\ j - Len(front) = x
      BY <1>1, <1>2, <1>3, <1>8
    <3>2. Len(front) \in Nat /\ Len(back) \in Nat
      BY <1>2, <1>3
    <3>3. (front \o back)[j] = back[j - Len(front)]
      BY <1>2, <1>3, <3>1, <3>2, SMTT(30)
    <3> QED
      BY <3>1, <3>3
  <2>3. back[x] = s[x + i]
    BY <1>4, <2>1
  <2> QED
    BY <2>1, <2>2, <2>3
<1>9. ASSUME NEW j \in 1..(Len(s) - 1)
      PROVE  RemoveAt(s, i)[j] = IF j < i THEN s[j] ELSE s[j + 1]
  <2>1. CASE j < i
    <3>1. RemoveAt(s, i)[j] = s[j]
      BY <1>5, <1>7, <2>1
    <3> QED
      BY <2>1, <3>1
  <2>2. CASE ~(j < i)
    <3>1. j >= i
      BY <1>1, <2>2
    <3>2. RemoveAt(s, i)[j] = s[j + 1]
      BY <1>5, <1>8, <3>1
    <3> QED
      BY <2>2, <3>2
  <2> QED
    BY <2>1, <2>2
<1>10. RemoveAt(s, i) \in Seq(S) /\ Len(RemoveAt(s, i)) = Len(s) - 1
  BY <1>5, <1>6
<1> HIDE DEF RemoveAt
<1> QED
  BY <1>9, <1>10

\* The cache has the last epochs proven, each once, as many as it may.
InOrder(cache, order) ==
  /\ cache \in Seq([epoch: Nat, tree: Seq(Leaf)])
  /\ order \in Seq(Nat)
  /\ \A i, j \in 1..Len(order) : order[i] = order[j] => i = j
  /\ Len(cache) = IF CacheCap < Len(order) THEN CacheCap ELSE Len(order)
  /\ \A i \in 1..Len(cache) : cache[i].epoch = order[Len(order) - Len(cache) + i]

\* The same, with names for the two lengths.
LEMMA InOrderFrom ==
  ASSUME NEW cache \in Seq([epoch: Nat, tree: Seq(Leaf)]), NEW order \in Seq(Nat),
         NEW n \in Nat, Len(cache) = n, NEW m \in Nat, Len(order) = m,
         \A i, j \in 1..m : order[i] = order[j] => i = j,
         n = IF CacheCap < m THEN CacheCap ELSE m,
         \A i \in 1..n : cache[i].epoch = order[m - n + i]
  PROVE  InOrder(cache, order)
BY DEF InOrder

\* A proof of an epoch that is in the cache moves it to the end of both.
LEMMA HitKeepsOrder ==
  ASSUME InOrder(merkleCache, proven), NEW e \in Nat, CacheHits(e) # {}
  PROVE  InOrder(Touch(e), ProvenThen(e))
<1> DEFINE n == Len(merkleCache)
           m == Len(proven)
           T == [epoch: Nat, tree: Seq(Leaf)]
           i == CHOOSE j \in CacheHits(e) : TRUE
           again == {j \in DOMAIN proven : proven[j] = e}
           k == CHOOSE j \in again : TRUE
<1>1. merkleCache \in Seq(T) /\ proven \in Seq(Nat) /\ n \in Nat /\ m \in Nat /\ n <= m
  BY CacheCapAssumption DEF InOrder
<1>2. i \in 1..n /\ merkleCache[i].epoch = e
  BY <1>1, SMTT(30) DEF CacheHits
<1>3. proven[m - n + i] = e /\ m - n + i \in 1..m
  <2>1. \A a \in 1..n : merkleCache[a].epoch = proven[m - n + a]
    BY DEF InOrder
  <2>2. m - n + i \in 1..m
    BY <1>1, <1>2, SMTT(30)
  <2> HIDE DEF i, m, n
  <2> QED
    BY <1>2, <2>1, <2>2
<1>4. k \in 1..m /\ proven[k] = e /\ again # {}
  BY <1>1, <1>3
<1>5. k = m - n + i
  BY <1>3, <1>4 DEF InOrder
<1>6. /\ Touch(e) = Append(RemoveAt(merkleCache, i), merkleCache[i])
      /\ ProvenThen(e) = Append(RemoveAt(proven, k), e)
  BY <1>4 DEF Touch, ProvenThen
<1> DEFINE cache == RemoveAt(merkleCache, i)
           order == RemoveAt(proven, k)
<1> HIDE DEF i, k, again, T, n, m
<1>7. /\ cache \in Seq(T) /\ Len(cache) = n - 1
      /\ \A j \in 1..(n - 1) : cache[j] = IF j < i THEN merkleCache[j] ELSE merkleCache[j + 1]
  BY <1>1, <1>2, RemoveAtElements DEF n
<1>8. /\ order \in Seq(Nat) /\ Len(order) = m - 1
      /\ \A j \in 1..(m - 1) : order[j] = IF j < k THEN proven[j] ELSE proven[j + 1]
  BY <1>1, <1>4, RemoveAtElements, SMTT(30) DEF m
<1> DEFINE cache2 == Append(cache, merkleCache[i])
           order2 == Append(order, e)
<1> HIDE DEF cache, order
<1>9. merkleCache[i] \in T
  BY <1>1, <1>2 DEF n
<1>10. /\ cache2 \in Seq(T) /\ Len(cache2) = n
       /\ cache2[n] = merkleCache[i]
       /\ \A j \in 1..(n - 1) : cache2[j] = cache[j]
  BY <1>1, <1>7, <1>9
<1>11. /\ order2 \in Seq(Nat) /\ Len(order2) = m
       /\ order2[m] = e
       /\ \A j \in 1..(m - 1) : order2[j] = order[j]
  BY <1>1, <1>8
<1> HIDE DEF cache2, order2
<1>12. ASSUME NEW x \in 1..m, NEW y \in 1..m, order2[x] = order2[y] PROVE x = y
  <2>1. \A a, b \in 1..m : proven[a] = proven[b] => a = b
    BY DEF InOrder, m
  <2>2. \A a \in 1..m : order2[a] = IF a = m THEN proven[k]
                                    ELSE IF a < k THEN proven[a] ELSE proven[a + 1]
    <3>1. \A a \in 1..(m - 1) : order2[a] = IF a < k THEN proven[a] ELSE proven[a + 1]
      BY <1>8, <1>11
    <3> QED
      BY <1>1, <1>4, <1>11, <3>1
  <2> QED
    BY <1>1, <1>4, <1>12, <2>1, <2>2, SMTT(30)
<1>13. ASSUME NEW x \in 1..n PROVE cache2[x].epoch = order2[m - n + x]
  <2>1. \A a \in 1..n : merkleCache[a].epoch = proven[m - n + a]
    BY DEF InOrder, n, m
  <2>2. CASE x = n
    BY <1>1, <1>2, <1>10, <1>11, <2>2
  <2>3. CASE x < i /\ x # n
    <3> DEFINE y == m - n + x
    <3>1. y \in 1..(m - 1) /\ y < k /\ x \in 1..(n - 1)
      BY <1>1, <1>2, <1>5, <2>3
    <3>2. order2[y] = proven[y] /\ cache2[x] = merkleCache[x]
      BY <1>7, <1>8, <1>10, <1>11, <2>3, <3>1
    <3> QED
      BY <2>1, <3>2
  <2>4. CASE x >= i /\ x # n
    <3>1. cache2[x].epoch = merkleCache[x + 1].epoch /\ x + 1 \in 1..n
      <4>1. x \in 1..(n - 1) /\ x + 1 \in 1..n /\ ~(x < i)
        BY <1>1, <1>2, <2>4
      <4> QED
        BY <1>7, <1>10, <4>1
    <3>2. m - n + x \in 1..(m - 1) /\ m - n + x >= k
      BY <1>1, <1>2, <1>5, <2>4
    <3>3. order2[m - n + x] = proven[m - n + (x + 1)]
      <4> DEFINE y == m - n + x
      <4>1. y \in 1..(m - 1) /\ ~(y < k) /\ y + 1 = m - n + (x + 1)
        BY <1>1, <1>4, <3>2
      <4>2. order2[y] = proven[y + 1]
        BY <1>8, <1>11, <4>1
      <4> QED
        BY <4>1, <4>2
    <3> QED
      BY <2>1, <3>1, <3>3
  <2> QED
    BY <1>2, <2>2, <2>3, <2>4
<1>14. n = IF CacheCap < m THEN CacheCap ELSE m
  BY DEF InOrder, n, m
<1> QED
  BY <1>6, <1>10, <1>11, <1>12, <1>13, <1>14, ZenonT(30) DEF InOrder, cache2, order2, cache, order, T

\* A proof of an epoch that is not in the cache takes the place of the first one
\* there, once there are CacheCap; what it pushes out was proven longest ago.
LEMMA MissKeepsOrder ==
  ASSUME InOrder(merkleCache, proven), NEW e \in Nat, CacheHits(e) = {},
         LeavesOf(receipts, e) \in Seq(Leaf)
  PROVE  InOrder(Touch(e), ProvenThen(e))
<1> DEFINE n == Len(merkleCache)
           m == Len(proven)
           T == [epoch: Nat, tree: Seq(Leaf)]
           entry == [epoch |-> e, tree |-> LeavesOf(receipts, e)]
           grown == Append(merkleCache, entry)
           again == {j \in DOMAIN proven : proven[j] = e}
           k == CHOOSE j \in again : TRUE
           order == IF again = {} THEN proven ELSE RemoveAt(proven, k)
           skip == IF again = {} THEN m + 1 ELSE k
           left == IF again = {} THEN m ELSE m - 1
           order2 == Append(order, e)
<1>1. /\ merkleCache \in Seq(T) /\ proven \in Seq(Nat) /\ n \in Nat /\ m \in Nat /\ n <= m
      /\ n = IF CacheCap < m THEN CacheCap ELSE m
      /\ CacheCap \in Nat \ {0}
  BY CacheCapAssumption DEF InOrder
<1>2. ASSUME NEW j \in 1..m, proven[j] = e PROVE j <= m - n
  <2> SUFFICES ASSUME j > m - n PROVE FALSE
    BY <1>1
  <2> DEFINE x == j - (m - n)
  <2>2. \A a \in 1..n : merkleCache[a].epoch = proven[m - n + a]
    BY DEF InOrder
  <2>0. DOMAIN merkleCache = 1..n
    BY <1>1
  <2> HIDE DEF n, m
  <2>1. x \in 1..n /\ m - n + x = j
    BY <1>1
  <2> HIDE DEF x
  <2>3. merkleCache[x].epoch = e
    BY <1>2, <2>1, <2>2
  <2> QED
    BY <2>0, <2>1, <2>3 DEF CacheHits
<1>3. /\ order \in Seq(Nat) /\ Len(order) = left
      /\ \A j \in 1..left : order[j] = IF j < skip THEN proven[j] ELSE proven[j + 1]
  <2>1. CASE again = {}
    BY <1>1, <2>1
  <2>2. CASE again # {}
    <3>1. k \in DOMAIN proven
      BY <2>2
    <3> HIDE DEF k
    <3> QED
      BY <1>1, <2>2, <3>1, RemoveAtElements
  <2> QED
    BY <2>1, <2>2
<1>4. /\ skip \in 1..(m + 1) /\ left \in Nat
      /\ skip <= m => left = m - 1 /\ proven[skip] = e /\ skip <= m - n
      /\ skip = m + 1 => left = m /\ \A j \in 1..m : proven[j] # e
  <2>1. CASE again = {}
    BY <1>1, <2>1
  <2>2. CASE again # {}
    <3>1. k \in 1..m /\ proven[k] = e
      BY <1>1, <2>2
    <3>2. skip = k /\ left = m - 1
      BY <2>2
    <3> HIDE DEF k, m, n, skip, left
    <3>3. k <= m - n
      BY <1>2, <3>1
    <3> QED
      BY <1>1, <3>1, <3>2, <3>3
  <2> QED
    BY <2>1, <2>2
<1>5. ProvenThen(e) = order2
  BY DEF ProvenThen
<1>6. Touch(e) = IF Len(grown) > CacheCap THEN Tail(grown) ELSE grown
  BY DEF Touch
<1> HIDE DEF order, skip, left, again, k
<1>7. /\ order2 \in Seq(Nat) /\ Len(order2) = left + 1 /\ order2[left + 1] = e
      /\ \A j \in 1..left : order2[j] = order[j]
  BY <1>3, <1>4
<1>8. entry \in T /\ entry.epoch = e
  OBVIOUS
<1> HIDE DEF T, entry, n, m, order2
<1>9. /\ grown \in Seq(T) /\ Len(grown) = n + 1 /\ grown[n + 1] = entry
      /\ \A j \in 1..n : grown[j] = merkleCache[j]
  BY <1>1, <1>8 DEF n
<1> HIDE DEF grown
<1>10. ASSUME NEW x \in 1..(left + 1), NEW y \in 1..(left + 1), order2[x] = order2[y]
       PROVE  x = y
  <2>1. \A a, b \in 1..m : proven[a] = proven[b] => a = b
    BY DEF InOrder, m
  <2>2. \A a \in 1..left : order2[a] = IF a < skip THEN proven[a] ELSE proven[a + 1]
    BY <1>3, <1>7
  <2>3. \A a \in 1..left : order2[a] # e
    <3> SUFFICES ASSUME NEW a \in 1..left, order2[a] = e PROVE FALSE
      OBVIOUS
    <3>1. CASE skip = m + 1
      BY <1>1, <1>4, <2>2, <3>1, SMTT(30)
    <3>2. CASE skip <= m
      <4>1. /\ a \in 1..m /\ a + 1 \in 1..m /\ skip \in 1..m
            /\ proven[skip] = e /\ (a # skip \/ a + 1 # skip)
        BY <1>1, <1>4, <3>2
      <4>2. CASE a < skip
        BY <1>1, <1>4, <2>1, <2>2, <3>2, <4>1, <4>2
      <4>3. CASE ~(a < skip)
        <5>1. proven[a + 1] = e
          BY <2>2, <4>3
        <5>2. a + 1 = skip
          BY <1>4, <2>1, <3>2, <4>1, <5>1
        <5> QED
          BY <1>1, <1>4, <4>3, <5>2
      <4> QED
        BY <4>2, <4>3
    <3> QED
      BY <1>1, <1>4, <3>1, <3>2
  <2>4. CASE x \in 1..left /\ y \in 1..left
    <3>1. CASE skip = m + 1
      BY <1>1, <1>4, <1>10, <2>1, <2>2, <2>4, <3>1
    <3>2. CASE skip <= m
      <4> DEFINE Old(a) == IF a < skip THEN a ELSE a + 1
      <4>1. ASSUME NEW a \in 1..left PROVE Old(a) \in 1..m /\ order2[a] = proven[Old(a)]
        <5>1. left = m - 1
          BY <1>4, <3>2
        <5> QED
          BY <1>1, <1>4, <2>2, <5>1
      <4>2. Old(x) = Old(y)
        <5> HIDE DEF Old
        <5> QED
          BY <1>10, <2>1, <2>4, <4>1
      <4> QED
        BY <1>1, <1>4, <2>4, <4>2
    <3> QED
      BY <1>1, <1>4, <3>1, <3>2
  <2> QED
    BY <1>4, <1>7, <1>10, <2>3, <2>4
<1>11. \A a \in 1..n : merkleCache[a].epoch = proven[m - n + a]
  BY DEF InOrder, n, m
<1>12. CASE n + 1 > CacheCap
  <2> DEFINE cache2 == Tail(grown)
  <2>1. n = CacheCap /\ Touch(e) = cache2 /\ n > 0
    BY <1>1, <1>6, <1>9, <1>12
  <2>2. /\ cache2 \in Seq(T) /\ Len(cache2) = n
        /\ \A j \in 1..n : cache2[j] = grown[j + 1]
    <3>1. grown # <<>> /\ grown \in Seq(T) /\ Len(grown) = n + 1 /\ n \in Nat
      BY <1>1, <1>9
    <3>2. cache2 \in Seq(T) /\ Len(cache2) = n
      BY <3>1
    <3>3. \A j \in 1..n : cache2[j] = grown[j + 1]
      BY <3>1
    <3> QED
      BY <3>2, <3>3
  <2> HIDE DEF cache2
  <2>3. ASSUME NEW x \in 1..n PROVE cache2[x].epoch = order2[(left + 1) - n + x]
    <3> DEFINE y == (left + 1) - n + x
    <3>1. CASE x = n
      BY <1>1, <1>4, <1>7, <1>8, <1>9, <2>2, <3>1, SMTT(30)
    <3>2. CASE x # n
      <4>1. x + 1 \in 1..n /\ y \in 1..left
        BY <1>1, <1>4, <3>2
      <4>2. cache2[x].epoch = proven[m - n + (x + 1)]
        BY <1>9, <1>11, <2>2, <4>1
      <4>3. order2[y] = IF y < skip THEN proven[y] ELSE proven[y + 1]
        BY <1>3, <1>7, <4>1
      <4>4. order2[y] = proven[m - n + (x + 1)]
        <5>1. CASE skip = m + 1
          <6>1. y < skip /\ y = m - n + (x + 1)
            BY <1>1, <1>4, <4>1, <5>1
          <6> QED
            BY <4>3, <6>1
        <5>2. CASE skip <= m
          <6>1. ~(y < skip) /\ y + 1 = m - n + (x + 1)
            BY <1>1, <1>4, <4>1, <5>2
          <6> QED
            BY <4>3, <6>1
        <5> QED
          BY <1>1, <1>4, <5>1, <5>2
      <4> QED
        BY <4>2, <4>4
    <3> QED
      BY <3>1, <3>2
  <2>4. n = IF CacheCap < left + 1 THEN CacheCap ELSE left + 1
    BY <1>1, <1>4, <2>1
  <2> QED
    <3> DEFINE longer == left + 1
    <3>1. Touch(e) \in Seq([epoch: Nat, tree: Seq(Leaf)]) /\ Len(Touch(e)) = n
      BY <2>1, <2>2 DEF T
    <3>2. ProvenThen(e) \in Seq(Nat) /\ Len(ProvenThen(e)) = longer
      BY <1>5, <1>7
    <3>3. \A x, y \in 1..longer : ProvenThen(e)[x] = ProvenThen(e)[y] => x = y
      BY <1>5, <1>10
    <3>4. \A x \in 1..n : cache2[x].epoch = order2[longer - n + x]
      BY <2>3
    <3>5. n \in Nat /\ longer \in Nat
      BY <1>1, <1>4
    <3>6. n = IF CacheCap < longer THEN CacheCap ELSE longer
      BY <2>4
    <3> HIDE DEF longer
    <3>7. \A x \in 1..n : Touch(e)[x].epoch = ProvenThen(e)[longer - n + x]
      BY <1>5, <2>1, <3>4
    <3> QED
      BY <3>1, <3>2, <3>3, <3>5, <3>6, <3>7, InOrderFrom, ZenonT(30)
<1>13. CASE ~(n + 1 > CacheCap)
  <2>1. n = m /\ skip = m + 1 /\ left = m /\ Touch(e) = grown
    BY <1>1, <1>4, <1>6, <1>9, <1>13
  <2>2. ASSUME NEW x \in 1..(n + 1) PROVE grown[x].epoch = order2[x]
    <3>1. CASE x = n + 1
      BY <1>7, <1>8, <1>9, <2>1, <3>1
    <3>2. CASE x # n + 1
      <4>1. x \in 1..n /\ x < skip /\ m - n + x = x
        BY <1>1, <2>1, <3>2
      <4> QED
        BY <1>3, <1>7, <1>9, <1>11, <2>1, <4>1, SMTT(30)
    <3> QED
      BY <3>1, <3>2
  <2>3. Len(grown) = Len(order2) /\ Len(order2) = n + 1
    BY <1>7, <1>9, <2>1
  <2>4. \A x \in 1..(n + 1) : Len(order2) - Len(grown) + x = x
    BY <1>1, <2>3
  <2>5. n + 1 = IF CacheCap < n + 1 THEN CacheCap ELSE n + 1
    BY <1>1, <1>13
  <2> QED
    BY <1>5, <1>7, <1>9, <1>10, <2>1, <2>2, <2>3, <2>4, <2>5 DEF InOrder, T
<1> QED
  BY <1>12, <1>13

\* After every step the cache holds the epochs proven last, in their order.
LEMMA NextInOrder == IInv /\ InOrder(merkleCache, proven) /\ [Next]_vars
                       => InOrder(merkleCache, proven)'
<1> SUFFICES ASSUME IInv, InOrder(merkleCache, proven), [Next]_vars
             PROVE  InOrder(merkleCache', proven')
  BY DEF InOrder
<1>1. CASE UNCHANGED <<merkleCache, proven>>
  BY <1>1
<1>2. CASE merkleCache' = <<>> /\ proven' = <<>>
  BY <1>2, CacheCapAssumption DEF InOrder
<1>3. ASSUME NEW e \in DOMAIN epochs, Prove(e) PROVE InOrder(merkleCache', proven')
  <2>1. merkleCache' = Touch(e) /\ proven' = ProvenThen(e) /\ epochs[e].closed
    BY <1>3 DEF Prove
  <2>2. e \in Nat /\ epochs[e] \in EpochRow /\ epochs[e].root = LeavesOf(receipts, e)
    BY <2>1 DEF IInv, Tables
  <2>3. LeavesOf(receipts, e) \in Seq(Leaf)
    BY <2>2 DEF EpochRow
  <2> QED
    BY <2>1, <2>2, <2>3, HitKeepsOrder, MissKeepsOrder
<1>4. (\E k \in Keys : Boot(k)) \/ Crash => merkleCache' = <<>> /\ proven' = <<>>
  BY DEF Boot, Crash
<1>5. ClockTick \/ Tick \/ TickFails \/ AdminClose \/ Current
        \/ (\E c \in ClientSeeds, asked \in Asked : Play(c, asked) \/ PlayRefused(c, asked))
        \/ (\E e \in DOMAIN epochs : Publish(e))
        \/ UNCHANGED vars
        => UNCHANGED <<merkleCache, proven>>
  BY DEF ClockTick, Tick, TickFails, AdminClose, Current, Play, PlayRefused, Publish, vars,
         memory, history
<1> QED
  BY <1>1, <1>2, <1>3, <1>4, <1>5 DEF Next

\* The smaller of two numbers.
LEMMA MinOfTwo ==
  ASSUME NEW a \in Nat, NEW b \in Nat
  PROVE  Min({a, b}) = IF a < b THEN a ELSE b
<1>1. CASE a < b
  <2>1. a \in {a, b} /\ \A y \in {a, b} : a <= y
    BY <1>1
  <2>2. ASSUME NEW x \in {a, b}, \A y \in {a, b} : x <= y PROVE x = a
    BY <1>1, <2>2
  <2> QED
    BY <1>1, <2>1, <2>2 DEF Min
<1>2. CASE ~(a < b)
  <2>1. b \in {a, b} /\ \A y \in {a, b} : b <= y
    BY <1>2
  <2>2. ASSUME NEW x \in {a, b}, \A y \in {a, b} : x <= y PROVE x = b
    BY <1>2, <2>2
  <2> QED
    BY <1>2, <2>1, <2>2 DEF Min
<1> QED
  BY <1>1, <1>2

\* The cache holds the CacheCap epochs proven last, in the order of their last proof,
\* whatever mix of hits, misses, evictions and restarts came before (cachedTree).
THEOREM CacheIsLatestProven == Spec => []CacheHoldsLatestProven
<1>1. Init => InOrder(merkleCache, proven)
  BY CacheCapAssumption DEF Init, InOrder
<1>2. InOrder(merkleCache, proven) => CacheHoldsLatestProven
  <2> SUFFICES ASSUME InOrder(merkleCache, proven) PROVE CacheHoldsLatestProven
    OBVIOUS
  <2> DEFINE n == Len(merkleCache)
             m == Len(proven)
             kept == Min({CacheCap, m})
             shown == SubSeq(proven, m - n + 1, m)
             held == [i \in DOMAIN merkleCache |-> merkleCache[i].epoch]
  <2>1. /\ proven \in Seq(Nat) /\ m \in Nat /\ n \in Nat /\ n <= m
        /\ DOMAIN merkleCache = 1..n
        /\ n = IF CacheCap < m THEN CacheCap ELSE m
        /\ CacheCap \in Nat
    BY CacheCapAssumption DEF InOrder
  <2>2. kept = n
    BY <2>1, MinOfTwo
  <2>3. \A i \in 1..n : held[i] = proven[m - n + i]
    BY <2>1 DEF InOrder
  <2>6. held = [i \in 1..n |-> held[i]]
    BY <2>1
  <2> HIDE DEF n, held, kept
  <2>4. shown \in Seq(Nat) /\ Len(shown) = n /\ \A i \in 1..n : shown[i] = proven[m - n + i]
    <3>1. Len(proven) = m
      OBVIOUS
    <3> HIDE DEF m
    <3>2. m - n + 1 \in 1..(m + 1)
      BY <2>1
    <3> QED
      BY <2>1, <3>1, <3>2
  <2> HIDE DEF m, shown
  <2>5. DOMAIN shown = 1..n /\ shown = [i \in 1..n |-> shown[i]]
    BY <2>1, <2>4
  <2>7. held = shown
    BY <2>3, <2>4, <2>5, <2>6
  <2> QED
    BY <2>2, <2>7 DEF CacheHoldsLatestProven, n, m, shown, held, kept
<1> QED
  BY <1>1, <1>2, NextInOrder, SpecIInv, PTL DEF Spec

-----------------------------------------------------------------------------
(* The ledger: the initial states map to initial states of CommitPlayReveal, *)
(* and every step, a fault or a restart included, to a step of it or none.   *)

\* The bets of epoch e as players know them.
BetsIn(rs, e) == {BetOf(r) : r \in RowsOf(rs, e)}

\* The ledger two tables stand for; a closed epoch's bets are those in its rows.
Book(es, rs, pub) ==
  [e \in DOMAIN es |->
     [phase |-> IF es[e].closed THEN "sealed" ELSE "accepting",
      bets |-> BetsIn(rs, e),
      revealed |-> e \in pub]]

BetRow == [bet: Nat, client: ClientSeeds, nonce: Nat]

Entry == [phase: {"sealed", "accepting"}, bets: SUBSET BetRow, revealed: BOOLEAN]

-----------------------------------------------------------------------------
(* The refinement mapping *)

\* The leaves of an epoch are the digests of its rows, no more and no less.
LEMMA LeavesAreDigests ==
  ASSUME NEW rs \in SUBSET ReceiptRow, NEW e, IsFiniteSet(RowsOf(rs, e)), DenseBets(rs, e)
  PROVE  Range(LeavesOf(rs, e)) = {Digest(r) : r \in RowsOf(rs, e)}
<1> DEFINE rows == RowsOf(rs, e)
           leaves == LeavesOf(rs, e)
           n == Cardinality(rows)
<1>1. leaves \in Seq(Leaf) /\ Len(leaves) = n /\ \A r \in rows : leaves[r.bet + 1] = Digest(r)
  BY LeavesInBetOrder
<1>2. n \in Nat
  BY FS_CardinalityType
<1>3. {r.bet : r \in rows} = 0..(n - 1)
  BY DEF DenseBets
<1> HIDE DEF rows, leaves, n
<1>4. DOMAIN leaves = 1..n
  BY <1>1
<1>5. ASSUME NEW i \in 1..n PROVE \E r \in rows : leaves[i] = Digest(r)
  <2>1. i - 1 \in 0..(n - 1)
    BY <1>2
  <2>2. PICK r \in rows : r.bet = i - 1
    BY <1>3, <2>1
  <2>3. r.bet + 1 = i
    BY <2>2
  <2> QED
    BY <1>1, <2>3
<1>6. ASSUME NEW r \in rows PROVE r.bet + 1 \in 1..n
  BY <1>2, <1>3
<1>7. Range(leaves) = {leaves[i] : i \in 1..n}
  BY <1>4 DEF Range
<1> QED
  BY <1>1, <1>5, <1>6, <1>7 DEF rows, leaves

\* What players see is Book, whether a bet is read from the rows or from the root.
LEMMA LedgerIsBook ==
  ASSUME NEW es, NEW rs, NEW pub, Tables(es, rs)
  PROVE  [e \in DOMAIN es |->
            [phase |-> IF es[e].closed THEN "sealed" ELSE "accepting",
             bets |-> IF es[e].closed THEN {BetOf(d) : d \in Range(es[e].root)}
                      ELSE {BetOf(r) : r \in RowsOf(rs, e)},
             revealed |-> e \in pub]] = Book(es, rs, pub)
<1> SUFFICES ASSUME NEW e \in DOMAIN es, es[e].closed
             PROVE  {BetOf(d) : d \in Range(es[e].root)} = BetsIn(rs, e)
  BY DEF Book, BetsIn
<1>1. IsFiniteSet(RowsOf(rs, e))
  BY FS_Subset DEF Tables, RowsOf
<1>2. Range(es[e].root) = {Digest(r) : r \in RowsOf(rs, e)}
  BY <1>1, LeavesAreDigests DEF Tables
<1>3. \A r : BetOf(Digest(r)) = BetOf(r)
  BY DEF BetOf, Digest
<1> QED
  BY <1>2, <1>3 DEF BetsIn

\* The ledger has an entry per epoch.
LEMMA BookType ==
  ASSUME NEW es, NEW rs, NEW pub, Tables(es, rs)
  PROVE  /\ Book(es, rs, pub) \in Seq(Entry)
         /\ Len(Book(es, rs, pub)) = Len(es)
         /\ Len(es) \in Nat
<1> DEFINE book == Book(es, rs, pub)
<1>1. es \in Seq(EpochRow) /\ DOMAIN es = 1..Len(es) /\ Len(es) \in Nat
  BY DEF Tables
<1>2. \A e : BetsIn(rs, e) \in SUBSET BetRow
  BY DEF BetsIn, BetRow, BetOf, RowsOf, Tables, ReceiptRow
<1>3. book \in [1..Len(es) -> Entry]
  <2> SUFFICES ASSUME NEW e \in 1..Len(es)
               PROVE  [phase |-> IF es[e].closed THEN "sealed" ELSE "accepting",
                       bets |-> BetsIn(rs, e), revealed |-> e \in pub] \in Entry
    BY <1>1 DEF Book
  <2>1. (e \in pub) \in BOOLEAN
    OBVIOUS
  <2> QED
    BY <1>2, <2>1 DEF Entry
<1> HIDE DEF book
<1>4. book \in Seq(Entry) /\ Len(book) = Len(es)
  BY <1>1, <1>3
<1> QED
  BY <1>1, <1>4 DEF book

\* The ledger takes bets exactly when some epoch is open: the last one.
LEMMA AcceptingIsOpen ==
  ASSUME NEW es, NEW rs, NEW pub, Tables(es, rs)
  PROVE  Ledger!Accepting(Book(es, rs, pub)) <=> OpenIds(es) # {}
<1> DEFINE book == Book(es, rs, pub)
           n == Len(es)
<1>1. book \in Seq(Entry) /\ Len(book) = n /\ n \in Nat
  BY BookType
<1>2. es \in Seq(EpochRow) /\ OpenIds(es) \subseteq {n}
  BY DEF Tables
<1>3. n > 0 => book[n].phase = IF es[n].closed THEN "sealed" ELSE "accepting"
  BY <1>2 DEF Book
<1>4. OpenIds(es) # {} <=> n > 0 /\ ~es[n].closed
  BY <1>2 DEF OpenIds
<1>5. book # <<>> <=> n > 0
  <2> HIDE DEF book
  <2> QED BY <1>1
<1> HIDE DEF book
<1> QED
  BY <1>1, <1>3, <1>4, <1>5 DEF Ledger!Accepting, book

-----------------------------------------------------------------------------
(* What the handlers' operations do to the ledger *)

\* ensureEpoch commits to the next epoch, or leaves the ledger alone.
LEMMA EnsureCommits ==
  ASSUME NEW es, NEW rs, NEW pub, Tables(es, rs), pub \subseteq DOMAIN es, clock \in Nat
  PROVE  Book(Ensure(es), rs, pub) \in Ledger!Commitments(Book(es, rs, pub))
<1> DEFINE old == Book(es, rs, pub)
           new == Book(Ensure(es), rs, pub)
           n == Len(es)
<1>1. CASE OpenIds(es) # {}
  BY <1>1 DEF Ensure, Ledger!Commitments
<1>2. CASE OpenIds(es) = {}
  <2>1. ~Ledger!Accepting(old)
    BY <1>2, AcceptingIsOpen
  <2>2. Ensure(es) = Append(es, FreshEpoch(es)) /\ es \in Seq(EpochRow) /\ n \in Nat
    BY <1>2 DEF Ensure, Tables
  <2>3. Len(Ensure(es)) = n + 1 /\ Tables(Ensure(es), rs)
    <3>1. Tables(Ensure(es), rs)
      BY EnsureKeepsTables
    <3>2. Len(Append(es, FreshEpoch(es))) = n + 1
      BY <2>2
    <3> QED
      BY <2>2, <3>1, <3>2
  <2>4. DOMAIN Ensure(es) = 1..(n + 1) /\ DOMAIN es = 1..n
    BY <2>2, <2>3
  <2>5. old \in Seq(Entry) /\ Len(old) = n /\ new \in Seq(Entry) /\ Len(new) = n + 1
    BY <2>3, BookType
  <2>6. ASSUME NEW e \in 1..n PROVE new[e] = old[e]
    <3>1. Ensure(es)[e] = es[e]
      BY <2>2
    <3> QED
      BY <2>4, <3>1 DEF Book
  <2>7. new[n + 1] = Ledger!Committed
    <3>1. Ensure(es)[n + 1] = FreshEpoch(es)
      BY <2>2
    <3>2. RowsOf(rs, n + 1) = {} /\ n + 1 \notin pub
      BY <2>2, <2>4 DEF RowsOf, Tables
    <3>3. ~Ensure(es)[n + 1].closed /\ BetsIn(rs, n + 1) = {}
      BY <3>1, <3>2 DEF FreshEpoch, BetsIn
    <3>4. (n + 1 \in pub) = FALSE
      BY <3>2
    <3>5. n + 1 \in DOMAIN Ensure(es)
      BY <2>2, <2>4
    <3>6. new[n + 1] = [phase |-> "accepting", bets |-> {}, revealed |-> n + 1 \in pub]
      BY <3>3, <3>5 DEF Book
    <3> QED
      BY <3>4, <3>6 DEF Ledger!Committed
  <2> HIDE DEF old, new
  <2>8. new = Append(old, Ledger!Committed)
    BY <2>2, <2>5, <2>6, <2>7
  <2> QED
    BY <2>1, <2>8 DEF Ledger!Commitments, old, new
<1> QED
  BY <1>1, <1>2

\* closeOpen seals the epoch that takes bets with the bets it took, and does not
\* reveal its seed.
LEMMA CloseSeals ==
  ASSUME NEW es, NEW pub, Tables(es, receipts), key \in Keys, OpenIds(es) # {},
         pub \subseteq DOMAIN es, \A e \in pub : es[e].closed
  PROVE  Book(Close(es), receipts, pub) \in Ledger!Sealings(Book(es, receipts, pub))
<1> DEFINE old == Book(es, receipts, pub)
           new == Book(Close(es), receipts, pub)
           n == Len(es)
<1>1. Ledger!Accepting(old)
  BY AcceptingIsOpen
<1>2. es \in Seq(EpochRow) /\ OpenIds(es) = {n} /\ n \in DOMAIN es /\ n \in Nat
  BY DEF Tables, OpenIds
<1>3. OpenEpoch(es) = n /\ ~es[n].closed
  BY <1>2, MaxSingleton DEF OpenEpoch, OpenIds
<1>4. /\ DOMAIN Close(es) = DOMAIN es
      /\ Close(es)[n].closed
      /\ \A e \in DOMAIN es : e # n => Close(es)[e] = es[e]
  <2> DEFINE row == [es[n] EXCEPT !.closed = TRUE, !.closer = key,
                                  !.root = LeavesOf(receipts, n),
                                  !.count = Cardinality(RowsOf(receipts, n))]
  <2>1. Close(es) = [es EXCEPT ![n] = row]
    BY <1>3 DEF Close
  <2>2. row.closed
    BY <1>2 DEF EpochRow
  <2> HIDE DEF row
  <2> QED
    BY <1>2, <2>1, <2>2
<1>5. old \in Seq(Entry) /\ Len(old) = n
  BY BookType
<1>6. new = [old EXCEPT ![Len(old)] = [phase |-> "sealed", bets |-> @.bets, revealed |-> FALSE]]
  <2>1. DOMAIN new = DOMAIN es /\ DOMAIN old = DOMAIN es
    BY <1>4 DEF Book
  <2>2. ASSUME NEW e \in DOMAIN es, e # n PROVE new[e] = old[e]
    BY <1>4, <2>2 DEF Book
  <2>3. (n \in pub) = FALSE
    BY <1>3
  <2>4. new[n] = [phase |-> "sealed", bets |-> BetsIn(receipts, n), revealed |-> FALSE]
    BY <1>2, <1>4, <2>3 DEF Book
  <2>5. old[n] = [phase |-> "accepting", bets |-> BetsIn(receipts, n), revealed |-> FALSE]
    BY <1>2, <1>3, <2>3 DEF Book
  <2>6. new = [e \in DOMAIN es |-> new[e]] /\ old = [e \in DOMAIN es |-> old[e]]
    BY <1>4 DEF Book
  <2> HIDE DEF old, new
  <2>7. new[n] = [phase |-> "sealed", bets |-> old[n].bets, revealed |-> FALSE]
    BY <2>4, <2>5
  <2> QED
    BY <1>2, <1>5, <2>1, <2>2, <2>6, <2>7
<1> HIDE DEF old, new
<1> QED
  BY <1>1, <1>6 DEF Ledger!Sealings, old, new

\* The ledger counts as the tables do.
LEMMA SameCount == \A S : Ledger!Cardinality(S) = Cardinality(S)
BY DEF Ledger!Cardinality, Ledger!IsFiniteSet, Cardinality, IsFiniteSet

\* As many bets in the ledger as rows in the table, per epoch and per client seed.
LEMMA BetsAreRows ==
  ASSUME NEW es, NEW rs, Tables(es, rs), NEW e \in DOMAIN es, NEW c \in ClientSeeds
  PROVE  /\ Cardinality(BetsIn(rs, e)) = Cardinality(RowsOf(rs, e))
         /\ Cardinality({b \in BetsIn(rs, e) : b.client = c})
              = Cardinality({r \in RowsOf(rs, e) : r.client = c})
<1> DEFINE rows == RowsOf(rs, e)
           mine == {r \in rows : r.client = c}
           bets == {b \in BetsIn(rs, e) : b.client = c}
           f == [r \in rows |-> BetOf(r)]
           g == [r \in mine |-> BetOf(r)]
<1>1. IsFiniteSet(rows) /\ IsFiniteSet(mine)
  <2>1. IsFiniteSet(rows)
    BY FS_Subset DEF Tables, RowsOf
  <2> QED
    BY <2>1, FS_Subset
<1>2. \A r, s \in rows : BetOf(r) = BetOf(s) => r = s
  BY DEF Tables, DenseBets, BetOf
<1>3. \A r : BetOf(r).client = r.client
  BY DEF BetOf
<1>4. f \in Bijection(rows, BetsIn(rs, e))
  BY <1>2 DEF Bijection, Injection, Surjection, IsInjective, BetsIn
<1>5. g \in Bijection(mine, bets)
  BY <1>2, <1>3 DEF Bijection, Injection, Surjection, IsInjective, BetsIn
<1>6. ExistsBijection(rows, BetsIn(rs, e)) /\ ExistsBijection(mine, bets)
  BY <1>4, <1>5 DEF ExistsBijection
<1> QED
  BY <1>1, <1>6, FS_Bijection

\* Engine.play records the next bet of the ledger: the bet id and the nonce it reads
\* from the table are the counts of the bets players know.
LEMMA InsertRecords ==
  ASSUME NEW es, NEW rs, NEW pub, Tables(es, rs),
         NEW e \in OpenIds(es), NEW c \in ClientSeeds, NEW asked
  PROVE  Book(es, rs \cup {NewRow(rs, e, c, asked)}, pub)
           \in Ledger!Recordings(Book(es, rs, pub))
<1> DEFINE row == NewRow(rs, e, c, asked)
           old == Book(es, rs, pub)
           new == Book(es, rs \cup {row}, pub)
           mine == {r \in RowsOf(rs, e) : r.client = c}
<1>1. e \in DOMAIN es /\ e = Len(es) /\ ~es[e].closed
  BY DEF OpenIds, Tables
<1>2. Ledger!Accepting(old)
  BY AcceptingIsOpen
<1>3. NextNonce(rs, e, c) = Cardinality(mine)
  <2>1. IsFiniteSet(RowsOf(rs, e))
    BY FS_Subset DEF Tables, RowsOf
  <2>2. Cardinality(mine) \in Nat
    BY <2>1, FS_Subset, FS_CardinalityType
  <2>3. NoncesOf(rs, e, c) = 0..(Cardinality(mine) - 1)
    BY <1>1 DEF Tables, DenseNonces
  <2> QED
    BY <2>2, <2>3, NextNonceCounts
<1>4. BetOf(row) = Ledger!NextBet(BetsIn(rs, e), c) /\ row.epoch = e
  BY <1>1, <1>3, BetsAreRows, SameCount DEF NewRow, BetOf, Ledger!NextBet
<1> HIDE DEF row
<1>5. /\ BetsIn(rs \cup {row}, e) = BetsIn(rs, e) \cup {Ledger!NextBet(BetsIn(rs, e), c)}
      /\ \A d : d # e => BetsIn(rs \cup {row}, d) = BetsIn(rs, d)
  BY <1>4 DEF BetsIn, RowsOf
<1>6. old \in Seq(Entry) /\ Len(old) = Len(es)
  BY BookType
<1>7. new = [old EXCEPT ![Len(old)].bets = @ \cup {Ledger!NextBet(@, c)}]
  <2> DEFINE next == Ledger!NextBet(BetsIn(rs, e), c)
  <2>1. DOMAIN new = DOMAIN es /\ DOMAIN old = DOMAIN es
    BY DEF Book
  <2>2. ASSUME NEW d \in DOMAIN es, d # e PROVE new[d] = old[d]
    BY <1>5, <2>2 DEF Book
  <2>3. old[e] = [phase |-> "accepting", bets |-> BetsIn(rs, e), revealed |-> e \in pub]
    BY <1>1 DEF Book
  <2>4. new[e] = [phase |-> "accepting", bets |-> BetsIn(rs, e) \cup {next}, revealed |-> e \in pub]
    BY <1>1, <1>5 DEF Book
  <2>5. new[e] = [old[e] EXCEPT !.bets = @ \cup {Ledger!NextBet(@, c)}]
    BY <2>3, <2>4
  <2>6. new = [d \in DOMAIN es |-> new[d]] /\ old = [d \in DOMAIN es |-> old[d]]
    BY DEF Book
  <2> HIDE DEF old, new, next
  <2> QED
    BY <1>1, <1>6, <2>1, <2>2, <2>5, <2>6
<1> HIDE DEF old, new
<1> QED
  BY <1>2, <1>7 DEF Ledger!Recordings, old, new, row

\* A response that carries the seed of a closed epoch reveals it.
LEMMA PublishReveals ==
  ASSUME Tables(epochs, receipts), NEW e \in DOMAIN epochs, epochs[e].closed
  PROVE  Book(epochs, receipts, published \cup {e})
           = [Book(epochs, receipts, published) EXCEPT ![e].revealed = TRUE]
<1> DEFINE old == Book(epochs, receipts, published)
           new == Book(epochs, receipts, published \cup {e})
<1>1. ASSUME NEW d \in DOMAIN epochs, d # e PROVE new[d] = old[d]
  <2>1. d \in published \cup {e} <=> d \in published
    BY <1>1
  <2> QED
    BY <2>1 DEF Book
<1>2. (e \in published \cup {e}) = TRUE
  OBVIOUS
<1>3. new[e] = [phase |-> "sealed", bets |-> BetsIn(receipts, e), revealed |-> TRUE]
  BY <1>2 DEF Book
<1>4. old[e] = [phase |-> "sealed", bets |-> BetsIn(receipts, e), revealed |-> e \in published]
  BY DEF Book
<1>5. new = [d \in DOMAIN epochs |-> new[d]] /\ old = [d \in DOMAIN epochs |-> old[d]]
  BY DEF Book
<1>6. new[e] = [old[e] EXCEPT !.revealed = TRUE]
  <2> DEFINE phase == "sealed"
             bets == BetsIn(receipts, e)
             before == e \in published
             shown == TRUE
  <2>1. /\ old[e] = [phase |-> phase, bets |-> bets, revealed |-> before]
        /\ new[e] = [phase |-> phase, bets |-> bets, revealed |-> shown]
    BY <1>3, <1>4
  <2> HIDE DEF old, new, phase, bets, before, shown
  <2>2. new[e] = [old[e] EXCEPT !.revealed = shown]
    BY <2>1
  <2> QED
    BY <2>2 DEF shown
<1> HIDE DEF old, new
<1> QED
  BY <1>1, <1>5, <1>6 DEF old, new

-----------------------------------------------------------------------------
(* Every step of the engine is one of the ledger, or none *)

\* The three parts of a step, each of which may leave the ledger as it is.
LEMMA NothingIsAllowed ==
  ASSUME NEW l
  PROVE  l \in Ledger!Sealings(l) /\ l \in Ledger!Commitments(l) /\ l \in Ledger!Recordings(l)
<1>1. l \in Ledger!Sealings(l) /\ l \in Ledger!Recordings(l)
  BY DEF Ledger!Sealings, Ledger!Recordings
<1>2. l \in Ledger!Commitments(l)
  BY DEF Ledger!Commitments
<1> QED
  BY <1>1, <1>2

\* A handler that only makes sure an epoch is open.
LEMMA EnsureAdvances ==
  ASSUME IInv, epochs' = Ensure(epochs), receipts' = receipts, published' = published,
         Tables(epochs', receipts')
  PROVE  Ledger!Advance
<1> DEFINE next == Book(Ensure(epochs), receipts, published)
<1>1. LedgerOf = Book(epochs, receipts, published)
  BY LedgerIsBook DEF IInv, LedgerOf
<1>2. LedgerOf' = Book(epochs', receipts', published')
  BY LedgerIsBook DEF LedgerOf
<1>3. next \in Ledger!Commitments(LedgerOf)
  BY <1>1, EnsureCommits DEF IInv, Memory, Process
<1>4. LedgerOf \in Ledger!Sealings(LedgerOf) /\ next \in Ledger!Recordings(next)
  BY NothingIsAllowed
<1>5. LedgerOf' = next
  BY <1>2
<1> QED
  BY <1>3, <1>4, <1>5 DEF Ledger!Advance

\* A handler that closes the open epoch, and may make sure another one is open.
LEMMA CloseAdvances ==
  ASSUME IInv, OpenIds(epochs) # {}, epochs' \in {Close(epochs), Ensure(Close(epochs))},
         receipts' = receipts, published' = published, Tables(epochs', receipts')
  PROVE  Ledger!Advance
<1> DEFINE sealed == Book(Close(epochs), receipts, published)
           next == Book(epochs', receipts', published')
<1>1. LedgerOf = Book(epochs, receipts, published)
  BY LedgerIsBook DEF IInv, LedgerOf
<1>2. LedgerOf' = next
  BY LedgerIsBook DEF LedgerOf
<1>3. sealed \in Ledger!Sealings(LedgerOf)
  BY <1>1, CloseSeals DEF IInv, Memory, Process
<1>4. next \in Ledger!Commitments(sealed)
  <2>1. CASE epochs' = Close(epochs)
    BY <2>1, NothingIsAllowed
  <2>2. CASE epochs' = Ensure(Close(epochs))
    <3>1. Tables(Close(epochs), receipts) /\ published \subseteq DOMAIN Close(epochs)
      BY CloseKeepsTables DEF IInv, Memory, Process, KeepsClosed
    <3> QED
      BY <2>2, <3>1, EnsureCommits DEF IInv, Process
  <2> QED
    BY <2>1, <2>2
<1>5. next \in Ledger!Recordings(next)
  BY NothingIsAllowed
<1> QED
  BY <1>2, <1>3, <1>4, <1>5 DEF Ledger!Advance

\* play: at most a commitment, then one bet.
LEMMA PlayAdvances ==
  ASSUME IInv, NEW c \in ClientSeeds, NEW asked \in Asked, Play(c, asked),
         Tables(epochs', receipts')
  PROVE  Ledger!Advance
<1> DEFINE es == Ensure(epochs)
           e == OpenEpoch(es)
           committed == Book(es, receipts, published)
<1>1. LedgerOf = Book(epochs, receipts, published)
  BY LedgerIsBook DEF IInv, LedgerOf
<1>2. LedgerOf' = Book(epochs', receipts', published')
  BY LedgerIsBook DEF LedgerOf
<1>3. /\ epochs' = es
      /\ receipts' = receipts \cup {NewRow(receipts, e, c, asked)}
      /\ published' = published
  BY DEF Play, NewRow, history
<1>4. committed \in Ledger!Commitments(LedgerOf)
  BY <1>1, EnsureCommits DEF IInv, Memory, Process
<1>5. Tables(es, receipts) /\ e \in OpenIds(es)
  <2>1. Tables(es, receipts)
    BY EnsureKeepsTables DEF IInv, Process
  <2>2. OpenIds(es) = {e}
    <3>1. /\ epochs \in Seq(EpochRow) /\ OpenIds(epochs) \subseteq {Len(epochs)}
          /\ clock \in 0..MaxClock
      BY DEF IInv, Tables, Process
    <3> QED
      BY <3>1, EnsureOpensLast
  <2> QED
    BY <2>1, <2>2
<1> HIDE DEF es, e
<1>6. LedgerOf' \in Ledger!Recordings(committed)
  BY <1>2, <1>3, <1>5, InsertRecords
<1>7. LedgerOf \in Ledger!Sealings(LedgerOf)
  BY NothingIsAllowed
<1> QED
  BY <1>4, <1>6, <1>7 DEF Ledger!Advance

\* Every step, action by action.
LEMMA NextLedger ==
  ASSUME IInv, [Next]_vars
  PROVE  Ledger!Next \/ LedgerOf' = LedgerOf
<1>1. Tables(epochs', receipts')
  BY NextTables DEF TablesStep
<1>2. ASSUME NEW k \in Keys, Boot(k) PROVE Ledger!Advance
  BY <1>1, <1>2, EnsureAdvances DEF Boot
<1>3. ASSUME Tick PROVE Ledger!Advance
  BY <1>1, <1>3, EnsureAdvances, CloseAdvances DEF Tick, Expired, history
<1>4. ASSUME TickFails \/ AdminClose PROVE Ledger!Advance
  BY <1>1, <1>4, CloseAdvances DEF TickFails, AdminClose, Expired, history
<1>5. ASSUME Current PROVE Ledger!Advance
  BY <1>1, <1>5, EnsureAdvances DEF Current, history
<1>6. ASSUME NEW c \in ClientSeeds, NEW asked \in Asked, Play(c, asked) PROVE Ledger!Advance
  BY <1>1, <1>6, PlayAdvances
<1>7. ASSUME NEW c \in ClientSeeds, NEW asked \in Asked, PlayRefused(c, asked)
      PROVE  Ledger!Advance
  BY <1>1, <1>7, EnsureAdvances DEF PlayRefused, history
<1>8. ASSUME NEW e \in DOMAIN epochs, Publish(e) PROVE Ledger!Reveal
  <2>1. /\ epochs[e].closed /\ published' = published \cup {e}
        /\ epochs' = epochs /\ receipts' = receipts
    BY <1>8 DEF Publish, tables
  <2>2. LedgerOf = Book(epochs, receipts, published)
    BY LedgerIsBook DEF IInv, LedgerOf
  <2>3. LedgerOf' = Book(epochs, receipts, published \cup {e})
    <3>1. LedgerOf' = Book(epochs', receipts', published')
      BY <1>1, LedgerIsBook DEF LedgerOf
    <3> QED
      BY <2>1, <3>1
  <2>4. LedgerOf' = [LedgerOf EXCEPT ![e].revealed = TRUE]
    BY <2>1, <2>2, <2>3, PublishReveals DEF IInv
  <2>5. e \in DOMAIN LedgerOf /\ LedgerOf[e].phase = "sealed"
    BY <2>1, <2>2 DEF Book
  <2> QED
    BY <2>4, <2>5 DEF Ledger!Reveal
<1>9. Crash \/ ClockTick \/ (\E e \in DOMAIN epochs : Prove(e)) \/ UNCHANGED vars
        => UNCHANGED <<epochs, receipts, published>>
  BY DEF Crash, ClockTick, Prove, vars, tables, history
<1>10. UNCHANGED <<epochs, receipts, published>> => LedgerOf' = LedgerOf
  BY DEF LedgerOf, RowsOf
<1> QED
  BY <1>2, <1>3, <1>4, <1>5, <1>6, <1>7, <1>8, <1>9, <1>10 DEF Next, Ledger!Next

-----------------------------------------------------------------------------
(* Theorem *)

\* Whatever the timer, the admin, the requests, the failed ticks and the restarts
\* do, players see a ledger: commitments before bets, bets numbered without gaps,
\* seals over exactly the bets taken, seeds only after that (engine.ts).
THEOREM EngineImplementsLedger == Spec => ImplementsLedger
<1>1. Init => Ledger!Init
  BY DEF Init, LedgerOf, Ledger!Init
<1>2. IInv /\ [Next]_vars => [Ledger!Next]_LedgerOf
  BY NextLedger
<1> QED
  BY <1>1, <1>2, SpecIInv, PTL DEF Spec, ImplementsLedger, Ledger!Spec
=============================================================================
