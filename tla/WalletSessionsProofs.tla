------------------------- MODULE WalletSessionsProofs -------------------------
(***************************************************************************)
(* Proofs about WalletSessions and Dashboard: what pruning keeps, and what *)
(* that means for clients and for the page, for any cap, any lifetimes and *)
(* any number of restarts and of sign-ins in flight.                       *)
(***************************************************************************)
EXTENDS Dashboard, FiniteSetTheorems, TLAPS

-----------------------------------------------------------------------------
(* Lemmas about Maps *)

\* The places of a Map that stay have ranks 0, 1, 2, ... among themselves.
LEMMA RanksOnto ==
  ASSUME NEW n \in Nat, NEW I \in SUBSET (1..n)
  PROVE  LET Rank(i) == Cardinality({j \in I : j < i}) IN
         /\ IsFiniteSet(I) /\ Cardinality(I) \in Nat /\ Cardinality(I) <= n
         /\ \A i \in I : Rank(i) \in 0..(Cardinality(I) - 1)
         /\ \A i, j \in I : i < j => Rank(i) < Rank(j)
         /\ \A r \in 0..(Cardinality(I) - 1) : \E i \in I : Rank(i) = r
<1> DEFINE Before(i) == {j \in I : j < i}
           Rank(i) == Cardinality(Before(i))
           c == Cardinality(I)
           f == [i \in I |-> Rank(i)]
<1>0. \A i \in I : i \in Int
  OBVIOUS
<1>1. IsFiniteSet(I) /\ c \in Nat /\ c <= n
  <2>1. IsFiniteSet(1..n) /\ Cardinality(1..n) = n
    BY FS_Interval
  <2>2. IsFiniteSet(I) /\ Cardinality(I) <= Cardinality(1..n)
    BY <2>1, FS_Subset
  <2> QED
    BY <2>1, <2>2, FS_CardinalityType
<1>2. \A i : IsFiniteSet(Before(i)) /\ Rank(i) \in Nat
  BY <1>1, FS_Subset, FS_CardinalityType
<1>3. ASSUME NEW i \in I PROVE Rank(i) \in 0..(c - 1)
  <2>1. Before(i) \in SUBSET I /\ i \notin Before(i)
    OBVIOUS
  <2> DEFINE r == Rank(i)
  <2>2. r <= c /\ r # c /\ r \in Nat
    BY <1>1, <1>2, <2>1, FS_Subset
  <2> HIDE DEF r, c
  <2>3. r \in 0..(c - 1)
    BY <1>1, <2>2
  <2> QED
    BY <2>3 DEF r
<1>4. ASSUME NEW i \in I, NEW j \in I, i < j PROVE Rank(i) < Rank(j)
  <2>1. Before(i) \in SUBSET Before(j) /\ i \in Before(j) /\ i \notin Before(i)
    <3>1. ~(i < i)
      BY <1>0
    <3>2. \A x \in I : x < i => x < j
      BY <1>0, <1>4
    <3> QED
      BY <1>4, <3>1, <3>2
  <2> DEFINE r == Rank(i)
             s == Rank(j)
  <2>2. r <= s /\ r # s /\ r \in Nat /\ s \in Nat
    BY <1>2, <2>1, FS_Subset
  <2> HIDE DEF r, s
  <2>3. r < s
    BY <2>2
  <2> QED
    BY <2>3 DEF r, s
<1>5. \A r \in 0..(c - 1) : \E i \in I : Rank(i) = r
  <2>1. f \in [I -> 0..(c - 1)]
    BY <1>3
  <2>2. ASSUME NEW i \in I, NEW j \in I, f[i] = f[j] PROVE i = j
    <3> DEFINE r == Rank(i)
    <3>1. r \in Nat /\ Rank(j) = r
      BY <1>2, <2>2
    <3> HIDE DEF r
    <3>2. ~(r < r)
      BY <3>1
    <3>3. ~(i < j) /\ ~(j < i)
      BY <1>4, <3>1, <3>2 DEF r
    <3> QED
      BY <1>0, <3>3
  <2>3. f \in Injection(I, 0..(c - 1))
    BY <2>1, <2>2 DEF Injection, IsInjective
  <2>4. IsFiniteSet(0..(c - 1)) /\ Cardinality(0..(c - 1)) = c
    <3> HIDE DEF c
    <3> QED
      BY <1>1, FS_Interval
  <2>5. f \in Surjection(I, 0..(c - 1))
    BY <2>3, <2>4, FS_Injection
  <2> QED
    BY <2>5 DEF Surjection
<1> QED
  BY <1>1, <1>3, <1>4, <1>5

\* What stays of a Map is a part of it, in the same order.
LEMMA OnlyKeepsOrder ==
  ASSUME NEW map \in Seq(Entry), NEW I \in SUBSET DOMAIN map
  PROVE  /\ Only(map, I) \in Seq(Entry)
         /\ Len(Only(map, I)) = Cardinality(I)
         /\ Cardinality(I) \in Nat /\ Cardinality(I) <= Len(map)
         /\ \E at \in [1..Cardinality(I) -> I] :
              /\ \A k \in 1..Cardinality(I) : Only(map, I)[k] = map[at[k]]
              /\ \A k, l \in 1..Cardinality(I) : k < l => at[k] < at[l]
              /\ \A i \in I : \E k \in 1..Cardinality(I) : at[k] = i
<1> DEFINE n == Len(map)
           c == Cardinality(I)
           Rank(i) == Cardinality({j \in I : j < i})
           Place(k) == CHOOSE i \in I : Rank(i) = k - 1
           at == [k \in 1..c |-> Place(k)]
           only == [k \in 1..c |-> map[Place(k)]]
<1>1. n \in Nat /\ DOMAIN map = 1..n
  OBVIOUS
<1>2. /\ c \in Nat /\ c <= n
      /\ \A i \in I : Rank(i) \in 0..(c - 1)
      /\ \A i, j \in I : i < j => Rank(i) < Rank(j)
      /\ \A r \in 0..(c - 1) : \E i \in I : Rank(i) = r
  BY <1>1, RanksOnto, ZenonT(30)
<1>3. Only(map, I) = only
  BY DEF Only
<1> HIDE DEF Rank, c, n
<1>4. ASSUME NEW k \in 1..c PROVE Place(k) \in I /\ Rank(Place(k)) = k - 1
  <2>1. k - 1 \in 0..(c - 1)
    BY <1>2
  <2> QED
    BY <1>2, <2>1
<1>5. at \in [1..c -> I]
  BY <1>4
<1> HIDE DEF Place
<1>6. only \in [1..c -> Entry]
  BY <1>4
<1>7. only \in Seq(Entry) /\ Len(only) = c
  <2> HIDE DEF only
  <2> QED
    BY <1>2, <1>6
<1>8. \A k \in 1..c : only[k] = map[at[k]]
  OBVIOUS
<1>9. ASSUME NEW k \in 1..c, NEW l \in 1..c, k < l PROVE at[k] < at[l]
  <2>1. Place(k) \in I /\ Place(l) \in I /\ Rank(Place(k)) < Rank(Place(l))
    BY <1>2, <1>4, <1>9
  <2>2. Place(k) \in 1..n /\ Place(l) \in 1..n
    BY <1>1, <2>1
  <2>3. ~(Place(l) < Place(k)) /\ Place(l) # Place(k)
    BY <1>2, <2>1
  <2> QED
    BY <1>1, <2>2, <2>3
<1>10. ASSUME NEW i \in I PROVE \E k \in 1..c : at[k] = i
  <2> DEFINE k == Rank(i) + 1
  <2>1. k \in 1..c /\ k - 1 = Rank(i)
    BY <1>2
  <2> HIDE DEF k
  <2>2. Place(k) \in I /\ Rank(Place(k)) = Rank(i)
    BY <1>4, <2>1
  <2>3. Place(k) \in 1..n /\ i \in 1..n
    BY <1>1, <2>2
  <2>4. Place(k) = i
    BY <1>1, <1>2, <2>2, <2>3
  <2> QED
    BY <2>1, <2>4
<1> HIDE DEF at, only
<1> QED
  BY <1>2, <1>3, <1>5, <1>7, <1>8, <1>9, <1>10 DEF c, n

\* The ids of a Map of tokens, drawn up to d, grow from place to place, and no entry
\* expires after top or before an earlier one.
Ordered(map, d, top) ==
  /\ map \in Seq(Entry)
  /\ \A i \in 1..Len(map) : map[i].id \in 1..d /\ map[i].expires <= top
  /\ \A i, j \in 1..Len(map) : i < j =>
       map[i].id < map[j].id /\ map[i].expires <= map[j].expires

\* A Map that others were deleted from: what is left keeps its order.
PartOf(part, map) ==
  /\ part \in Seq(Entry)
  /\ \E at \in [1..Len(part) -> 1..Len(map)] :
       /\ \A k \in 1..Len(part) : part[k] = map[at[k]]
       /\ \A k, l \in 1..Len(part) : k < l => at[k] < at[l]

\* Deleting entries of a Map of tokens leaves one.
LEMMA OrderedPart ==
  ASSUME NEW map, NEW d, NEW top, Ordered(map, d, top), NEW part, PartOf(part, map)
  PROVE  Ordered(part, d, top)
BY ZenonT(30) DEF Ordered, PartOf

\* A Map without the entries that have expired.
LEMMA LiveIsPart ==
  ASSUME NEW map \in Seq(Entry)
  PROVE  /\ Live(map) \in Seq(Entry)
         /\ Len(Live(map)) \in Nat /\ Len(Live(map)) <= Len(map)
         /\ \E at \in [1..Len(Live(map)) -> 1..Len(map)] :
              /\ \A k \in 1..Len(Live(map)) : Live(map)[k] = map[at[k]] /\ Alive(map[at[k]])
              /\ \A k, l \in 1..Len(Live(map)) : k < l => at[k] < at[l]
              /\ \A i \in 1..Len(map) :
                   Alive(map[i]) => \E k \in 1..Len(Live(map)) : at[k] = i
<1> DEFINE I == {i \in DOMAIN map : Alive(map[i])}
           live == Only(map, I)
           c == Cardinality(I)
<1>1. /\ live \in Seq(Entry) /\ Len(live) = c /\ c \in Nat /\ c <= Len(map)
      /\ \E at \in [1..c -> I] :
           /\ \A k \in 1..c : live[k] = map[at[k]]
           /\ \A k, l \in 1..c : k < l => at[k] < at[l]
           /\ \A i \in I : \E k \in 1..c : at[k] = i
  BY OnlyKeepsOrder, ZenonT(30)
<1> HIDE DEF c, live
<1>2. PICK at \in [1..c -> I] :
        /\ \A k \in 1..c : live[k] = map[at[k]]
        /\ \A k, l \in 1..c : k < l => at[k] < at[l]
        /\ \A i \in I : \E k \in 1..c : at[k] = i
  BY <1>1
<1>3. Live(map) = live
  BY DEF Live, live
<1>4. DOMAIN map = 1..Len(map)
  OBVIOUS
<1>5. at \in [1..c -> 1..Len(map)] /\ \A k \in 1..c : Alive(map[at[k]])
  BY <1>2, <1>4
<1>6. \A i \in 1..Len(map) : Alive(map[i]) => \E k \in 1..c : at[k] = i
  BY <1>2, <1>4
<1>7. Len(Live(map)) = c /\ Live(map) \in Seq(Entry)
  BY <1>1, <1>3
<1>8. \A k \in 1..c : Live(map)[k] = map[at[k]]
  BY <1>2, <1>3
<1>9. \A k, l \in 1..c : k < l => at[k] < at[l]
  BY <1>2
<1> HIDE DEF I
<1>10. /\ at \in [1..Len(Live(map)) -> 1..Len(map)]
       /\ \A k \in 1..Len(Live(map)) : Live(map)[k] = map[at[k]] /\ Alive(map[at[k]])
       /\ \A k, l \in 1..Len(Live(map)) : k < l => at[k] < at[l]
       /\ \A i \in 1..Len(map) :
            Alive(map[i]) => \E k \in 1..Len(Live(map)) : at[k] = i
  BY <1>5, <1>6, <1>7, <1>8, <1>9
<1> QED
  BY <1>1, <1>7, <1>10, Zenon

\* What prune leaves: the live entries, the last ones if there are too many.
LEMMA PrunedIsPart ==
  ASSUME NEW map \in Seq(Entry)
  PROVE  LET live == Live(map)
             over == IF Len(live) < MapCap THEN 0 ELSE Len(live) - MapCap + 1
         IN  /\ Pruned(map) \in Seq(Entry)
             /\ over \in Nat /\ Len(live) \in Nat
             /\ Len(Pruned(map)) = Len(live) - over
             /\ Len(Pruned(map)) \in Nat /\ Len(Pruned(map)) < MapCap
             /\ \A k \in 1..Len(Pruned(map)) :
                  over + k \in 1..Len(live) /\ Pruned(map)[k] = live[over + k]
<1> DEFINE live == Live(map)
           n == Len(live)
           from == n - MapCap + 2
<1>1. live \in Seq(Entry) /\ n \in Nat /\ MapCap \in Nat \ {0}
  BY LiveIsPart, SessionBoundsAssumption
<1>2. CASE n < MapCap
  BY <1>1, <1>2 DEF Pruned
<1>3. CASE ~(n < MapCap)
  <2> DEFINE part == SubSeq(live, from, n)
  <2>1. Pruned(map) = part
    BY <1>3 DEF Pruned
  <2>2. from \in 1..(n + 1)
    BY <1>1, <1>3
  <2> HIDE DEF live, from
  <2>3. part \in Seq(Entry) /\ Len(part) = n - from + 1
    BY <1>1, <2>2
  <2>4. \A k \in 1..(n - from + 1) : part[k] = live[from + k - 1]
    BY <1>1, <2>2
  <2> HIDE DEF part, n
  <2>5. n - from + 1 = MapCap - 1 /\ \A k \in Int : from + k - 1 = n - MapCap + 1 + k
    BY <1>1 DEF from
  <2> DEFINE over == n - MapCap + 1
  <2>6. over \in Nat /\ n - over = MapCap - 1
    BY <1>1, <1>3
  <2> HIDE DEF over
  <2>7. ASSUME NEW k \in 1..(MapCap - 1) PROVE over + k \in 1..n /\ part[k] = live[over + k]
    <3>1. over + k \in 1..n
      BY <1>1, <2>6
    <3>2. part[k] = live[from + k - 1]
      BY <2>4, <2>5
    <3>3. from + k - 1 = over + k
      BY <2>5 DEF over
    <3> QED
      BY <3>1, <3>2, <3>3
  <2>8. MapCap - 1 \in Nat /\ MapCap - 1 < MapCap /\ Len(part) = MapCap - 1
    BY <1>1, <2>3, <2>5
  <2> QED
    BY <1>1, <1>3, <2>1, <2>3, <2>6, <2>7, <2>8 DEF over, n, live
<1> QED
  BY <1>2, <1>3

\* prune deletes entries, and so does the reload of the unexpired rows.
LEMMA PruningLeavesPart ==
  ASSUME NEW map \in Seq(Entry)
  PROVE  PartOf(Live(map), map) /\ PartOf(Pruned(map), map)
<1> DEFINE live == Live(map)
           pruned == Pruned(map)
           n == Len(live)
           over == IF n < MapCap THEN 0 ELSE n - MapCap + 1
<1>1. PICK at \in [1..n -> 1..Len(map)] :
        /\ \A k \in 1..n : live[k] = map[at[k]]
        /\ \A k, l \in 1..n : k < l => at[k] < at[l]
  BY LiveIsPart
<1>2. live \in Seq(Entry)
  BY LiveIsPart
<1>3. /\ pruned \in Seq(Entry) /\ over \in Nat /\ n \in Nat /\ Len(pruned) \in Nat
      /\ \A k \in 1..Len(pruned) : over + k \in 1..n /\ pruned[k] = live[over + k]
  BY PrunedIsPart
<1>4. PartOf(live, map)
  BY <1>1, <1>2 DEF PartOf
<1> HIDE DEF live, pruned, n, over
<1> DEFINE into == [k \in 1..Len(pruned) |-> at[over + k]]
<1>5. into \in [1..Len(pruned) -> 1..Len(map)]
  BY <1>1, <1>3
<1>6. \A k \in 1..Len(pruned) : pruned[k] = map[into[k]]
  BY <1>1, <1>3
<1>7. ASSUME NEW k \in 1..Len(pruned), NEW l \in 1..Len(pruned), k < l
      PROVE  into[k] < into[l]
  <2>1. over + k < over + l /\ over + k \in 1..n /\ over + l \in 1..n
    BY <1>3, <1>7
  <2> QED
    BY <1>1, <2>1
<1> HIDE DEF into
<1>8. PartOf(pruned, map)
  BY <1>3, <1>5, <1>6, <1>7 DEF PartOf
<1> QED
  BY <1>4, <1>8 DEF live, pruned

\* A token drawn now goes to the end of the Map it is set in.
LEMMA OrderedAppend ==
  ASSUME NEW d \in Nat, NEW top \in Nat, NEW map, Ordered(map, d, top),
         NEW e \in Entry, e.id = d + 1, e.expires = top
  PROVE  Ordered(Append(map, e), d + 1, top)
<1> DEFINE n == Len(map)
           new == Append(map, e)
<1>1. map \in Seq(Entry) /\ n \in Nat
  BY DEF Ordered
<1>2. /\ new \in Seq(Entry) /\ Len(new) = n + 1
      /\ \A i \in 1..n : new[i] = map[i]
      /\ new[n + 1] = e
  BY <1>1
<1>3. \A i \in 1..(n + 1) : i \in 1..n \/ i = n + 1
  BY <1>1
<1>4. \A i \in 1..n : map[i].id \in 1..d /\ map[i].expires \in Nat /\ map[i].expires <= top
  <2>1. \A i \in 1..n : map[i] \in Entry
    BY <1>1
  <2> QED
    BY <2>1 DEF Ordered, Entry
<1>5. \A i \in 1..(n + 1) : new[i].id \in 1..(d + 1) /\ new[i].expires <= top
  BY <1>2, <1>3, <1>4
<1>6. ASSUME NEW i \in 1..(n + 1), NEW j \in 1..(n + 1), i < j
      PROVE  new[i].id < new[j].id /\ new[i].expires <= new[j].expires
  <2>1. i \in 1..n
    BY <1>1, <1>6
  <2>2. CASE j \in 1..n
    BY <1>2, <1>6, <2>1, <2>2 DEF Ordered
  <2>3. CASE j = n + 1
    BY <1>2, <1>4, <2>1, <2>3
  <2> QED
    BY <1>3, <2>2, <2>3
<1> HIDE DEF new
<1> QED
  BY <1>2, <1>5, <1>6 DEF Ordered, new

\* The places of the entries drawn after t.
Later(map, t) == {i \in DOMAIN map : map[i].id > t.id}

\* What a client may count on for its token t: it is in the Map, or MapCap tokens of
\* later logins are.
KeptFor(map, t) ==
  \/ \E i \in 1..Len(map) : map[i] = t
  \/ Cardinality(Later(map, t)) >= MapCap

\* The entries drawn after t are alive while t is, and come after the first m live
\* entries if those were drawn before t.
LEMMA LaterAreLive ==
  ASSUME NEW map \in Seq(Entry), NEW t \in Entry, Alive(t), clock \in Int,
         \A i \in 1..Len(map) : map[i].id > t.id => map[i].expires >= t.expires,
         NEW m \in 0..Len(Live(map)),
         \A k \in 1..m : ~(Live(map)[k].id > t.id)
  PROVE  Cardinality(Later(map, t)) <= Len(Live(map)) - m
<1> DEFINE live == Live(map)
           n == Len(live)
           later == Later(map, t)
<1>1. n \in Nat /\ m \in Nat /\ DOMAIN map = 1..Len(map)
  BY LiveIsPart
<1>2. PICK at \in [1..n -> 1..Len(map)] :
        /\ \A k \in 1..n : live[k] = map[at[k]] /\ Alive(map[at[k]])
        /\ \A k, l \in 1..n : k < l => at[k] < at[l]
        /\ \A i \in 1..Len(map) : Alive(map[i]) => \E k \in 1..n : at[k] = i
  BY LiveIsPart, Zenon
<1> DEFINE f == [i \in later |-> CHOOSE k \in 1..n : at[k] = i]
<1>3. ASSUME NEW i \in later
      PROVE  f[i] \in (m + 1)..n /\ at[f[i]] = i
  <2>1. i \in 1..Len(map) /\ map[i].id > t.id
    BY <1>1 DEF Later
  <2>2. map[i] \in Entry
    BY <2>1
  <2>3. Alive(map[i])
    <3>1. map[i].expires \in Int /\ t.expires \in Int
      BY <2>2 DEF Entry
    <3> QED
      BY <2>1, <3>1 DEF Alive
  <2>4. f[i] \in 1..n /\ at[f[i]] = i
    <3>1. \E k \in 1..n : at[k] = i
      BY <1>2, <2>1, <2>3
    <3> QED
      BY <3>1
  <2> HIDE DEF f, n
  <2>5. f[i] \notin 1..m
    <3>1. live[f[i]].id > t.id
      BY <1>2, <2>1, <2>4
    <3> QED
      BY <3>1
  <2> QED
    BY <1>1, <2>4, <2>5
<1> HIDE DEF n
<1>4. f \in [later -> (m + 1)..n]
  <2>1. f = [i \in later |-> f[i]]
    OBVIOUS
  <2> HIDE DEF f
  <2> QED
    BY <1>3, <2>1
<1> HIDE DEF f, later
<1>5. f \in Injection(later, (m + 1)..n)
  BY <1>3, <1>4 DEF Injection, IsInjective
<1>6. IsFiniteSet((m + 1)..n) /\ Cardinality((m + 1)..n) = n - m
  <2>1. m + 1 \in Int /\ n \in Int /\ m <= n
    BY <1>1 DEF n
  <2> DEFINE first == m + 1
  <2>2. /\ IsFiniteSet(first..n)
        /\ Cardinality(first..n) = IF first > n THEN 0 ELSE n - first + 1
    <3> HIDE DEF first
    <3> QED
      BY <2>1, FS_Interval DEF first
  <2>3. (IF first > n THEN 0 ELSE n - first + 1) = n - m
    BY <1>1, <2>1
  <2> QED
    BY <2>2, <2>3
<1>7. Cardinality(later) <= n - m
  BY <1>5, <1>6, FS_Injection
<1> QED
  BY <1>7 DEF n, later

\* What has not expired stays, in the table and in the Map a new process reads from it.
LEMMA AliveStays ==
  ASSUME NEW map \in Seq(Entry), NEW t, Alive(t), \E i \in 1..Len(map) : map[i] = t
  PROVE  \E k \in 1..Len(Live(map)) : Live(map)[k] = t
<1> DEFINE live == Live(map)
           n == Len(live)
<1>1. PICK at \in [1..n -> 1..Len(map)] :
        /\ \A k \in 1..n : live[k] = map[at[k]] /\ Alive(map[at[k]])
        /\ \A k, l \in 1..n : k < l => at[k] < at[l]
        /\ \A i \in 1..Len(map) : Alive(map[i]) => \E k \in 1..n : at[k] = i
  BY LiveIsPart, Zenon
<1> HIDE DEF live, n
<1>2. \E k \in 1..n : live[k] = t
  BY <1>1
<1> QED
  BY <1>2 DEF live, n

\* The places of a new Map of MapCap entries, all drawn after t.
LEMMA AllLater ==
  ASSUME NEW map \in Seq(Entry), NEW t, Len(map) = MapCap,
         \A i \in 1..Len(map) : map[i].id > t.id
  PROVE  KeptFor(map, t)
<1>1. Later(map, t) = 1..MapCap
  BY DEF Later
<1>2. Cardinality(1..MapCap) = MapCap
  BY SessionBoundsAssumption, FS_Interval
<1> QED
  BY <1>1, <1>2, SessionBoundsAssumption DEF KeptFor

\* A login prunes the Map and sets its token: it puts t out only where MapCap later
\* tokens take its place.
LEMMA LoginKeepsTold ==
  ASSUME NEW d \in Nat, NEW top, NEW map, Ordered(map, d, top), NEW t \in Entry, Alive(t),
         clock \in Int, NEW e \in Entry, e.id > t.id,
         \A i \in 1..Len(map) : map[i].id > t.id => map[i].expires >= t.expires,
         KeptFor(map, t)
  PROVE  KeptFor(Append(Pruned(map), e), t)
<1> DEFINE live == Live(map)
           pruned == Pruned(map)
           new == Append(pruned, e)
           n == Len(live)
           c == Len(pruned)
           over == IF n < MapCap THEN 0 ELSE n - MapCap + 1
<1>1. map \in Seq(Entry) /\ MapCap \in Nat \ {0} /\ t.id \in Int
  BY SessionBoundsAssumption DEF Ordered, Entry
<1>2. /\ pruned \in Seq(Entry) /\ over \in Nat /\ n \in Nat /\ c = n - over
      /\ c \in Nat /\ c < MapCap
      /\ \A k \in 1..c : over + k \in 1..n /\ pruned[k] = live[over + k]
  BY <1>1, PrunedIsPart
<1>3. Ordered(live, d, top)
  BY <1>1, PruningLeavesPart, OrderedPart
<1>4. \A k \in 1..n : live[k].id \in Int
  BY <1>3 DEF Ordered
<1>5. \A k, l \in 1..n : k < l => live[k].id < live[l].id
  BY <1>3 DEF Ordered
<1>6. \A m \in 0..n : (\A k \in 1..m : ~(live[k].id > t.id)) => Cardinality(Later(map, t)) <= n - m
  BY <1>1, LaterAreLive
<1>7. ASSUME NEW i \in 1..Len(map), map[i] = t PROVE \E k \in 1..n : live[k] = t
  BY <1>1, <1>7, AliveStays
<1>8. Cardinality(Later(map, t)) \in Int
  <2>1. Later(map, t) \in SUBSET (1..Len(map)) /\ Len(map) \in Nat
    BY <1>1 DEF Later
  <2>2. IsFiniteSet(1..Len(map))
    BY <2>1, FS_Interval
  <2>3. Cardinality(Later(map, t)) \in Nat
    BY <2>1, <2>2, FS_Subset, FS_CardinalityType
  <2> QED
    BY <2>3
<1>9. /\ new \in Seq(Entry) /\ Len(new) = c + 1 /\ new[c + 1] = e
      /\ \A k \in 1..c : new[k] = pruned[k]
  BY <1>2
<1>10. over = (IF n < MapCap THEN 0 ELSE n - MapCap + 1)
  OBVIOUS
<1> HIDE DEF live, pruned, new, n, c, over
<1>11. ASSUME NEW p \in 1..n, live[p] = t, over < p PROVE KeptFor(new, t)
  <2> DEFINE k == p - over
  <2>1. k \in 1..c /\ over + k = p
    BY <1>2, <1>11
  <2>2. k \in 1..Len(new) /\ new[k] = t
    BY <1>2, <1>9, <1>11, <2>1
  <2> QED
    BY <2>2 DEF KeptFor
<1>12. ASSUME ~(n < MapCap), \A k \in 1..c : pruned[k].id > t.id PROVE KeptFor(new, t)
  <2>1. Len(new) = MapCap
    BY <1>1, <1>2, <1>9, <1>10, <1>12
  <2>2. \A k \in 1..(c + 1) : k \in 1..c \/ k = c + 1
    BY <1>2
  <2>3. \A k \in 1..Len(new) : new[k].id > t.id
    BY <1>9, <1>12, <2>2
  <2> QED
    BY <1>9, <2>1, <2>3, AllLater
<1>13. ASSUME NEW p \in 1..n, live[p] = t PROVE KeptFor(new, t)
  <2>1. ASSUME ~(over < p) PROVE KeptFor(new, t)
    <3>1. ~(n < MapCap)
      BY <1>2, <1>10, <2>1
    <3>2. ASSUME NEW k \in 1..c PROVE pruned[k].id > t.id
      <4>1. over + k \in 1..n /\ p < over + k /\ pruned[k] = live[over + k]
        BY <1>2, <2>1
      <4>2. live[p].id < live[over + k].id /\ live[p].id \in Int /\ live[over + k].id \in Int
        BY <1>4, <1>5, <4>1
      <4> QED
        BY <1>13, <4>1, <4>2
    <3> QED
      BY <1>12, <3>1, <3>2
  <2> QED
    BY <1>11, <1>13, <2>1
<1>14. ASSUME Cardinality(Later(map, t)) >= MapCap PROVE KeptFor(new, t)
  <2>1. ~(n < MapCap)
    <3>1. Cardinality(Later(map, t)) <= n - 0
      BY <1>2, <1>6
    <3> QED
      BY <1>1, <1>2, <1>8, <1>14, <3>1
  <2>2. ASSUME NEW k \in 1..c, ~(pruned[k].id > t.id) PROVE FALSE
    <3> DEFINE m == over + k
    <3>1. m \in 1..n /\ live[m] = pruned[k] /\ n - m < MapCap
      BY <1>1, <1>2
    <3> HIDE DEF m
    <3>2. ASSUME NEW l \in 1..m PROVE ~(live[l].id > t.id)
      <4>1. l \in 1..n /\ (l = m \/ l < m)
        BY <1>2, <3>1
      <4>2. live[l].id \in Int /\ live[m].id \in Int /\ (l = m \/ live[l].id < live[m].id)
        BY <1>4, <1>5, <3>1, <4>1
      <4> QED
        BY <1>1, <2>2, <3>1, <4>2
    <3>3. m \in 0..n
      BY <1>2, <3>1
    <3>4. Cardinality(Later(map, t)) <= n - m
      BY <1>6, <3>2, <3>3
    <3> QED
      BY <1>1, <1>2, <1>8, <1>14, <3>1, <3>3, <3>4
  <2> QED
    BY <1>12, <2>1, <2>2
<1>15. KeptFor(new, t)
  BY <1>7, <1>13, <1>14 DEF KeptFor
<1> QED
  BY <1>15 DEF new, pruned

-----------------------------------------------------------------------------
(* The inductive invariant *)

\* A nonce that can still be signed is in one entry and has logged nobody in.
NoncesUnused ==
  /\ Len(nonces) <= MapCap
  /\ \A i \in 1..Len(nonces) :
       /\ nonces[i].id \in 1..drawn
       /\ \A k \in 1..Len(logins) : logins[k] # nonces[i].id
  /\ \A i, j \in 1..Len(nonces) : nonces[i].id = nonces[j].id => i = j

\* The nonces that logged somebody in were drawn, and differ.
LoginsDiffer ==
  /\ \A k \in 1..Len(logins) : logins[k] \in 1..drawn
  /\ \A k, l \in 1..Len(logins) : logins[k] = logins[l] => k = l

\* Tokens are held in the order they were drawn, in the process and in the table.
TokensOrdered ==
  /\ Ordered(tokens, drawn, clock + TokenTtl)
  /\ Ordered(sessions, drawn, clock + TokenTtl)

\* A token drawn after another expires no earlier.
LaterOutlive(map, t) ==
  \A i \in 1..Len(map) : map[i].id > t.id => map[i].expires >= t.expires

\* What a client knows of its token: it was drawn, it is in the table until it expires,
\* and in the process unless MapCap later ones are.
ToldHeld ==
  \A t \in told :
    /\ t.id \in 1..drawn /\ t.expires <= clock + TokenTtl
    /\ LaterOutlive(tokens, t) /\ LaterOutlive(sessions, t)
    /\ Alive(t) => /\ \E i \in 1..Len(sessions) : sessions[i] = t
                   /\ KeptFor(tokens, t)

SInv == SessionsTypeOK /\ NoncesUnused /\ LoginsDiffer /\ TokensOrdered /\ ToldHeld

\* Deleting entries and setting a token drawn now puts no entry after t that expires
\* before it.
LEMMA LaterOutliveSet ==
  ASSUME NEW map, NEW part, PartOf(part, map), NEW e \in Entry, NEW t \in Entry,
         LaterOutlive(map, t), e.expires >= t.expires
  PROVE  LaterOutlive(part, t) /\ LaterOutlive(Append(part, e), t)
<1> DEFINE n == Len(part)
           new == Append(part, e)
<1>1. part \in Seq(Entry) /\ n \in Nat
  BY DEF PartOf
<1>2. Len(new) = n + 1 /\ new[n + 1] = e /\ \A i \in 1..n : new[i] = part[i]
  BY <1>1
<1>3. \A i \in 1..(n + 1) : i \in 1..n \/ i = n + 1
  BY <1>1
<1>4. LaterOutlive(part, t)
  BY DEF PartOf, LaterOutlive
<1> HIDE DEF new
<1>5. LaterOutlive(new, t)
  BY <1>2, <1>3, <1>4 DEF LaterOutlive
<1> QED
  BY <1>4, <1>5 DEF new

\* Map.delete of some entries.
LEMMA OnlyIsPart ==
  ASSUME NEW map \in Seq(Entry), NEW I \in SUBSET DOMAIN map
  PROVE  /\ PartOf(Only(map, I), map)
         /\ Len(Only(map, I)) <= Len(map)
         /\ \A k \in 1..Len(Only(map, I)) : \E i \in I : Only(map, I)[k] = map[i]
<1> DEFINE only == Only(map, I)
           c == Cardinality(I)
<1>1. /\ only \in Seq(Entry) /\ Len(only) = c /\ c \in Nat /\ c <= Len(map)
      /\ \E at \in [1..c -> I] :
           /\ \A k \in 1..c : only[k] = map[at[k]]
           /\ \A k, l \in 1..c : k < l => at[k] < at[l]
           /\ \A i \in I : \E k \in 1..c : at[k] = i
  BY OnlyKeepsOrder
<1> HIDE DEF c, only
<1>2. PICK at \in [1..c -> I] :
        /\ \A k \in 1..c : only[k] = map[at[k]]
        /\ \A k, l \in 1..c : k < l => at[k] < at[l]
        /\ \A i \in I : \E k \in 1..c : at[k] = i
  BY <1>1
<1>3. DOMAIN map = 1..Len(map)
  OBVIOUS
<1>4. /\ at \in [1..Len(only) -> 1..Len(map)]
      /\ \A k \in 1..Len(only) : only[k] = map[at[k]]
      /\ \A k, l \in 1..Len(only) : k < l => at[k] < at[l]
  BY <1>1, <1>2, <1>3
<1>5. PartOf(only, map)
  BY <1>1, <1>4, Zenon DEF PartOf
<1>6. \A k \in 1..Len(only) : \E i \in I : only[k] = map[i]
  BY <1>1, <1>2
<1> QED
  BY <1>1, <1>5, <1>6 DEF only

\* Map.set by wallet: the entry is at one place and every other place is as it was.
LEMMA SetNonceSets ==
  ASSUME NEW map \in Seq(Entry), NEW e \in Entry
  PROVE  LET new == SetNonce(map, e) IN
         /\ new \in Seq(Entry) /\ Len(new) \in Nat /\ Len(new) <= Len(map) + 1
         /\ \E p \in 1..Len(new) :
              /\ new[p] = e
              /\ \A i \in 1..Len(new) : i # p => i \in 1..Len(map) /\ new[i] = map[i]
<1> DEFINE new == SetNonce(map, e)
           n == Len(map)
<1>0. n \in Nat
  OBVIOUS
<1>1. CASE At(map, e.wallet) = {}
  <2>1. new = Append(map, e)
    BY <1>1 DEF SetNonce
  <2> HIDE DEF new
  <2>2. new \in Seq(Entry) /\ Len(new) = n + 1 /\ new[n + 1] = e
    BY <2>1
  <2>3. \A i \in 1..(n + 1) : i # n + 1 => i \in 1..n /\ new[i] = map[i]
    BY <2>1
  <2>4. n + 1 \in 1..(n + 1) /\ n + 1 \in Nat /\ n + 1 <= n + 1
    BY <1>0
  <2> QED
    BY <2>2, <2>3, <2>4 DEF new
<1>2. CASE At(map, e.wallet) # {}
  <2> DEFINE p == CHOOSE i \in At(map, e.wallet) : TRUE
  <2>1. new = [map EXCEPT ![p] = e]
    BY <1>2 DEF SetNonce
  <2>2. p \in 1..n
    <3>1. At(map, e.wallet) \in SUBSET (1..n)
      BY DEF At
    <3>2. p \in At(map, e.wallet)
      BY <1>2
    <3> QED
      BY <3>1, <3>2
  <2> HIDE DEF new, p
  <2>3. new \in Seq(Entry) /\ Len(new) = n /\ new[p] = e
    BY <2>1, <2>2
  <2>4. \A i \in 1..n : i # p => new[i] = map[i]
    BY <2>1, <2>2
  <2> QED
    BY <1>0, <2>2, <2>3, <2>4 DEF new
<1> QED
  BY <1>1, <1>2

\* What the invariant says of one Map of nonces: ids drawn up to d, one place each, and
\* none of them used.
Unused(map, d, used) ==
  /\ map \in Seq(Entry)
  /\ \A i \in 1..Len(map) :
       /\ map[i].id \in 1..d
       /\ \A k \in 1..Len(used) : used[k] # map[i].id
  /\ \A i, j \in 1..Len(map) : map[i].id = map[j].id => i = j

\* Deleting nonces leaves such a Map.
LEMMA UnusedPart ==
  ASSUME NEW map, NEW d, NEW used, Unused(map, d, used), NEW part, PartOf(part, map)
  PROVE  Unused(part, d, used)
<1> DEFINE n == Len(part)
<1>1. PICK at \in [1..n -> 1..Len(map)] :
        /\ \A k \in 1..n : part[k] = map[at[k]]
        /\ \A k, l \in 1..n : k < l => at[k] < at[l]
  BY DEF PartOf
<1>2. part \in Seq(Entry) /\ n \in Nat /\ Len(map) \in Nat
  BY DEF PartOf, Unused
<1>3. \A k \in 1..n : /\ part[k].id \in 1..d
                      /\ \A u \in 1..Len(used) : used[u] # part[k].id
  BY <1>1 DEF Unused
<1>4. ASSUME NEW k \in 1..n, NEW l \in 1..n, part[k].id = part[l].id PROVE k = l
  <2>1. at[k] \in 1..Len(map) /\ at[l] \in 1..Len(map)
    BY <1>1
  <2>2. at[k] = at[l]
    BY <1>1, <1>4, <2>1 DEF Unused
  <2>3. ~(at[k] < at[l]) /\ ~(at[l] < at[k])
    BY <1>2, <2>1, <2>2
  <2>4. ~(k < l) /\ ~(l < k)
    BY <1>1, <2>3
  <2> QED
    BY <1>2, <2>4
<1> QED
  BY <1>2, <1>3, <1>4 DEF Unused

\* A nonce drawn now can be set in it.
LEMMA UnusedSet ==
  ASSUME NEW d \in Nat, NEW map, NEW used, Unused(map, d, used),
         \A k \in 1..Len(used) : used[k] \in 1..d,
         NEW e \in Entry, e.id = d + 1
  PROVE  /\ Unused(SetNonce(map, e), d + 1, used)
         /\ Len(SetNonce(map, e)) \in Nat /\ Len(SetNonce(map, e)) <= Len(map) + 1
<1> DEFINE new == SetNonce(map, e)
           n == Len(new)
<1>1. new \in Seq(Entry) /\ n \in Nat /\ n <= Len(map) + 1
  BY SetNonceSets DEF Unused
<1>2. PICK p \in 1..n : /\ new[p] = e
                        /\ \A i \in 1..n : i # p => i \in 1..Len(map) /\ new[i] = map[i]
  BY SetNonceSets DEF Unused
<1> HIDE DEF new, n
<1>3. \A i \in 1..n : i # p => /\ i \in 1..Len(map) /\ new[i].id = map[i].id
                               /\ map[i].id \in 1..d
  BY <1>2 DEF Unused
<1>4. \A i \in 1..n : new[i].id \in 1..(d + 1)
  BY <1>2, <1>3
<1>5. \A i \in 1..n : \A k \in 1..Len(used) : used[k] # new[i].id
  BY <1>2, <1>3 DEF Unused
<1>6. ASSUME NEW i \in 1..n, NEW j \in 1..n, new[i].id = new[j].id PROVE i = j
  <2>1. CASE i # p /\ j # p
    BY <1>3, <1>6, <2>1 DEF Unused
  <2>2. CASE i = p /\ j # p
    BY <1>2, <1>3, <1>6, <2>2
  <2>3. CASE i # p /\ j = p
    BY <1>2, <1>3, <1>6, <2>3
  <2> QED
    BY <2>1, <2>2, <2>3
<1> QED
  BY <1>1, <1>4, <1>5, <1>6 DEF Unused, new, n

\* The initial state satisfies the invariant.
LEMMA SInitOK == SessionsInit => SInv
<1> SUFFICES ASSUME SessionsInit PROVE SInv
  OBVIOUS
<1> USE DEF SessionsInit
<1>1. SessionsTypeOK
  BY SessionBoundsAssumption DEF SessionsTypeOK
<1>2. NoncesUnused /\ LoginsDiffer
  BY SessionBoundsAssumption DEF NoncesUnused, LoginsDiffer
<1>3. TokensOrdered
  BY DEF TokensOrdered, Ordered
<1>4. ToldHeld
  BY DEF ToldHeld
<1> QED
  BY <1>1, <1>2, <1>3, <1>4 DEF SInv

\* The arithmetic the steps share.
LEMMA SessionNumbers ==
  ASSUME SInv
  PROVE  /\ clock \in Nat /\ drawn \in Nat /\ boots \in Nat
         /\ clock + TokenTtl \in Nat /\ clock + NonceTtl \in Nat
         /\ MapCap \in Nat \ {0}
         /\ Unused(nonces, drawn, logins)
         /\ Len(nonces) \in Nat /\ Len(logins) \in Nat
         /\ \A t \in told : t \in Entry /\ t.id \in Int /\ t.expires \in Int
<1>1. /\ clock \in Nat /\ drawn \in Nat /\ boots \in Nat
      /\ clock + TokenTtl \in Nat /\ clock + NonceTtl \in Nat
      /\ MapCap \in Nat \ {0} /\ Len(nonces) \in Nat /\ Len(logins) \in Nat
  BY SessionBoundsAssumption DEF SInv, SessionsTypeOK
<1>2. Unused(nonces, drawn, logins)
  BY DEF SInv, SessionsTypeOK, NoncesUnused, Unused
<1>3. \A t \in told : t \in Entry /\ t.id \in Int /\ t.expires \in Int
  BY DEF SInv, SessionsTypeOK, Entry
<1> QED
  BY <1>1, <1>2, <1>3

\* issueNonce keeps the invariant.
LEMMA IssueKeeps ==
  ASSUME SInv, NEW w \in Wallets, IssueNonce(w)
  PROVE  SInv' /\ Len(nonces') <= MapCap
<1> DEFINE e == [id |-> drawn + 1, wallet |-> w, expires |-> clock + NonceTtl]
           pruned == Pruned(nonces)
<1>0. /\ clock \in Nat /\ drawn \in Nat /\ clock + NonceTtl \in Nat /\ MapCap \in Nat \ {0}
      /\ Unused(nonces, drawn, logins)
  BY SessionNumbers
<1>1. e \in Entry /\ e.id = drawn + 1
  BY <1>0 DEF Entry
<1>2. nonces' = SetNonce(pruned, e) /\ drawn' = drawn + 1 /\ drawn < MaxDraws
  BY DEF IssueNonce
<1>3. UNCHANGED <<tokens, sessions, clock, boots, told, logins>>
  BY DEF IssueNonce
<1>4. PartOf(pruned, nonces) /\ Len(pruned) < MapCap /\ Len(pruned) \in Nat
  BY <1>0, PruningLeavesPart, PrunedIsPart DEF Unused
<1> HIDE DEF e, pruned
<1>5. Unused(pruned, drawn, logins)
  BY <1>0, <1>4, UnusedPart
<1>6. /\ Unused(nonces', drawn', logins')
      /\ Len(nonces') \in Nat /\ Len(nonces') <= Len(pruned) + 1
  <2>1. \A k \in 1..Len(logins) : logins[k] \in 1..drawn
    BY DEF SInv, LoginsDiffer
  <2> QED
    BY <1>0, <1>1, <1>2, <1>3, <1>5, <2>1, UnusedSet
<1>7. Len(nonces') <= MapCap
  BY <1>0, <1>4, <1>6
<1>8. SessionsTypeOK'
  BY <1>0, <1>2, <1>3, <1>6, SessionBoundsAssumption DEF SInv, SessionsTypeOK, Unused
<1>9. NoncesUnused'
  BY <1>6, <1>7 DEF NoncesUnused, Unused
<1>10. LoginsDiffer'
  BY <1>0, <1>2, <1>3 DEF SInv, LoginsDiffer
<1>11. TokensOrdered'
  BY <1>0, <1>2, <1>3 DEF SInv, TokensOrdered, Ordered
<1>12. ToldHeld'
  <2> SUFFICES ASSUME NEW t \in told
               PROVE  /\ t.id \in 1..drawn' /\ t.expires <= clock + TokenTtl
                      /\ LaterOutlive(tokens, t) /\ LaterOutlive(sessions, t)
                      /\ Alive(t) => /\ \E i \in 1..Len(sessions) : sessions[i] = t
                                     /\ KeptFor(tokens, t)
    BY <1>3 DEF ToldHeld, LaterOutlive, Alive, KeptFor, Later
  <2> QED
    BY <1>0, <1>2 DEF SInv, ToldHeld
<1> QED
  BY <1>7, <1>8, <1>9, <1>10, <1>11, <1>12 DEF SInv

\* A login uses up the nonce it was signed with, and no nonce that is left is that one.
LEMMA LoginUsesNonce ==
  ASSUME SInv, NEW w \in Wallets, NEW by \in Wallets, NEW n \in 1..MaxDraws,
         MayLogIn(w, by, n), TakesNonce(w, n)
  PROVE  /\ nonces' \in Seq(Entry) /\ NoncesUnused' /\ LoginsDiffer'
         /\ logins' \in Seq(1..MaxDraws)
<1> DEFINE rest == DOMAIN nonces \ At(nonces, w)
           only == Only(nonces, rest)
<1>0. /\ drawn \in Nat /\ MapCap \in Nat \ {0} /\ Unused(nonces, drawn, logins)
      /\ Len(nonces) \in Nat /\ Len(logins) \in Nat
  BY SessionNumbers
<1>1. /\ nonces' = only /\ drawn' = drawn + 1 /\ logins' = Append(logins, n)
      /\ logins \in Seq(1..MaxDraws) /\ nonces \in Seq(Entry)
  BY DEF TakesNonce, SInv, SessionsTypeOK
<1>2. PICK i \in At(nonces, w) : nonces[i].id = n
  BY DEF MayLogIn, Signed
<1>3. i \in 1..Len(nonces) /\ DOMAIN nonces = 1..Len(nonces)
  BY <1>1, <1>2 DEF At
<1>4. /\ PartOf(only, nonces) /\ Len(only) <= Len(nonces)
      /\ \A k \in 1..Len(only) : \E j \in rest : only[k] = nonces[j]
  <2>1. rest \in SUBSET DOMAIN nonces
    OBVIOUS
  <2> HIDE DEF rest
  <2> QED
    BY <1>1, <2>1, OnlyIsPart
<1>5. Unused(only, drawn, logins)
  BY <1>0, <1>4, UnusedPart
<1> HIDE DEF only
<1>6. ASSUME NEW k \in 1..Len(only) PROVE only[k].id # n
  <2>1. PICK j \in rest : only[k] = nonces[j]
    BY <1>4
  <2>2. j \in 1..Len(nonces) /\ j # i
    BY <1>2, <1>3, <2>1
  <2> QED
    BY <1>0, <1>2, <1>3, <2>1, <2>2 DEF Unused
<1>7. \A k \in 1..Len(logins) : logins[k] \in 1..drawn /\ logins[k] # n
  BY <1>0, <1>2, <1>3 DEF SInv, LoginsDiffer, Unused
<1>8. /\ logins' \in Seq(1..MaxDraws) /\ Len(logins') = Len(logins) + 1
      /\ logins'[Len(logins) + 1] = n
      /\ \A k \in 1..Len(logins) : logins'[k] = logins[k]
  BY <1>1
<1>9. \A k \in 1..(Len(logins) + 1) : k \in 1..Len(logins) \/ k = Len(logins) + 1
  BY <1>0
<1>10. n \in 1..drawn
  BY <1>0, <1>2, <1>3 DEF Unused
<1>11. LoginsDiffer'
  <2>1. \A k \in 1..(Len(logins) + 1) : logins'[k] \in 1..(drawn + 1)
    BY <1>0, <1>7, <1>8, <1>9, <1>10
  <2>2. \A k, l \in 1..(Len(logins) + 1) : logins'[k] = logins'[l] => k = l
    BY <1>7, <1>8, <1>9 DEF SInv, LoginsDiffer
  <2> QED
    BY <1>1, <1>8, <2>1, <2>2 DEF LoginsDiffer
<1>12. NoncesUnused'
  <2>1. Len(only) <= MapCap
    BY <1>0, <1>4, <1>5 DEF SInv, NoncesUnused, Unused
  <2>2. \A k \in 1..Len(only) : only[k].id \in 1..(drawn + 1)
    BY <1>0, <1>5 DEF Unused
  <2>3. \A k \in 1..Len(only) : \A u \in 1..(Len(logins) + 1) : logins'[u] # only[k].id
    BY <1>5, <1>6, <1>8, <1>9 DEF Unused
  <2>4. \A k, l \in 1..Len(only) : only[k].id = only[l].id => k = l
    BY <1>5 DEF Unused
  <2> QED
    BY <1>1, <1>8, <2>1, <2>2, <2>3, <2>4 DEF NoncesUnused
<1> QED
  BY <1>1, <1>5, <1>8, <1>11, <1>12 DEF Unused

\* What login does to the tokens of the process and to those of clients.
LEMMA LoginSetsToken ==
  ASSUME SInv, NEW w \in Wallets, NEW by \in Wallets, NEW n \in 1..MaxDraws,
         TakesNonce(w, n), clock' = clock
  PROVE  /\ tokens' \in Seq(Entry) /\ Len(tokens') <= MapCap
         /\ Ordered(tokens', drawn + 1, clock + TokenTtl)
         /\ Ordered(Live(sessions), drawn + 1, clock + TokenTtl)
         /\ Ordered(Append(Live(sessions), TokenOf(w)), drawn + 1, clock + TokenTtl)
         /\ \A t \in told :
              /\ LaterOutlive(tokens', t) /\ LaterOutlive(Live(sessions), t)
              /\ LaterOutlive(Append(Live(sessions), TokenOf(w)), t)
              /\ Alive(t) => /\ KeptFor(tokens', t)
                             /\ \E i \in 1..Len(Live(sessions)) : Live(sessions)[i] = t
<1> DEFINE e == TokenOf(w)
           pruned == Pruned(tokens)
           live == Live(sessions)
           d == drawn
           top == clock + TokenTtl
<1>0. /\ d \in Nat /\ top \in Nat /\ clock \in Nat /\ MapCap \in Nat \ {0}
      /\ \A t \in told : t \in Entry /\ t.id \in Int /\ t.expires \in Int
  BY SessionNumbers
<1>1. e \in Entry /\ e.id = d + 1 /\ e.expires = top
  BY <1>0 DEF Entry, TokenOf
<1>2. tokens' = Append(pruned, e)
  BY DEF TakesNonce
<1>3. /\ tokens \in Seq(Entry) /\ sessions \in Seq(Entry)
      /\ Ordered(tokens, d, top) /\ Ordered(sessions, d, top)
  BY DEF SInv, SessionsTypeOK, TokensOrdered
<1>4. /\ PartOf(pruned, tokens) /\ PartOf(live, sessions)
      /\ Len(pruned) < MapCap /\ Len(pruned) \in Nat
  BY <1>3, PruningLeavesPart, PrunedIsPart
<1> HIDE DEF e, pruned, live, d, top
<1>5. Ordered(pruned, d, top) /\ Ordered(live, d, top)
  BY <1>3, <1>4, OrderedPart
<1>6. Ordered(tokens', d + 1, top) /\ Ordered(Append(live, e), d + 1, top)
  BY <1>0, <1>1, <1>2, <1>5, OrderedAppend
<1>7. Ordered(live, d + 1, top)
  <2>1. \A x \in 1..d : x \in 1..(d + 1)
    BY <1>0
  <2> QED
    BY <1>5, <2>1 DEF Ordered
<1>8. tokens' \in Seq(Entry) /\ Len(tokens') <= MapCap
  <2>1. pruned \in Seq(Entry)
    BY <1>4 DEF PartOf
  <2> QED
    BY <1>0, <1>1, <1>2, <1>4, <2>1
<1>9. ASSUME NEW t \in told
      PROVE  /\ LaterOutlive(tokens', t) /\ LaterOutlive(live, t)
             /\ LaterOutlive(Append(live, e), t)
             /\ Alive(t) => /\ KeptFor(tokens', t)
                            /\ \E i \in 1..Len(live) : live[i] = t
  <2>1. /\ t \in Entry /\ t.id \in Int /\ t.expires \in Int
        /\ t.id \in 1..d /\ t.expires <= top
        /\ LaterOutlive(tokens, t) /\ LaterOutlive(sessions, t)
        /\ Alive(t) => /\ \E i \in 1..Len(sessions) : sessions[i] = t
                       /\ KeptFor(tokens, t)
    BY <1>0 DEF SInv, ToldHeld, d, top
  <2>2. e.id > t.id /\ e.expires >= t.expires
    BY <1>0, <1>1, <2>1
  <2>3. /\ LaterOutlive(tokens', t) /\ LaterOutlive(live, t)
        /\ LaterOutlive(Append(live, e), t)
    BY <1>1, <1>2, <1>4, <2>1, <2>2, LaterOutliveSet
  <2>4. ASSUME Alive(t) PROVE KeptFor(tokens', t)
    <3>1. \A i \in 1..Len(tokens) : tokens[i].id > t.id => tokens[i].expires >= t.expires
      BY <2>1 DEF LaterOutlive
    <3>2. KeptFor(Append(Pruned(tokens), e), t)
      BY <1>0, <1>1, <1>3, <2>1, <2>2, <2>4, <3>1, LoginKeepsTold
    <3> QED
      BY <1>2, <3>2 DEF pruned
  <2>5. ASSUME Alive(t) PROVE \E i \in 1..Len(live) : live[i] = t
    BY <1>3, <2>1, <2>5, AliveStays DEF live
  <2> QED
    BY <2>3, <2>4, <2>5
<1> QED
  BY <1>6, <1>7, <1>8, <1>9 DEF e, live, d, top

\* What both outcomes of a login share.
LEMMA LoginShared ==
  ASSUME SInv, NEW w \in Wallets, NEW by \in Wallets, NEW n \in 1..MaxDraws,
         MayLogIn(w, by, n), TakesNonce(w, n), UNCHANGED <<clock, boots>>,
         sessions' \in {Live(sessions), Append(Live(sessions), TokenOf(w))},
         told' \subseteq Entry
  PROVE  /\ SessionsTypeOK' /\ NoncesUnused' /\ LoginsDiffer' /\ TokensOrdered'
         /\ Len(nonces') <= MapCap /\ Len(tokens') <= MapCap
<1>0. clock \in Nat /\ drawn \in Nat /\ clock + TokenTtl \in Nat
  BY SessionNumbers
<1>1. /\ nonces' \in Seq(Entry) /\ NoncesUnused' /\ LoginsDiffer'
      /\ logins' \in Seq(1..MaxDraws)
  BY LoginUsesNonce
<1>2. /\ tokens' \in Seq(Entry) /\ Len(tokens') <= MapCap
      /\ Ordered(tokens', drawn + 1, clock + TokenTtl)
      /\ Ordered(Live(sessions), drawn + 1, clock + TokenTtl)
      /\ Ordered(Append(Live(sessions), TokenOf(w)), drawn + 1, clock + TokenTtl)
  BY LoginSetsToken
<1>3. drawn' = drawn + 1 /\ drawn < MaxDraws
  BY DEF TakesNonce
<1>4. TokensOrdered'
  BY <1>2, <1>3 DEF TokensOrdered, Ordered
<1>5. SessionsTypeOK'
  <2>1. sessions' \in Seq(Entry)
    BY <1>2 DEF Ordered
  <2>2. drawn' \in 0..MaxDraws /\ boots' \in 1..MaxBoots /\ clock' \in 0..MaxClock
    BY <1>0, <1>3, SessionBoundsAssumption DEF SInv, SessionsTypeOK
  <2> QED
    BY <1>1, <1>2, <2>1, <2>2 DEF SessionsTypeOK
<1> QED
  BY <1>1, <1>2, <1>4, <1>5 DEF NoncesUnused

\* Login keeps the invariant: the token the client is told is the last of the Map and
\* of the table.
LEMMA LoginKeeps ==
  ASSUME SInv, NEW w \in Wallets, NEW by \in Wallets, NEW n \in 1..MaxDraws, Login(w, by, n)
  PROVE  SInv' /\ Len(nonces') <= MapCap /\ Len(tokens') <= MapCap
<1> DEFINE e == TokenOf(w)
           live == Live(sessions)
<1>0. /\ clock \in Nat /\ drawn \in Nat /\ clock + TokenTtl \in Nat
      /\ \A t \in told : t \in Entry /\ t.id \in Int /\ t.expires \in Int
  BY SessionNumbers
<1>1. /\ MayLogIn(w, by, n) /\ TakesNonce(w, n) /\ UNCHANGED <<clock, boots>>
      /\ sessions' = Append(live, e) /\ told' = told \cup {e}
      /\ drawn' = drawn + 1 /\ tokens' = Append(Pruned(tokens), e)
  BY DEF Login, TakesNonce
<1>2. e \in Entry /\ e.id = drawn + 1 /\ e.expires = clock + TokenTtl
  BY <1>0 DEF TokenOf, Entry
<1>3. told' \subseteq Entry
  BY <1>0, <1>1, <1>2
<1>4. /\ Ordered(tokens', drawn + 1, clock + TokenTtl)
      /\ Ordered(sessions', drawn + 1, clock + TokenTtl)
      /\ \A t \in told :
           /\ LaterOutlive(tokens', t) /\ LaterOutlive(sessions', t)
           /\ Alive(t) => /\ KeptFor(tokens', t)
                          /\ \E i \in 1..Len(live) : live[i] = t
  BY <1>1, LoginSetsToken
<1>5. /\ SessionsTypeOK' /\ NoncesUnused' /\ LoginsDiffer' /\ TokensOrdered'
      /\ Len(nonces') <= MapCap /\ Len(tokens') <= MapCap
  BY <1>1, <1>3, LoginShared
<1>6. live \in Seq(Entry) /\ Pruned(tokens) \in Seq(Entry)
  BY LiveIsPart, PrunedIsPart DEF SInv, SessionsTypeOK
<1> HIDE DEF e, live
<1>7. /\ Len(sessions') = Len(live) + 1 /\ sessions'[Len(live) + 1] = e
      /\ \A i \in 1..Len(live) : i \in 1..Len(sessions') /\ sessions'[i] = live[i]
      /\ Len(live) + 1 \in 1..Len(sessions')
  BY <1>1, <1>2, <1>6
<1>8. \E i \in 1..Len(tokens') : tokens'[i] = e
  <2> DEFINE pruned == Pruned(tokens)
  <2>1. pruned \in Seq(Entry) /\ tokens' = Append(pruned, e)
    BY <1>1, <1>6
  <2> HIDE DEF pruned
  <2>2. Len(pruned) + 1 \in 1..Len(tokens') /\ tokens'[Len(pruned) + 1] = e
    BY <1>2, <2>1
  <2> QED
    BY <2>2
<1>9. ToldHeld'
  <2> SUFFICES ASSUME NEW t \in told'
               PROVE  /\ t.id \in 1..(drawn + 1) /\ t.expires <= clock + TokenTtl
                      /\ LaterOutlive(tokens', t) /\ LaterOutlive(sessions', t)
                      /\ Alive(t) => /\ \E i \in 1..Len(sessions') : sessions'[i] = t
                                     /\ KeptFor(tokens', t)
    BY <1>1 DEF ToldHeld, LaterOutlive, Alive, KeptFor, Later
  <2>1. CASE t \in told
    <3>1. t.id \in 1..drawn /\ t.expires <= clock + TokenTtl
      BY <2>1 DEF SInv, ToldHeld
    <3>2. t.id \in 1..(drawn + 1)
      BY <1>0, <3>1
    <3>3. Alive(t) => \E i \in 1..Len(sessions') : sessions'[i] = t
      BY <1>4, <1>7, <2>1
    <3> QED
      BY <1>4, <2>1, <3>1, <3>2, <3>3
  <2>2. CASE t = e
    <3>1. t.id \in 1..(drawn + 1) /\ t.expires <= clock + TokenTtl
      BY <1>0, <1>2, <2>2
    <3>2. \A i \in 1..Len(tokens') : ~(tokens'[i].id > t.id)
      BY <1>0, <1>2, <1>4, <2>2 DEF Ordered
    <3>3. \A i \in 1..Len(sessions') : ~(sessions'[i].id > t.id)
      BY <1>0, <1>2, <1>4, <2>2 DEF Ordered
    <3>4. LaterOutlive(tokens', t) /\ LaterOutlive(sessions', t)
      BY <3>2, <3>3 DEF LaterOutlive
    <3>5. \E i \in 1..Len(sessions') : sessions'[i] = t
      BY <1>7, <2>2
    <3>6. KeptFor(tokens', t)
      BY <1>8, <2>2 DEF KeptFor
    <3> QED
      BY <3>1, <3>4, <3>5, <3>6
  <2> QED
    BY <1>1, <2>1, <2>2
<1> QED
  BY <1>5, <1>9 DEF SInv

\* So does a login whose INSERT fails: no client knows its token.
LEMMA LoginStoreFailsKeeps ==
  ASSUME SInv, NEW w \in Wallets, NEW by \in Wallets, NEW n \in 1..MaxDraws,
         LoginStoreFails(w, by, n)
  PROVE  SInv' /\ Len(nonces') <= MapCap /\ Len(tokens') <= MapCap
<1>0. /\ clock \in Nat /\ drawn \in Nat
      /\ \A t \in told : t \in Entry /\ t.id \in Int /\ t.expires \in Int
  BY SessionNumbers
<1>1. /\ MayLogIn(w, by, n) /\ TakesNonce(w, n) /\ UNCHANGED <<clock, boots, told>>
      /\ sessions' = Live(sessions) /\ drawn' = drawn + 1
  BY DEF LoginStoreFails, TakesNonce
<1>2. told' \subseteq Entry
  BY <1>0, <1>1
<1>3. \A t \in told :
        /\ LaterOutlive(tokens', t) /\ LaterOutlive(sessions', t)
        /\ Alive(t) => /\ KeptFor(tokens', t)
                       /\ \E i \in 1..Len(sessions') : sessions'[i] = t
  BY <1>1, LoginSetsToken
<1>4. /\ SessionsTypeOK' /\ NoncesUnused' /\ LoginsDiffer' /\ TokensOrdered'
      /\ Len(nonces') <= MapCap /\ Len(tokens') <= MapCap
  BY <1>1, <1>2, LoginShared
<1>5. ToldHeld'
  <2> SUFFICES ASSUME NEW t \in told
               PROVE  /\ t.id \in 1..(drawn + 1) /\ t.expires <= clock + TokenTtl
                      /\ LaterOutlive(tokens', t) /\ LaterOutlive(sessions', t)
                      /\ Alive(t) => /\ \E i \in 1..Len(sessions') : sessions'[i] = t
                                     /\ KeptFor(tokens', t)
    BY <1>1 DEF ToldHeld, LaterOutlive, Alive, KeptFor, Later
  <2>1. t.id \in 1..drawn /\ t.expires <= clock + TokenTtl
    BY DEF SInv, ToldHeld
  <2>2. t.id \in 1..(drawn + 1)
    BY <1>0, <2>1
  <2> QED
    BY <1>3, <2>1, <2>2
<1> QED
  BY <1>4, <1>5 DEF SInv

\* A new process has the tokens of the table's unexpired rows.
LEMMA RebootKeeps ==
  ASSUME SInv, Reboot
  PROVE  SInv' /\ Len(nonces') <= MapCap
<1> DEFINE live == Live(sessions)
<1>0. clock \in Nat /\ drawn \in Nat /\ boots \in Nat /\ MapCap \in Nat \ {0}
  BY SessionNumbers
<1>1. /\ nonces' = <<>> /\ tokens' = live /\ boots' = boots + 1 /\ boots < MaxBoots
      /\ UNCHANGED <<sessions, clock, drawn, told, logins>>
  BY DEF Reboot
<1>2. sessions \in Seq(Entry) /\ Ordered(sessions, drawn, clock + TokenTtl)
  BY DEF SInv, SessionsTypeOK, TokensOrdered
<1>3. PartOf(live, sessions) /\ live \in Seq(Entry)
  BY <1>2, PruningLeavesPart, LiveIsPart
<1>4. Ordered(live, drawn, clock + TokenTtl)
  BY <1>2, <1>3, OrderedPart
<1>5. SessionsTypeOK'
  BY <1>0, <1>1, <1>3, SessionBoundsAssumption DEF SInv, SessionsTypeOK
<1>6. NoncesUnused' /\ Len(nonces') <= MapCap
  BY <1>0, <1>1 DEF NoncesUnused
<1>7. LoginsDiffer'
  BY <1>1 DEF SInv, LoginsDiffer
<1>8. TokensOrdered'
  BY <1>1, <1>2, <1>4 DEF TokensOrdered, Ordered
<1>9. ToldHeld'
  <2> SUFFICES ASSUME NEW t \in told
               PROVE  /\ t.id \in 1..drawn /\ t.expires <= clock + TokenTtl
                      /\ LaterOutlive(live, t) /\ LaterOutlive(sessions, t)
                      /\ Alive(t) => /\ \E i \in 1..Len(sessions) : sessions[i] = t
                                     /\ KeptFor(live, t)
    BY <1>1 DEF ToldHeld, LaterOutlive, Alive, KeptFor, Later
  <2>1. /\ t.id \in 1..drawn /\ t.expires <= clock + TokenTtl
        /\ LaterOutlive(sessions, t)
        /\ Alive(t) => \E i \in 1..Len(sessions) : sessions[i] = t
    BY DEF SInv, ToldHeld
  <2>2. LaterOutlive(live, t)
    BY <1>3, <2>1 DEF LaterOutlive, PartOf
  <2>3. Alive(t) => \E i \in 1..Len(live) : live[i] = t
    BY <1>2, <2>1, AliveStays
  <2> QED
    BY <2>1, <2>2, <2>3 DEF KeptFor
<1> QED
  BY <1>5, <1>6, <1>7, <1>8, <1>9 DEF SInv

\* The clock only makes tokens expire.
LEMMA ClockKeeps ==
  ASSUME SInv, SessionClock
  PROVE  SInv'
<1>0. /\ clock \in Nat /\ drawn \in Nat /\ clock + TokenTtl \in Nat /\ TokenTtl \in Nat
      /\ \A t \in told : t \in Entry /\ t.id \in Int /\ t.expires \in Int
  BY SessionNumbers, SessionBoundsAssumption
<1>1. /\ clock' = clock + 1 /\ clock < MaxClock
      /\ UNCHANGED <<nonces, tokens, sessions, drawn, boots, told, logins>>
  BY DEF SessionClock
<1>2. SessionsTypeOK'
  BY <1>0, <1>1, SessionBoundsAssumption DEF SInv, SessionsTypeOK
<1>3. NoncesUnused' /\ LoginsDiffer'
  BY <1>1 DEF SInv, NoncesUnused, LoginsDiffer
<1>4. ASSUME NEW map, Ordered(map, drawn, clock + TokenTtl)
      PROVE  Ordered(map, drawn, (clock + 1) + TokenTtl)
  <2>1. \A i \in 1..Len(map) : map[i] \in Entry /\ map[i].expires <= clock + TokenTtl
    BY <1>4 DEF Ordered
  <2>2. \A i \in 1..Len(map) : map[i].expires <= (clock + 1) + TokenTtl
    BY <1>0, <2>1 DEF Entry
  <2> QED
    BY <1>4, <2>2 DEF Ordered
<1>5. TokensOrdered'
  <2>1. /\ Ordered(tokens, drawn, (clock + 1) + TokenTtl)
        /\ Ordered(sessions, drawn, (clock + 1) + TokenTtl)
    BY <1>4 DEF SInv, TokensOrdered
  <2> QED
    BY <1>1, <2>1 DEF TokensOrdered, Ordered
<1>6. ToldHeld'
  <2> SUFFICES ASSUME NEW t \in told
               PROVE  /\ t.id \in 1..drawn /\ t.expires <= (clock + 1) + TokenTtl
                      /\ LaterOutlive(tokens, t) /\ LaterOutlive(sessions, t)
                      /\ t.expires >= clock + 1 =>
                           /\ \E i \in 1..Len(sessions) : sessions[i] = t
                           /\ KeptFor(tokens, t)
    BY <1>1 DEF ToldHeld, LaterOutlive, Alive, KeptFor, Later
  <2>1. /\ t.id \in 1..drawn /\ t.expires <= clock + TokenTtl
        /\ LaterOutlive(tokens, t) /\ LaterOutlive(sessions, t)
        /\ Alive(t) => /\ \E i \in 1..Len(sessions) : sessions[i] = t
                       /\ KeptFor(tokens, t)
    BY DEF SInv, ToldHeld
  <2>2. t.expires <= (clock + 1) + TokenTtl /\ (t.expires >= clock + 1 => t.expires >= clock)
    BY <1>0, <2>1
  <2> QED
    BY <2>1, <2>2 DEF Alive
<1> QED
  BY <1>2, <1>3, <1>5, <1>6 DEF SInv

\* Every step keeps the invariant and makes no Map larger than the cap.
LEMMA SStep ==
  ASSUME SInv, [SessionsNext]_sessionVars
  PROVE  /\ SInv'
         /\ nonces' # nonces => Len(nonces') <= MapCap
         /\ logins' # logins => Len(tokens') <= MapCap
<1>1. ASSUME NEW w \in Wallets, IssueNonce(w)
      PROVE  SInv' /\ Len(nonces') <= MapCap /\ logins' = logins
  BY <1>1, IssueKeeps DEF IssueNonce
<1>2. ASSUME NEW w \in Wallets, NEW by \in Wallets, NEW n \in 1..MaxDraws,
             Login(w, by, n) \/ LoginStoreFails(w, by, n)
      PROVE  SInv' /\ Len(nonces') <= MapCap /\ Len(tokens') <= MapCap
  BY <1>2, LoginKeeps, LoginStoreFailsKeeps
<1>3. ASSUME Reboot
      PROVE  SInv' /\ Len(nonces') <= MapCap /\ logins' = logins
  BY <1>3, RebootKeeps DEF Reboot
<1>4. ASSUME SessionClock
      PROVE  SInv' /\ nonces' = nonces /\ logins' = logins
  BY <1>4, ClockKeeps DEF SessionClock
<1>5. ASSUME UNCHANGED sessionVars
      PROVE  SInv' /\ nonces' = nonces /\ logins' = logins
  <2>1. UNCHANGED <<nonces, tokens, sessions, clock, drawn, boots, told, logins>>
    BY <1>5 DEF sessionVars
  <2>2. SessionsTypeOK' /\ NoncesUnused' /\ LoginsDiffer'
    BY <2>1 DEF SInv, SessionsTypeOK, NoncesUnused, LoginsDiffer
  <2>3. TokensOrdered'
    BY <2>1 DEF SInv, TokensOrdered, Ordered
  <2>4. ToldHeld'
    BY <2>1 DEF SInv, ToldHeld, LaterOutlive, Alive, KeptFor, Later
  <2> QED
    BY <2>1, <2>2, <2>3, <2>4 DEF SInv
<1> QED
  BY <1>1, <1>2, <1>3, <1>4, <1>5 DEF SessionsNext

\* What a client is promised of its token follows from the invariant: the Map holds
\* one entry of that id, its own.
LEMMA HeldIsGood == SInv => ToldTokenIsGood
<1> SUFFICES ASSUME SInv, NEW t \in told, Alive(t)
             PROVE  \/ WalletFor(t.id) = t.wallet
                    \/ Cardinality({i \in DOMAIN tokens : tokens[i].id > t.id}) >= MapCap
  BY DEF ToldTokenIsGood
<1>1. tokens \in Seq(Entry) /\ Ordered(tokens, drawn, clock + TokenTtl)
  BY DEF SInv, SessionsTypeOK, TokensOrdered
<1>2. KeptFor(tokens, t)
  BY DEF SInv, ToldHeld
<1>3. ASSUME NEW i \in 1..Len(tokens), tokens[i] = t PROVE WalletFor(t.id) = t.wallet
  <2>1. i \in Held(t.id)
    BY <1>1, <1>3 DEF Held
  <2>2. ASSUME NEW j \in Held(t.id) PROVE j = i
    <3>1. j \in 1..Len(tokens) /\ tokens[j].id = t.id
      BY <1>1 DEF Held
    <3>2. tokens[i].id \in Int /\ tokens[j].id \in Int
      BY <1>1, <3>1 DEF Ordered
    <3>3. ~(i < j) /\ ~(j < i)
      BY <1>1, <1>3, <3>1, <3>2 DEF Ordered
    <3> QED
      BY <3>1, <3>3
  <2>3. (CHOOSE j \in Held(t.id) : TRUE) = i
    BY <2>1, <2>2
  <2> QED
    BY <1>3, <2>1, <2>3 DEF WalletFor
<1> QED
  BY <1>2, <1>3 DEF KeptFor, Later

-----------------------------------------------------------------------------
(* Theorems *)

\* The invariant holds in every reachable state.
LEMMA SpecSInv == SessionsSpec => []SInv
<1>1. SessionsInit => SInv
  BY SInitOK
<1>2. SInv /\ [SessionsNext]_sessionVars => SInv'
  BY SStep
<1> QED
  BY <1>1, <1>2, PTL DEF SessionsSpec

\* Nonces, tokens and rows are entries, and the clock and the counters stay in range
\* (WalletSessions' Maps and table sessions).
THEOREM SessionsTypeCorrect == SessionsSpec => []SessionsTypeOK
<1>1. SInv => SessionsTypeOK
  BY DEF SInv
<1> QED
  BY <1>1, SpecSInv, PTL

\* One signature logs in once, across restarts too (login).
THEOREM SignaturesLogInOnce == SessionsSpec => []NonceLogsInOnce
<1>1. SInv => NonceLogsInOnce
  BY DEF SInv, SessionsTypeOK, LoginsDiffer, NonceLogsInOnce
<1> QED
  BY <1>1, SpecSInv, PTL

\* A token a client was given is good until it expires, unless MapCap tokens of later
\* logins are held (prune and the reload at boot).
THEOREM TokensStayGood == SessionsSpec => []ToldTokenIsGood
<1>1. SInv => ToldTokenIsGood
  BY HeldIsGood
<1> QED
  BY <1>1, SpecSInv, PTL

\* No login and no new nonce leaves a Map larger than the cap (prune).
THEOREM MapsBounded == SessionsSpec => MapsStayBounded
<1> DEFINE Bounded == /\ nonces' # nonces => Len(nonces') <= MapCap
                      /\ logins' # logins => Len(tokens') <= MapCap
<1>1. SInv /\ [SessionsNext]_sessionVars => [Bounded]_sessionVars
  BY SStep
<1>2. []SInv /\ [][SessionsNext]_sessionVars => [][Bounded]_sessionVars
  BY <1>1, PTL
<1> QED
  BY <1>2, SpecSInv, PTL DEF SessionsSpec, MapsStayBounded

-----------------------------------------------------------------------------
(* The dashboard *)

\* No entry of the Map tk or the table ss has this id and another wallet.
Owned(tk, ss, d, id, w) ==
  /\ w \in Wallets /\ id \in 1..d
  /\ \A i \in 1..Len(tk) : tk[i].id = id => tk[i].wallet = w
  /\ \A i \in 1..Len(ss) : ss[i].id = id => ss[i].wallet = w

\* The token of this id, if it was handed out, has expired or may be evicted.
Spent(tl, now, d, id) ==
  \A t \in tl : t.id = id => t.expires < now \/ d >= t.id + MapCap

CallFields == {"addr", "stage", "token", "nonce", "by"}

\* A call of signIn holds a token of the wallet it signs in, and goes on to a
\* signature only when that token is spent.
CallInv(c, tk, ss, d, tl, now) ==
  /\ DOMAIN c = CallFields
  /\ c = Idle \/ c.addr \in Wallets
  /\ c.token # Null => Owned(tk, ss, d, c.token, c.addr)
  /\ c.stage \in {"cached", "me"} => c.token # Null
  /\ c.stage = "prompt" => c.by \in Wallets /\ c.nonce \in 1..MaxDraws
  /\ c.stage = "nonce" /\ c.token # Null => Spent(tl, now, d, c.token)

CallsInv ==
  /\ DOMAIN signIns = SignIns
  /\ \A k \in SignIns : CallInv(signIns[k], tokens, sessions, drawn, told, clock)

\* So does the tab, and the call of createService.
TabInv ==
  /\ account \in Wallets \cup {Null}
  /\ DOMAIN storage = Wallets
  /\ \A w \in Wallets :
       storage[w] # Null => Owned(tokens, sessions, drawn, storage[w], w)
  /\ create = Idle \/ Owned(tokens, sessions, drawn, create.token, create.addr)

\* A session that is loaded shows the wallet it is for.
LoadedInv ==
  session.phase = "loaded" => session.addr \in Wallets /\ session.me.wallet = session.addr

DashInv == SInv /\ CallsInv /\ TabInv /\ LoadedInv

\* The entries of the next state are of this one, or the token drawn in between.
Known(e) ==
  \/ \E j \in 1..Len(tokens) : tokens[j] = e
  \/ \E j \in 1..Len(sessions) : sessions[j] = e
  \/ e.id = drawn + 1

\* A part of a Map has no other entries, nor has the Map with a new token.
LEMMA PartIsKnown ==
  ASSUME NEW map \in Seq(Entry), NEW part, PartOf(part, map), NEW e, e.id = drawn + 1,
         map = tokens \/ map = sessions
  PROVE  /\ \A i \in 1..Len(part) : Known(part[i])
         /\ \A i \in 1..Len(Append(part, e)) : Known(Append(part, e)[i])
<1>1. part \in Seq(Entry) /\ Len(part) \in Nat
  BY DEF PartOf
<1>2. ASSUME NEW i \in 1..Len(part) PROVE Known(part[i])
  <2>1. \E j \in 1..Len(map) : map[j] = part[i]
    BY <1>2 DEF PartOf
  <2> QED
    BY <2>1 DEF Known
<1> DEFINE n == Len(part)
           new == Append(part, e)
<1>3. Len(new) = n + 1 /\ new[n + 1] = e /\ \A i \in 1..n : new[i] = part[i]
  BY <1>1
<1>4. \A i \in 1..(n + 1) : i \in 1..n \/ i = n + 1
  BY <1>1
<1> HIDE DEF new
<1>5. Known(e)
  BY DEF Known
<1>6. \A i \in 1..Len(new) : Known(new[i])
  BY <1>2, <1>3, <1>4, <1>5
<1> QED
  BY <1>2, <1>6 DEF new

\* What a login does to the Map and the table.
LEMMA LoginEntries ==
  ASSUME SInv, NEW w \in Wallets, NEW by, NEW n, Login(w, by, n) \/ LoginStoreFails(w, by, n)
  PROVE  /\ drawn' = drawn + 1 /\ clock' = clock
         /\ \A i \in 1..Len(tokens') : Known(tokens'[i])
         /\ \A i \in 1..Len(sessions') : Known(sessions'[i])
         /\ \A t \in told' : t \in told \/ t.id = drawn + 1
<1> DEFINE e == TokenOf(w)
           pruned == Pruned(tokens)
           live == Live(sessions)
<1>1. /\ drawn' = drawn + 1 /\ clock' = clock
      /\ tokens' = Append(pruned, e)
      /\ \/ sessions' = Append(live, e) /\ told' = told \cup {e}
         \/ sessions' = live /\ told' = told
  BY DEF Login, LoginStoreFails, TakesNonce
<1>2. e.id = drawn + 1
  BY DEF TokenOf
<1>3. tokens \in Seq(Entry) /\ sessions \in Seq(Entry)
  BY DEF SInv, SessionsTypeOK
<1>4. PartOf(pruned, tokens) /\ PartOf(live, sessions)
  BY <1>3, PruningLeavesPart
<1> HIDE DEF e, pruned, live
<1>5. \A i \in 1..Len(tokens') : Known(tokens'[i])
  BY <1>1, <1>2, <1>3, <1>4, PartIsKnown
<1>6. /\ \A i \in 1..Len(live) : Known(live[i])
      /\ \A i \in 1..Len(Append(live, e)) : Known(Append(live, e)[i])
  BY <1>2, <1>3, <1>4, PartIsKnown
<1>7. \A i \in 1..Len(sessions') : Known(sessions'[i])
  BY <1>1, <1>6
<1> QED
  BY <1>1, <1>2, <1>5, <1>7

\* What any step does to the Map and the table.
LEMMA StepEntries ==
  ASSUME SInv, [SessionsNext]_sessionVars
  PROVE  /\ drawn' = drawn \/ drawn' = drawn + 1
         /\ clock' = clock \/ clock' = clock + 1
         /\ \A i \in 1..Len(tokens') : Known(tokens'[i])
         /\ \A i \in 1..Len(sessions') : Known(sessions'[i])
         /\ \A t \in told' : t \in told \/ t.id = drawn + 1
<1>1. tokens \in Seq(Entry) /\ sessions \in Seq(Entry)
  BY DEF SInv, SessionsTypeOK
<1>2. /\ \A i \in 1..Len(tokens) : Known(tokens[i])
      /\ \A i \in 1..Len(sessions) : Known(sessions[i])
  BY DEF Known
<1>3. ASSUME NEW w \in Wallets, IssueNonce(w)
      PROVE  drawn' = drawn + 1 /\ UNCHANGED <<clock, tokens, sessions, told>>
  BY <1>3 DEF IssueNonce
<1>4. ASSUME Reboot
      PROVE  /\ UNCHANGED <<drawn, clock, sessions, told>>
             /\ \A i \in 1..Len(tokens') : Known(tokens'[i])
  <2> DEFINE live == Live(sessions)
             e == [id |-> drawn + 1]
  <2>1. PartOf(live, sessions)
    BY <1>1, PruningLeavesPart
  <2>2. tokens' = live /\ UNCHANGED <<drawn, clock, sessions, told>>
    BY <1>4 DEF Reboot
  <2>3. e.id = drawn + 1
    OBVIOUS
  <2> HIDE DEF live, e
  <2>4. \A i \in 1..Len(live) : Known(live[i])
    BY <1>1, <2>1, <2>3, PartIsKnown
  <2> QED
    BY <2>2, <2>4
<1>5. ASSUME SessionClock
      PROVE  clock' = clock + 1 /\ UNCHANGED <<drawn, tokens, sessions, told>>
  BY <1>5 DEF SessionClock
<1>6. ASSUME UNCHANGED sessionVars
      PROVE  UNCHANGED <<drawn, clock, tokens, sessions, told>>
  BY <1>6 DEF sessionVars
<1> QED
  BY <1>2, <1>3, <1>4, <1>5, <1>6, LoginEntries DEF SessionsNext

\* A token drawn before stays its wallet's.
LEMMA OwnedStays ==
  ASSUME SInv, [SessionsNext]_sessionVars, NEW id, NEW w,
         Owned(tokens, sessions, drawn, id, w)
  PROVE  Owned(tokens', sessions', drawn', id, w)
<1>1. drawn \in Nat /\ id \in 1..drawn
  BY SessionNumbers DEF Owned
<1>2. id \in 1..drawn' /\ id # drawn + 1
  BY <1>1, StepEntries
<1>3. ASSUME NEW e, Known(e), e.id = id PROVE e.wallet = w
  BY <1>2, <1>3 DEF Known, Owned
<1> QED
  BY <1>2, <1>3, StepEntries DEF Owned

\* A token spent stays spent.
LEMMA SpentStays ==
  ASSUME SInv, [SessionsNext]_sessionVars, NEW id \in 1..drawn,
         Spent(told, clock, drawn, id)
  PROVE  Spent(told', clock', drawn', id)
<1>1. /\ clock \in Nat /\ drawn \in Nat /\ MapCap \in Nat
      /\ \A t \in told : t.id \in Int /\ t.expires \in Int
  BY SessionNumbers
<1>2. /\ drawn' = drawn \/ drawn' = drawn + 1
      /\ clock' = clock \/ clock' = clock + 1
      /\ \A t \in told' : t \in told \/ t.id = drawn + 1
  BY StepEntries
<1>3. SUFFICES ASSUME NEW t \in told', t.id = id
               PROVE  t.expires < clock' \/ drawn' >= t.id + MapCap
  BY DEF Spent
<1>4. t \in told
  BY <1>1, <1>2, <1>3
<1>5. t.expires < clock \/ drawn >= t.id + MapCap
  BY <1>3, <1>4 DEF Spent
<1>6. t.expires < clock => t.expires < clock'
  BY <1>1, <1>2, <1>4
<1>7. drawn >= t.id + MapCap => drawn' >= t.id + MapCap
  BY <1>1, <1>2, <1>4
<1> QED
  BY <1>5, <1>6, <1>7

\* The token of a login is of the wallet that logged in.
LEMMA LoginOwned ==
  ASSUME SInv, NEW w \in Wallets, NEW by, NEW n, Login(w, by, n)
  PROVE  drawn' = drawn + 1 /\ Owned(tokens', sessions', drawn', drawn + 1, w)
<1> DEFINE e == TokenOf(w)
           pruned == Pruned(tokens)
           live == Live(sessions)
<1>1. /\ drawn' = drawn + 1 /\ tokens' = Append(pruned, e) /\ sessions' = Append(live, e)
  BY DEF Login, TakesNonce
<1>2. e.wallet = w
  BY DEF TokenOf
<1>3. tokens \in Seq(Entry) /\ sessions \in Seq(Entry) /\ drawn \in Nat
  BY SessionNumbers DEF SInv, SessionsTypeOK
<1>4. PartOf(pruned, tokens) /\ PartOf(live, sessions)
  BY <1>3, PruningLeavesPart
<1> HIDE DEF e, pruned, live
<1>5. ASSUME NEW map, Ordered(map, drawn, clock + TokenTtl), NEW part, PartOf(part, map),
             NEW i \in 1..Len(Append(part, e)), Append(part, e)[i].id = drawn + 1
      PROVE  Append(part, e)[i].wallet = w
  <2> DEFINE n1 == Len(part)
             new == Append(part, e)
  <2>1. part \in Seq(Entry)
    BY <1>5 DEF PartOf
  <2>2. n1 \in Nat /\ Len(new) = n1 + 1 /\ new[n1 + 1] = e /\ \A j \in 1..n1 : new[j] = part[j]
    BY <2>1
  <2>3. i \in 1..n1 \/ i = n1 + 1
    BY <1>5, <2>2
  <2>4. \A j \in 1..n1 : part[j].id # drawn + 1
    <3>1. Ordered(part, drawn, clock + TokenTtl)
      BY <1>5, OrderedPart
    <3>2. \A j \in 1..n1 : part[j].id \in 1..drawn
      BY <3>1 DEF Ordered
    <3> HIDE DEF n1
    <3> QED
      BY <1>3, <3>2
  <2> HIDE DEF new
  <2>5. new[i].id = drawn + 1
    BY <1>5 DEF new
  <2>6. new[i].wallet = w
    BY <1>2, <2>2, <2>3, <2>4, <2>5
  <2> QED
    BY <2>6 DEF new
<1>6. Ordered(tokens, drawn, clock + TokenTtl) /\ Ordered(sessions, drawn, clock + TokenTtl)
  BY DEF SInv, TokensOrdered
<1>7. drawn + 1 \in 1..drawn'
  BY <1>1, <1>3
<1>8. \A i \in 1..Len(tokens') : tokens'[i].id = drawn + 1 => tokens'[i].wallet = w
  BY <1>1, <1>4, <1>5, <1>6
<1>9. \A i \in 1..Len(sessions') : sessions'[i].id = drawn + 1 => sessions'[i].wallet = w
  BY <1>1, <1>4, <1>5, <1>6
<1> QED
  BY <1>1, <1>7, <1>8, <1>9 DEF Owned

\* The server answers the owner of a token with its own wallet, or with a 401.
LEMMA WalletForOwner ==
  ASSUME SInv, NEW id, NEW w, Owned(tokens, sessions, drawn, id, w), WalletFor(id) # Null
  PROVE  WalletFor(id) = w
<1>1. tokens \in Seq(Entry)
  BY DEF SInv, SessionsTypeOK
<1> DEFINE i == CHOOSE i \in Held(id) : TRUE
<1>2. i \in Held(id) /\ WalletFor(id) = tokens[i].wallet
  BY DEF WalletFor
<1> HIDE DEF i
<1>3. i \in 1..Len(tokens) /\ tokens[i].id = id
  BY <1>1, <1>2 DEF Held
<1> QED
  BY <1>2, <1>3 DEF Owned

\* A token the server does not know is spent: MapCap later ones were all drawn since.
LEMMA RefusedIsSpent ==
  ASSUME SInv, NEW id \in 1..drawn, WalletFor(id) = Null
  PROVE  Spent(told, clock, drawn, id)
<1> SUFFICES ASSUME NEW t \in told, t.id = id
             PROVE  t.expires < clock \/ drawn >= t.id + MapCap
  BY DEF Spent
<1>1. /\ clock \in Nat /\ drawn \in Nat /\ MapCap \in Nat
      /\ t \in Entry /\ t.id \in Int /\ t.expires \in Int
  BY SessionNumbers
<1> DEFINE later == {i \in DOMAIN tokens : tokens[i].id > t.id}
<1>2. CASE ~Alive(t)
  BY <1>1, <1>2 DEF Alive
<1>3. CASE Alive(t)
  <2>1. t.wallet # Null
    BY <1>1, SessionNullAssumption DEF Entry
  <2>2. Cardinality(later) >= MapCap
    BY <1>3, <2>1, HeldIsGood DEF ToldTokenIsGood
  <2>3. Ordered(tokens, drawn, clock + TokenTtl) /\ DOMAIN tokens = 1..Len(tokens)
    BY DEF SInv, TokensOrdered, Ordered
  <2> DEFINE since == (t.id + 1)..drawn
             f == [i \in later |-> tokens[i].id]
  <2>4. f \in [later -> since]
    BY <1>1, <2>3 DEF Ordered
  <2>5. ASSUME NEW i \in later, NEW j \in later, f[i] = f[j] PROVE i = j
    <3>1. i \in 1..Len(tokens) /\ j \in 1..Len(tokens) /\ tokens[i].id = tokens[j].id
      BY <2>3, <2>5
    <3>2. tokens[i].id \in Int
      BY <2>3, <3>1 DEF Ordered
    <3>3. ~(i < j) /\ ~(j < i)
      BY <2>3, <3>1, <3>2 DEF Ordered
    <3> QED
      BY <3>1, <3>3
  <2>6. f \in Injection(later, since)
    BY <2>4, <2>5 DEF Injection, IsInjective
  <2>7. IsFiniteSet(since) /\ Cardinality(since) = drawn - t.id
    <3>1. since = (t.id + 1)..drawn /\ t.id + 1 \in Int /\ drawn \in Int /\ t.id + 1 <= drawn + 1
      BY <1>1
    <3> HIDE DEF since
    <3>2. IsFiniteSet(since)
      BY <3>1, FS_Interval
    <3>3. Cardinality(since) = IF t.id + 1 > drawn THEN 0 ELSE drawn - (t.id + 1) + 1
      BY <3>1, FS_Interval
    <3> QED
      BY <1>1, <3>1, <3>2, <3>3
  <2> HIDE DEF f, since, later
  <2>8. IsFiniteSet(later) /\ Cardinality(later) <= Cardinality(since)
    BY <2>6, <2>7, FS_Injection
  <2>9. Cardinality(later) \in Nat
    BY <2>8, FS_CardinalityType
  <2> QED
    BY <1>1, <2>2, <2>7, <2>8, <2>9 DEF later
<1> QED
  BY <1>2, <1>3

\* What a step may change of the page, and keep the invariant.
PageStep ==
  /\ [SessionsNext]_sessionVars
  /\ account' \in Wallets \cup {Null}
  /\ DOMAIN storage' = Wallets
  /\ \A w \in Wallets :
       \/ storage'[w] = storage[w] \/ storage'[w] = Null
       \/ Owned(tokens', sessions', drawn', storage'[w], w)
  /\ \/ create' = create \/ create' = Idle
     \/ Owned(tokens', sessions', drawn', create'.token, create'.addr)
  /\ DOMAIN signIns' = SignIns
  /\ \A k \in SignIns :
       \/ signIns'[k] = signIns[k]
       \/ CallInv(signIns'[k], tokens', sessions', drawn', told', clock')
  /\ \/ session' = session \/ session'.phase # "loaded"
     \/ session'.addr \in Wallets /\ session'.me.wallet = session'.addr

\* A call that is not answered keeps what it holds.
LEMMA CallStays ==
  ASSUME SInv, [SessionsNext]_sessionVars, NEW c,
         CallInv(c, tokens, sessions, drawn, told, clock)
  PROVE  CallInv(c, tokens', sessions', drawn', told', clock')
<1>1. c.token # Null => Owned(tokens', sessions', drawn', c.token, c.addr)
  BY OwnedStays DEF CallInv
<1>2. ASSUME c.stage = "nonce", c.token # Null
      PROVE  Spent(told', clock', drawn', c.token)
  <2>1. Spent(told, clock, drawn, c.token) /\ c.token \in 1..drawn
    BY <1>2 DEF CallInv, Owned
  <2> QED
    BY <2>1, SpentStays
<1> QED
  BY <1>1, <1>2 DEF CallInv

\* Such a step keeps the invariant.
LEMMA PageStepKeeps ==
  ASSUME DashInv, PageStep
  PROVE  DashInv'
<1>1. SInv /\ [SessionsNext]_sessionVars
  BY DEF DashInv, PageStep
<1>2. SInv'
  BY <1>1, SStep
<1>3. \A k \in SignIns : CallInv(signIns'[k], tokens', sessions', drawn', told', clock')
  BY <1>1, CallStays DEF DashInv, CallsInv, PageStep
<1>4. CallsInv'
  BY <1>3 DEF PageStep, CallsInv
<1>5. ASSUME NEW w \in Wallets, storage'[w] # Null
      PROVE  Owned(tokens', sessions', drawn', storage'[w], w)
  <2>1. CASE storage'[w] = storage[w]
    <3>1. Owned(tokens, sessions, drawn, storage[w], w)
      BY <1>5, <2>1 DEF DashInv, TabInv
    <3> QED
      BY <1>1, <2>1, <3>1, OwnedStays
  <2> QED
    BY <1>5, <2>1 DEF PageStep
<1>6. create' = Idle \/ Owned(tokens', sessions', drawn', create'.token, create'.addr)
  <2>1. CASE create' = create /\ create # Idle
    <3>1. Owned(tokens, sessions, drawn, create.token, create.addr)
      BY <2>1 DEF DashInv, TabInv
    <3> QED
      BY <1>1, <2>1, <3>1, OwnedStays
  <2> QED
    BY <2>1 DEF PageStep
<1>7. Idle' = Idle
  BY DEF Idle
<1>8. TabInv'
  BY <1>5, <1>6, <1>7 DEF PageStep, TabInv
<1>9. LoadedInv'
  BY DEF PageStep, DashInv, LoadedInv
<1> QED
  BY <1>2, <1>4, <1>8, <1>9 DEF DashInv

\* No call: nothing is held.
LEMMA IdleIsFine ==
  ASSUME NEW tk, NEW ss, NEW d, NEW tl, NEW now
  PROVE  CallInv(Idle, tk, ss, d, tl, now)
BY DEF CallInv, Idle, CallFields

\* A call that goes on, or ends.
LEMMA CallSet ==
  ASSUME CallsInv, NEW k \in SignIns, NEW c, signIns' = [signIns EXCEPT ![k] = c],
         CallInv(c, tokens', sessions', drawn', told', clock')
  PROVE  /\ DOMAIN signIns' = SignIns
         /\ \A j \in SignIns :
              \/ signIns'[j] = signIns[j]
              \/ CallInv(signIns'[j], tokens', sessions', drawn', told', clock')
BY DEF CallsInv

\* What a step that leaves the server alone need not touch.
LEMMA SessionsAlone ==
  ASSUME UNCHANGED sessionVars
  PROVE  /\ [SessionsNext]_sessionVars
         /\ UNCHANGED <<tokens, sessions, drawn, told, clock>>
BY DEF sessionVars

\* A sign-in starts with the token the tab has for the wallet.
LEMMA SignInKeeps ==
  ASSUME DashInv, NEW k \in SignIns, NEW a \in Wallets, SignIn(k, a),
         account' \in Wallets \cup {Null}
  PROVE  PageStep
<1> DEFINE stage == IF storage[a] = Null THEN "nonce" ELSE "cached"
           token == storage[a]
           c == [Idle EXCEPT !.addr = a, !.token = token, !.stage = stage]
<1>1. /\ session' = [addr |-> a, phase |-> "signing", me |-> NoMe]
      /\ signIns' = [signIns EXCEPT ![k] = c]
      /\ UNCHANGED <<create, storage>> /\ UNCHANGED sessionVars
  BY DEF SignIn
<1>2. session'.phase # "loaded"
  BY <1>1
<1>3. token # Null => Owned(tokens, sessions, drawn, token, a)
  BY DEF DashInv, TabInv
<1>4. stage \in {"nonce", "cached"} /\ (stage = "cached" <=> token # Null)
  OBVIOUS
<1> HIDE DEF stage, token
<1>5. /\ DOMAIN c = CallFields /\ c.addr = a /\ c.token = token /\ c.stage = stage
  BY DEF Idle, CallFields
<1> HIDE DEF c
<1>6. CallInv(c, tokens, sessions, drawn, told, clock)
  BY <1>3, <1>4, <1>5 DEF CallInv
<1>7. /\ DOMAIN signIns' = SignIns
      /\ \A j \in SignIns :
           \/ signIns'[j] = signIns[j]
           \/ CallInv(signIns'[j], tokens', sessions', drawn', told', clock')
  BY <1>1, <1>6, CallSet, SessionsAlone DEF DashInv
<1> QED
  BY <1>1, <1>2, <1>7, SessionsAlone DEF PageStep, DashInv, TabInv

\* It starts when a wallet connects.
LEMMA ConnectKeeps ==
  ASSUME DashInv, NEW k \in SignIns, NEW a \in Wallets, Connect(k, a)
  PROVE  PageStep
BY SignInKeeps DEF Connect

\* It starts again from the button next to an error.
LEMMA RetryKeeps ==
  ASSUME DashInv, NEW k \in SignIns, Retry(k)
  PROVE  PageStep
<1>1. "retry" \in Offered /\ SignIn(k, account) /\ account' = account
  BY DEF Retry
<1>2. account # Null
  BY <1>1 DEF Offered, FirstService
<1>3. account \in Wallets
  BY <1>2 DEF DashInv, TabInv
<1> QED
  BY <1>1, <1>3, SignInKeeps

\* A wallet that disconnects leaves its calls in flight.
LEMMA DisconnectKeeps ==
  ASSUME DashInv, Disconnect
  PROVE  PageStep
<1>1. account' = Null /\ UNCHANGED <<session, signIns, create, storage>>
      /\ UNCHANGED sessionVars
  BY DEF Disconnect
<1> QED
  BY <1>1, SessionsAlone DEF PageStep, DashInv, TabInv, CallsInv

\* A reload leaves the tokens in the tab, and no call.
LEMMA ReloadKeeps ==
  ASSUME DashInv, Reload
  PROVE  PageStep
<1>1. /\ account' = Null /\ session' = Empty /\ create' = Idle
      /\ signIns' = [j \in SignIns |-> Idle] /\ UNCHANGED sessionVars /\ storage' = storage
  BY DEF Reload
<1>2. Empty.phase # "loaded"
  BY DEF Empty
<1> HIDE DEF Empty
<1>3. \A j \in SignIns : CallInv(signIns'[j], tokens', sessions', drawn', told', clock')
  BY <1>1, IdleIsFine
<1>4. DOMAIN signIns' = SignIns
  BY <1>1
<1> QED
  BY <1>1, <1>2, <1>3, <1>4, SessionsAlone DEF PageStep, DashInv, TabInv

\* A sign-in that fails shows the error, whatever the server did.
LEMMA FailedKeeps ==
  ASSUME DashInv, [SessionsNext]_sessionVars, NEW k \in SignIns, Failed(k)
  PROVE  PageStep
<1>1. /\ session' = [addr |-> signIns[k].addr, phase |-> "error", me |-> NoMe]
      /\ signIns' = [signIns EXCEPT ![k] = Idle]
      /\ UNCHANGED <<account, create, storage>>
  BY DEF Failed
<1>2. session'.phase # "loaded"
  BY <1>1
<1>3. /\ DOMAIN signIns' = SignIns
      /\ \A j \in SignIns :
           \/ signIns'[j] = signIns[j]
           \/ CallInv(signIns'[j], tokens', sessions', drawn', told', clock')
  BY <1>1, CallSet, IdleIsFine DEF DashInv
<1> QED
  BY <1>1, <1>2, <1>3 DEF PageStep, DashInv, TabInv

\* A request that fails changes nothing at the server.
LEMMA SignInFailsKeeps ==
  ASSUME DashInv, NEW k \in SignIns, SignInFails(k)
  PROVE  PageStep
BY FailedKeeps, SessionsAlone DEF SignInFails

\* The page that loads is of the wallet whose token was sent.
LEMMA LoadsKeeps ==
  ASSUME DashInv, NEW k \in SignIns, Loads(k)
  PROVE  PageStep
<1> DEFINE c == signIns[k]
           me == MeOf(c.token)
<1>1. /\ c.stage \in {"cached", "me"} /\ WalletFor(c.token) # Null
      /\ session' = [addr |-> c.addr, phase |-> "loaded", me |-> me]
      /\ signIns' = [signIns EXCEPT ![k] = Idle]
      /\ UNCHANGED <<account, create, storage>> /\ UNCHANGED sessionVars
  BY DEF Loads
<1>2. SInv /\ CallInv(c, tokens, sessions, drawn, told, clock)
  BY DEF DashInv, CallsInv
<1>3. Owned(tokens, sessions, drawn, c.token, c.addr)
  BY <1>1, <1>2 DEF CallInv
<1>4. me.wallet = c.addr /\ c.addr \in Wallets
  BY <1>1, <1>2, <1>3, WalletForOwner DEF MeOf, Owned
<1> HIDE DEF c, me
<1>5. session'.addr \in Wallets /\ session'.me.wallet = session'.addr
  BY <1>1, <1>4
<1>6. /\ DOMAIN signIns' = SignIns
      /\ \A j \in SignIns :
           \/ signIns'[j] = signIns[j]
           \/ CallInv(signIns'[j], tokens', sessions', drawn', told', clock')
  BY <1>1, CallSet, IdleIsFine DEF DashInv
<1> QED
  BY <1>1, <1>5, <1>6, SessionsAlone DEF PageStep, DashInv, TabInv

\* A token is given up when the server no longer knows it: it is spent.
LEMMA CachedRefusedKeeps ==
  ASSUME DashInv, NEW k \in SignIns, CachedRefused(k)
  PROVE  PageStep
<1> DEFINE c == signIns[k]
           n == [c EXCEPT !.stage = "nonce"]
<1>1. /\ c.stage = "cached" /\ WalletFor(c.token) = Null
      /\ storage' = [storage EXCEPT ![c.addr] = Null]
      /\ signIns' = [signIns EXCEPT ![k].stage = "nonce"]
      /\ UNCHANGED <<account, session, create>> /\ UNCHANGED sessionVars
  BY DEF CachedRefused
<1>2. SInv /\ CallInv(c, tokens, sessions, drawn, told, clock) /\ DOMAIN signIns = SignIns
  BY DEF DashInv, CallsInv
<1>3. signIns' = [signIns EXCEPT ![k] = n]
  BY <1>1
<1>4. Owned(tokens, sessions, drawn, c.token, c.addr)
  BY <1>1, <1>2 DEF CallInv
<1>5. Spent(told, clock, drawn, c.token)
  BY <1>1, <1>2, <1>4, RefusedIsSpent DEF Owned
<1>6. c # Idle
  BY <1>1 DEF Idle
<1> HIDE DEF c
<1>7. /\ DOMAIN n = CallFields /\ n.stage = "nonce" /\ n.token = c.token /\ n.addr = c.addr
  BY <1>2 DEF CallInv, CallFields
<1> HIDE DEF n
<1>8. CallInv(n, tokens, sessions, drawn, told, clock)
  BY <1>4, <1>5, <1>7 DEF CallInv, Owned
<1>9. /\ DOMAIN signIns' = SignIns
      /\ \A j \in SignIns :
           \/ signIns'[j] = signIns[j]
           \/ CallInv(signIns'[j], tokens', sessions', drawn', told', clock')
  BY <1>1, <1>3, <1>8, CallSet, SessionsAlone DEF DashInv
<1>10. /\ DOMAIN storage' = Wallets
       /\ \A w \in Wallets : storage'[w] = storage[w] \/ storage'[w] = Null
  BY <1>1 DEF DashInv, TabInv
<1> QED
  BY <1>1, <1>9, <1>10, SessionsAlone DEF PageStep, DashInv, TabInv

\* The connected wallet is asked to sign the nonce just drawn.
LEMMA PromptOpensKeeps ==
  ASSUME DashInv, NEW k \in SignIns, PromptOpens(k)
  PROVE  PageStep
<1> DEFINE c == signIns[k]
           nonce == drawn + 1
           n == [c EXCEPT !.stage = "prompt", !.nonce = nonce, !.by = account]
<1>1. /\ c.stage = "nonce" /\ account # Null /\ IssueNonce(c.addr)
      /\ signIns' = [signIns EXCEPT ![k] = n]
      /\ UNCHANGED <<account, session, create, storage>>
  BY DEF PromptOpens
<1>2. SInv /\ CallInv(c, tokens, sessions, drawn, told, clock)
  BY DEF DashInv, CallsInv
<1>3. c # Idle /\ c.addr \in Wallets
  BY <1>1, <1>2 DEF CallInv, Idle
<1>4. account \in Wallets
  BY <1>1 DEF DashInv, TabInv
<1>5. nonce \in 1..MaxDraws
  BY <1>1, <1>2, SessionNumbers, SessionBoundsAssumption DEF IssueNonce
<1>6. [SessionsNext]_sessionVars
  BY <1>1, <1>3 DEF SessionsNext
<1>7. c.token # Null => Owned(tokens', sessions', drawn', c.token, c.addr)
  BY <1>2, <1>6, OwnedStays DEF CallInv
<1> HIDE DEF c, nonce
<1>8. /\ DOMAIN n = CallFields /\ n.stage = "prompt" /\ n.token = c.token /\ n.addr = c.addr
      /\ n.nonce = nonce /\ n.by = account
  BY <1>2 DEF CallInv, CallFields
<1> HIDE DEF n
<1>9. CallInv(n, tokens', sessions', drawn', told', clock')
  BY <1>3, <1>4, <1>5, <1>7, <1>8 DEF CallInv
<1>10. /\ DOMAIN signIns' = SignIns
       /\ \A j \in SignIns :
            \/ signIns'[j] = signIns[j]
            \/ CallInv(signIns'[j], tokens', sessions', drawn', told', clock')
  BY <1>1, <1>9, CallSet DEF DashInv
<1> QED
  BY <1>1, <1>6, <1>10 DEF PageStep, DashInv, TabInv

\* What a call that waits for the signature sends is a login of WalletSessions.
LEMMA PromptLogsIn ==
  ASSUME DashInv, NEW k \in SignIns, signIns[k].stage = "prompt"
  PROVE  /\ signIns[k].addr \in Wallets /\ signIns[k].by \in Wallets
         /\ signIns[k].nonce \in 1..MaxDraws
<1>1. CallInv(signIns[k], tokens, sessions, drawn, told, clock)
  BY DEF DashInv, CallsInv
<1>2. signIns[k] # Idle
  BY DEF Idle
<1> QED
  BY <1>1, <1>2 DEF CallInv

\* The new token is of the wallet it is stored for, whichever is connected by now.
LEMMA SignedInKeeps ==
  ASSUME DashInv, NEW k \in SignIns, SignedIn(k)
  PROVE  PageStep
<1> DEFINE c == signIns[k]
           token == drawn + 1
           n == [c EXCEPT !.stage = "me", !.token = token]
<1>1. /\ c.stage = "prompt" /\ Login(c.addr, c.by, c.nonce)
      /\ storage' = [storage EXCEPT ![c.addr] = token]
      /\ signIns' = [signIns EXCEPT ![k] = n]
      /\ UNCHANGED <<account, session, create>>
  BY DEF SignedIn
<1>2. SInv /\ CallInv(c, tokens, sessions, drawn, told, clock)
  BY DEF DashInv, CallsInv
<1>3. c.addr \in Wallets /\ c.by \in Wallets /\ c.nonce \in 1..MaxDraws
  BY <1>1, PromptLogsIn
<1>4. [SessionsNext]_sessionVars
  BY <1>1, <1>3 DEF SessionsNext
<1>5. Owned(tokens', sessions', drawn', token, c.addr)
  BY <1>1, <1>2, <1>3, LoginOwned
<1>6. token # Null
  BY <1>2, SessionNumbers, DashboardAssumption
<1> HIDE DEF c, token
<1>7. /\ DOMAIN n = CallFields /\ n.stage = "me" /\ n.token = token /\ n.addr = c.addr
  BY <1>2 DEF CallInv, CallFields
<1> HIDE DEF n
<1>8. CallInv(n, tokens', sessions', drawn', told', clock')
  BY <1>3, <1>5, <1>6, <1>7 DEF CallInv
<1>9. /\ DOMAIN signIns' = SignIns
      /\ \A j \in SignIns :
           \/ signIns'[j] = signIns[j]
           \/ CallInv(signIns'[j], tokens', sessions', drawn', told', clock')
  BY <1>1, <1>8, CallSet DEF DashInv
<1>10. /\ DOMAIN storage' = Wallets
       /\ \A w \in Wallets :
            storage'[w] = storage[w]
              \/ Owned(tokens', sessions', drawn', storage'[w], w)
  BY <1>1, <1>5 DEF DashInv, TabInv
<1> QED
  BY <1>1, <1>4, <1>9, <1>10 DEF PageStep, DashInv, TabInv

\* A login whose answer is lost is one at the server all the same.
LEMMA LoginUnansweredKeeps ==
  ASSUME DashInv, NEW k \in SignIns, LoginUnanswered(k)
  PROVE  PageStep
<1>1. /\ signIns[k].stage = "prompt" /\ Failed(k)
      /\ \/ Login(signIns[k].addr, signIns[k].by, signIns[k].nonce)
         \/ LoginStoreFails(signIns[k].addr, signIns[k].by, signIns[k].nonce)
  BY DEF LoginUnanswered
<1>2. [SessionsNext]_sessionVars
  BY <1>1, PromptLogsIn DEF SessionsNext
<1> QED
  BY <1>1, <1>2, FailedKeeps

\* The button is only there for the wallet of the session that is loaded.
LEMMA CreateServiceKeeps ==
  ASSUME DashInv, CreateService
  PROVE  PageStep
<1> DEFINE token == storage[account]
           c == [Idle EXCEPT !.addr = account, !.token = token, !.stage = "post"]
<1>1. /\ "create" \in Offered /\ token # Null /\ create' = c
      /\ UNCHANGED <<account, session, signIns, storage>> /\ UNCHANGED sessionVars
  BY DEF CreateService
<1>2. Shown.phase = "loaded"
  BY <1>1 DEF Offered
<1>3. session.phase = "loaded" /\ session.addr = account
  BY <1>2 DEF Shown, Empty
<1>4. account \in Wallets
  BY <1>3 DEF DashInv, LoadedInv
<1>5. Owned(tokens, sessions, drawn, token, account)
  BY <1>1, <1>4 DEF DashInv, TabInv
<1> HIDE DEF token
<1>6. c.token = token /\ c.addr = account
  BY DEF Idle
<1> HIDE DEF c
<1>7. Owned(tokens', sessions', drawn', create'.token, create'.addr)
  BY <1>1, <1>5, <1>6, SessionsAlone
<1> QED
  BY <1>1, <1>7, SessionsAlone DEF PageStep, DashInv, TabInv, CallsInv

\* A call of createService that is over, or goes on to list the services.
LEMMA CreateAnsweredKeeps ==
  ASSUME DashInv, CreateAnswered
  PROVE  PageStep
<1>1. UNCHANGED <<account, signIns, storage>> /\ UNCHANGED sessionVars
  BY DEF CreateAnswered, ServiceCreated, ServiceCreatedUnanswered, CreateFails, ServiceListed
<1>2. CASE ServiceCreated
  <2> DEFINE c == [create EXCEPT !.stage = "me"]
  <2>1. create.stage = "post" /\ create' = c /\ session' = session
    BY <1>2 DEF ServiceCreated, AddService
  <2>2. create # Idle
    BY <2>1 DEF Idle
  <2>3. Owned(tokens, sessions, drawn, create.token, create.addr)
    BY <2>2 DEF DashInv, TabInv
  <2>4. c.token = create.token /\ c.addr = create.addr
    OBVIOUS
  <2> HIDE DEF c
  <2>5. Owned(tokens', sessions', drawn', create'.token, create'.addr)
    BY <1>1, <2>1, <2>3, <2>4, SessionsAlone
  <2> QED
    BY <1>1, <2>1, <2>5, SessionsAlone DEF PageStep, DashInv, TabInv, CallsInv
<1>3. CASE ServiceCreatedUnanswered \/ CreateFails
  <2>1. create' = Idle /\ session' = session
    BY <1>3 DEF ServiceCreatedUnanswered, CreateFails
  <2> QED
    BY <1>1, <2>1, SessionsAlone DEF PageStep, DashInv, TabInv, CallsInv
<1>4. CASE ServiceListed
  <2> DEFINE me == MeOf(create.token)
  <2>1. /\ create.stage = "me" /\ WalletFor(create.token) # Null /\ create' = Idle
        /\ session' = [addr |-> create.addr, phase |-> "loaded", me |-> me]
    BY <1>4 DEF ServiceListed
  <2>2. create # Idle
    BY <2>1 DEF Idle
  <2>3. SInv /\ Owned(tokens, sessions, drawn, create.token, create.addr)
    BY <2>2 DEF DashInv, TabInv
  <2>4. me.wallet = create.addr /\ create.addr \in Wallets
    BY <2>1, <2>3, WalletForOwner DEF MeOf, Owned
  <2> HIDE DEF me
  <2>5. session'.addr \in Wallets /\ session'.me.wallet = session'.addr
    BY <2>1, <2>4
  <2> QED
    BY <1>1, <2>1, <2>5, SessionsAlone DEF PageStep, DashInv, TabInv, CallsInv
<1> QED
  BY <1>2, <1>3, <1>4 DEF CreateAnswered

\* Steps that leave the page alone, or only the key it shows.
LEMMA PageAloneKeeps ==
  ASSUME DashInv, [SessionsNext]_sessionVars,
         UNCHANGED <<account, session, signIns, create, storage>>
  PROVE  PageStep
BY DEF PageStep, DashInv, TabInv, CallsInv

\* Every step keeps the invariant.
LEMMA NextDash ==
  ASSUME DashInv, [DashboardNext]_dashboardVars
  PROVE  DashInv'
<1>1. ASSUME NEW k \in SignIns, Answered(k) PROVE PageStep
  BY <1>1, SignInFailsKeeps, LoadsKeeps, CachedRefusedKeeps, PromptOpensKeeps, SignedInKeeps,
     LoginUnansweredKeeps DEF Answered
<1>2. ASSUME Dismiss PROVE PageStep
  BY <1>2, PageAloneKeeps, SessionsAlone DEF Dismiss
<1>3. ASSUME Elsewhere PROVE PageStep
  <2>1. UNCHANGED <<account, session, signIns, create, storage>>
    BY <1>3 DEF Elsewhere, page
  <2>2. [SessionsNext]_sessionVars
    BY <1>3 DEF Elsewhere, SessionsNext
  <2> QED
    BY <2>1, <2>2, PageAloneKeeps
<1>4. ASSUME UNCHANGED dashboardVars PROVE PageStep
  BY <1>4, PageAloneKeeps, SessionsAlone DEF dashboardVars, page
<1>5. PageStep
  BY <1>1, <1>2, <1>3, <1>4, ConnectKeeps, RetryKeeps, DisconnectKeeps, ReloadKeeps,
     CreateServiceKeeps, CreateAnsweredKeeps DEF DashboardNext
<1> QED
  BY <1>5, PageStepKeeps

\* An empty tab holds no token.
LEMMA InitDash ==
  ASSUME DashboardInit
  PROVE  DashInv
<1>1. SInv
  BY SInitOK DEF DashboardInit
<1>2. CallsInv
  BY IdleIsFine DEF DashboardInit, CallsInv
<1>3. TabInv
  BY DEF DashboardInit, TabInv
<1>4. LoadedInv
  BY DEF DashboardInit, LoadedInv, Empty
<1> QED
  BY <1>1, <1>2, <1>3, <1>4 DEF DashInv

\* The invariant holds in every reachable state.
LEMMA SpecDash == DashboardSpec => []DashInv
<1>1. DashboardInit => DashInv
  BY InitDash
<1>2. DashInv /\ [DashboardNext]_dashboardVars => DashInv'
  BY NextDash
<1> QED
  BY <1>1, <1>2, PTL DEF DashboardSpec

\* Whatever answers come after a switch of wallet, a page that is loaded is the
\* connected wallet's: every token in the tab or in flight is of the wallet it is kept
\* for (signIn, createService).
THEOREM LoadedStaysOwn == DashboardSpec => []LoadedIsOwn
<1>1. ASSUME DashInv PROVE LoadedIsOwn
  <2>1. Shown.phase = "loaded" => session.phase = "loaded" /\ session.addr = account
    BY DEF Shown, Empty
  <2>2. session.phase = "loaded" => session.me.wallet = session.addr
    BY <1>1 DEF DashInv, LoadedInv
  <2> QED
    BY <2>1, <2>2 DEF LoadedIsOwn, Shown
<1> QED
  BY <1>1, SpecDash, PTL

\* A sign-in that started with a token in the tab asks for a signature only once that
\* token has expired or MapCap others have been drawn since, restarts of the server
\* included (signIn, prune, the reload at boot).
THEOREM PromptsAreNeeded == DashboardSpec => NoPromptWithLiveToken
<1> DEFINE Needed ==
             \A k \in SignIns :
               (signIns[k].stage = "nonce" /\ signIns'[k].stage = "prompt") =>
                  \A t \in told :
                    t.id = signIns[k].token => ~Alive(t) \/ drawn >= t.id + MapCap
<1>1. ASSUME DashInv PROVE Needed
  <2> SUFFICES ASSUME NEW k \in SignIns, signIns[k].stage = "nonce",
                      NEW t \in told, t.id = signIns[k].token
               PROVE  ~Alive(t) \/ drawn >= t.id + MapCap
    OBVIOUS
  <2>1. CallInv(signIns[k], tokens, sessions, drawn, told, clock) /\ SInv
    BY <1>1 DEF DashInv, CallsInv
  <2>2. clock \in Nat /\ t.id \in Nat /\ t.expires \in Int
    BY <2>1, SessionNumbers DEF Entry
  <2>3. signIns[k].token # Null
    BY <2>2, DashboardAssumption
  <2>4. t.expires < clock \/ drawn >= t.id + MapCap
    BY <2>1, <2>3 DEF CallInv, Spent
  <2> QED
    BY <2>2, <2>4 DEF Alive
<1>2. []DashInv => [][Needed]_dashboardVars
  BY <1>1, PTL
<1> QED
  BY <1>2, SpecDash, PTL DEF NoPromptWithLiveToken
=============================================================================
