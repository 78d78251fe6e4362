------------------------------- MODULE SetSums -------------------------------
(***************************************************************************)
(* What SumFunctionOnSet of the community modules computes over a finite   *)
(* set: the order in which it takes the elements does not matter.  The     *)
(* proofs about money rest on these facts.                                 *)
(***************************************************************************)
EXTENDS Functions, Integers, FiniteSetTheorems, WellFoundedInduction, TLAPS

\* g is the running sum by which SumFunctionOnSet is defined.
Running(g, f, S) ==
  g = [s \in SUBSET S |->
         IF s = {} THEN 0
         ELSE f[CHOOSE x \in s : TRUE] + g[s \ {CHOOSE x \in s : TRUE}]]

\* The sum over a set, by the function that adds up its subsets.
LEMMA SumIsRunning ==
  ASSUME NEW f, NEW S
  PROVE  SumFunctionOnSet(f, S) = (CHOOSE g : Running(g, f, S))[S]
BY DEF SumFunctionOnSet, FoldFunctionOnSet, MapThenFoldSet, Running

-----------------------------------------------------------------------------
(* Induction over the size of a set *)

\* A set of numbers has a least one.
LEMMA Least ==
  ASSUME NEW T \in SUBSET Nat, T # {}
  PROVE  \E n \in T : \A m \in T : n <= m
<1>1. \E x \in T : \A y \in T : ~ (<<y, x>> \in OpToRel(<, Nat))
  BY WFMin, NatLessThanWellFounded
<1>2. \A x, y \in Nat : x < y => <<x, y>> \in OpToRel(<, Nat)
  BY DEF OpToRel
<1>3. \E x \in T : \A y \in T : ~ (y < x)
  <2>1. \A x \in T : x \in Nat
    OBVIOUS
  <2> QED
    BY <1>1, <1>2, <2>1, Zenon
<1> QED
  BY <1>3

\* Among the subsets of a finite set that are in Bad one is minimal: what it has less
\* one element is not in Bad.
LEMMA SmallestBad ==
  ASSUME NEW S, IsFiniteSet(S), NEW Bad \in SUBSET (SUBSET S), Bad # {}
  PROVE  \E s \in Bad : \A x \in s : s \ {x} \notin Bad
<1> DEFINE T == {n \in Nat : \E s \in Bad : Cardinality(s) = n}
<1>1. \A s \in SUBSET S : IsFiniteSet(s) /\ Cardinality(s) \in Nat
  BY FS_Subset, FS_CardinalityType
<1>2. T # {} /\ T \in SUBSET Nat
  BY <1>1
<1>3. PICK n \in T : \A m \in T : n <= m
  BY <1>2, Least
<1>4. PICK s \in Bad : Cardinality(s) = n
  BY <1>3
<1>5. ASSUME NEW x \in s, s \ {x} \in Bad PROVE FALSE
  <2> DEFINE c == Cardinality(s \ {x})
  <2>1. c = n - 1 /\ c \in Nat
    BY <1>1, <1>4, <1>5, FS_RemoveElement
  <2>2. c \in T
    BY <1>5, <2>1
  <2> HIDE DEF c
  <2> QED
    BY <1>3, <2>1, <2>2
<1> QED
  BY <1>4, <1>5

-----------------------------------------------------------------------------
(* The running sum *)

\* There is a running sum, and its values are numbers.
LEMMA RunningExists ==
  ASSUME NEW S, IsFiniteSet(S), NEW f, \A x \in S : f[x] \in Int
  PROVE  \E g \in [SUBSET S -> Int] : Running(g, f, S)
<1> DEFINE C(s) == CHOOSE x \in s : TRUE
           Small(n) == {s \in SUBSET S : Cardinality(s) <= n}
           Sums(g, n) == \A s \in Small(n) :
                           g[s] = IF s = {} THEN 0 ELSE f[C(s)] + g[s \ {C(s)}]
           Bad == {n \in Nat : ~ \E g \in [Small(n) -> Int] : Sums(g, n)}
<1>1. \A s \in SUBSET S : IsFiniteSet(s) /\ Cardinality(s) \in Nat
  BY FS_Subset, FS_CardinalityType
<1>2. \A s \in SUBSET S : s # {} => C(s) \in s
  OBVIOUS
<1>3. \A s \in SUBSET S : \A x \in s : Cardinality(s \ {x}) = Cardinality(s) - 1
  BY <1>1, FS_RemoveElement
<1> HIDE DEF C
<1>4. ASSUME NEW n \in Nat, NEW g \in [Small(n) -> Int], Sums(g, n)
      PROVE  \E h \in [Small(n + 1) -> Int] : Sums(h, n + 1)
  <2> DEFINE h == [s \in Small(n + 1) |->
                     IF s = {} THEN 0 ELSE f[C(s)] + g[s \ {C(s)}]]
  <2>1. ASSUME NEW s \in Small(n + 1), s # {}
        PROVE  /\ C(s) \in s /\ f[C(s)] \in Int
               /\ s \ {C(s)} \in Small(n) /\ s \ {C(s)} \in Small(n + 1)
    <3>1. C(s) \in s /\ f[C(s)] \in Int
      BY <1>2, <2>1
    <3>2. Cardinality(s \ {C(s)}) = Cardinality(s) - 1 /\ Cardinality(s) \in Nat
      BY <1>1, <1>3, <3>1
    <3>3. Cardinality(s \ {C(s)}) <= n /\ Cardinality(s \ {C(s)}) <= n + 1
      BY <1>4, <3>2
    <3> QED
      BY <3>1, <3>3
  <2>2. h \in [Small(n + 1) -> Int]
    BY <1>4, <2>1
  <2>3. ASSUME NEW s \in Small(n) PROVE h[s] = g[s]
    <3>1. s \in Small(n + 1)
      BY <1>1
    <3> QED
      BY <1>4, <3>1
  <2>4. Sums(h, n + 1)
    BY <2>1, <2>3
  <2> QED
    BY <2>2, <2>4
<1>5. 0 \notin Bad
  <2> DEFINE g == [s \in Small(0) |-> 0]
  <2>1. \A s \in Small(0) : s = {}
    BY <1>1, FS_EmptySet
  <2>2. g \in [Small(0) -> Int] /\ Sums(g, 0)
    BY <2>1
  <2> QED
    BY <2>2
<1>6. \A n \in Nat : n \notin Bad => n + 1 \notin Bad
  BY <1>4
<1>7. Bad = {}
  <2> SUFFICES ASSUME Bad # {} PROVE FALSE
    OBVIOUS
  <2>1. Bad \in SUBSET Nat
    OBVIOUS
  <2> HIDE DEF Bad
  <2>2. PICK n \in Bad : \A m \in Bad : n <= m
    BY <2>1, Least
  <2>3. n # 0 /\ n \in Nat
    BY <1>5, <2>1
  <2>4. n - 1 \in Nat /\ n - 1 \notin Bad /\ (n - 1) + 1 = n
    BY <2>1, <2>2, <2>3
  <2> QED
    BY <1>6, <2>4
<1> DEFINE c == Cardinality(S)
<1>8. c \in Nat /\ Small(c) = SUBSET S
  BY <1>1, FS_Subset
<1>9. PICK g \in [Small(c) -> Int] : Sums(g, c)
  BY <1>7, <1>8
<1>10. g \in [SUBSET S -> Int] /\ Running(g, f, S)
  BY <1>8, <1>9 DEF Running, C
<1> QED
  BY <1>10

\* Its value for a set depends only on what is summed there.
LEMMA RunningUnique ==
  ASSUME NEW S, IsFiniteSet(S), NEW T \in SUBSET S, NEW f, NEW h,
         \A x \in T : f[x] = h[x],
         NEW g, Running(g, f, S), NEW k, Running(k, h, T)
  PROVE  \A s \in SUBSET T : g[s] = k[s]
<1> DEFINE Bad == {s \in SUBSET T : g[s] # k[s]}
<1> SUFFICES ASSUME Bad # {} PROVE FALSE
  OBVIOUS
<1>1. PICK s \in Bad : \A x \in s : s \ {x} \notin Bad
  <2>1. IsFiniteSet(T)
    BY FS_Subset
  <2> QED
    BY <2>1, SmallestBad
<1>2. s \in SUBSET T /\ s \in SUBSET S /\ g[s] # k[s]
  BY <1>1
<1> DEFINE x == CHOOSE x \in s : TRUE
<1>3. /\ g[s] = IF s = {} THEN 0 ELSE f[x] + g[s \ {x}]
      /\ k[s] = IF s = {} THEN 0 ELSE h[x] + k[s \ {x}]
  BY <1>2 DEF Running
<1>4. s # {} => x \in s
  OBVIOUS
<1> HIDE DEF x
<1>5. s # {} /\ x \in s /\ x \in T
  BY <1>2, <1>3, <1>4
<1>6. g[s \ {x}] = k[s \ {x}]
  BY <1>1, <1>2, <1>5
<1> QED
  BY <1>2, <1>3, <1>5, <1>6

\* Taking any of the elements first, not only the chosen one, gives the same sum.
AnyOrder(g, f, S) == \A s \in SUBSET S : \A y \in s : g[s] = f[y] + g[s \ {y}]

\* The running sum does not depend on which element is chosen.
LEMMA RunningRemove ==
  ASSUME NEW S, IsFiniteSet(S), NEW f, \A x \in S : f[x] \in Int,
         NEW g \in [SUBSET S -> Int], Running(g, f, S)
  PROVE  AnyOrder(g, f, S)
<1> DEFINE Bad == {s \in SUBSET S : \E y \in s : g[s] # f[y] + g[s \ {y}]}
<1> SUFFICES ASSUME Bad # {} PROVE FALSE
  BY DEF AnyOrder
<1>1. PICK s \in Bad : \A x \in s : s \ {x} \notin Bad
  BY SmallestBad
<1>2. PICK y \in s : g[s] # f[y] + g[s \ {y}]
  BY <1>1
<1>3. s \in SUBSET S /\ s # {}
  BY <1>1, <1>2
<1> DEFINE x == CHOOSE x \in s : TRUE
<1>4. x \in s
  BY <1>3
<1>5. \A z \in SUBSET S : z # {} => g[z] = f[CHOOSE u \in z : TRUE] + g[z \ {CHOOSE u \in z : TRUE}]
  BY DEF Running
<1>6. g[s] = f[x] + g[s \ {x}]
  BY <1>3, <1>5
<1> HIDE DEF x
<1>7. x # y
  BY <1>2, <1>6
<1>8. g[s \ {x}] = f[y] + g[(s \ {x}) \ {y}]
  BY <1>1, <1>3, <1>4, <1>7
<1>9. g[s \ {y}] = f[x] + g[(s \ {y}) \ {x}]
  BY <1>1, <1>2, <1>3, <1>4, <1>7
<1>10. (s \ {x}) \ {y} = (s \ {y}) \ {x}
  OBVIOUS
<1> DEFINE rest == g[(s \ {x}) \ {y}]
<1>11. f[x] \in Int /\ f[y] \in Int /\ rest \in Int
  BY <1>2, <1>3, <1>4
<1>12. g[s \ {y}] = f[x] + rest /\ g[s \ {x}] = f[y] + rest
  BY <1>8, <1>9, <1>10
<1> HIDE DEF rest
<1> QED
  BY <1>2, <1>6, <1>11, <1>12

-----------------------------------------------------------------------------
(* Sums over finite sets *)

\* The sum of no numbers is 0, that of numbers is a number, and it can be taken apart
\* at any element.
LEMMA SumTakeOut ==
  ASSUME NEW S, IsFiniteSet(S), NEW f, \A x \in S : f[x] \in Int
  PROVE  /\ SumFunctionOnSet(f, {}) = 0
         /\ SumFunctionOnSet(f, S) \in Int
         /\ \A T \in SUBSET S : SumFunctionOnSet(f, T) \in Int
         /\ \A y \in S : SumFunctionOnSet(f, S) = f[y] + SumFunctionOnSet(f, S \ {y})
<1> DEFINE Sum(T) == SumFunctionOnSet(f, T)
<1>1. PICK g \in [SUBSET S -> Int] : Running(g, f, S)
  BY RunningExists
<1>2. ASSUME NEW T \in SUBSET S PROVE Sum(T) = g[T]
  <2> DEFINE k == CHOOSE k : Running(k, f, T)
  <2>1. \E h : Running(h, f, T)
    <3>1. IsFiniteSet(T) /\ \A x \in T : f[x] \in Int
      BY FS_Subset
    <3> QED
      BY <3>1, RunningExists
  <2>2. Running(k, f, T)
    BY <2>1
  <2>3. Sum(T) = k[T]
    BY SumIsRunning
  <2> HIDE DEF k
  <2>4. g[T] = k[T]
    BY <1>1, <2>2, RunningUnique
  <2> QED
    BY <2>3, <2>4
<1> HIDE DEF Sum
<1>3. g[{}] = 0
  BY <1>1 DEF Running
<1>4. \A y \in S : g[S] = f[y] + g[S \ {y}]
  <2>1. AnyOrder(g, f, S)
    BY <1>1, RunningRemove
  <2>2. S \in SUBSET S
    OBVIOUS
  <2> QED
    BY <2>1, <2>2 DEF AnyOrder
<1>5. /\ Sum({}) = 0
      /\ \A T \in SUBSET S : Sum(T) \in Int
      /\ \A y \in S : Sum(S) = f[y] + Sum(S \ {y})
  BY <1>1, <1>2, <1>3, <1>4
<1> QED
  BY <1>5 DEF Sum

\* Functions that agree on the set have the same sum.
LEMMA SumSame ==
  ASSUME NEW S, IsFiniteSet(S), NEW f, NEW h, \A x \in S : f[x] \in Int /\ f[x] = h[x]
  PROVE  SumFunctionOnSet(f, S) = SumFunctionOnSet(h, S)
<1> DEFINE k == CHOOSE k : Running(k, f, S)
           l == CHOOSE l : Running(l, h, S)
<1>1. (\E g : Running(g, f, S)) /\ (\E g : Running(g, h, S))
  BY RunningExists
<1>2. Running(k, f, S) /\ Running(l, h, S)
  BY <1>1
<1>3. SumFunctionOnSet(f, S) = k[S] /\ SumFunctionOnSet(h, S) = l[S]
  BY SumIsRunning
<1> HIDE DEF k, l
<1>4. k[S] = l[S]
  BY <1>2, RunningUnique
<1> QED
  BY <1>3, <1>4

\* An element more adds its number.
LEMMA SumAdd ==
  ASSUME NEW S, IsFiniteSet(S), NEW x, x \notin S, NEW f, \A y \in S \cup {x} : f[y] \in Int
  PROVE  SumFunctionOnSet(f, S \cup {x}) = f[x] + SumFunctionOnSet(f, S)
<1>1. IsFiniteSet(S \cup {x}) /\ (S \cup {x}) \ {x} = S
  BY FS_AddElement
<1> QED
  BY <1>1, SumTakeOut

\* Where one number changes the sum changes by as much.
LEMMA SumChange ==
  ASSUME NEW S, IsFiniteSet(S), NEW x \in S, NEW f, NEW h,
         \A y \in S : f[y] \in Int /\ h[y] \in Int,
         \A y \in S \ {x} : f[y] = h[y]
  PROVE  SumFunctionOnSet(h, S) = SumFunctionOnSet(f, S) + (h[x] - f[x])
<1> DEFINE rest == S \ {x}
           r == SumFunctionOnSet(f, rest)
<1>1. /\ SumFunctionOnSet(f, S) = f[x] + r /\ r \in Int
      /\ SumFunctionOnSet(h, S) = h[x] + SumFunctionOnSet(h, rest)
  BY SumTakeOut
<1>2. SumFunctionOnSet(h, rest) = r
  BY FS_RemoveElement, SumSame
<1>3. f[x] \in Int /\ h[x] \in Int
  OBVIOUS
<1> HIDE DEF r, rest
<1> QED
  BY <1>1, <1>2, <1>3

\* Larger numbers have a larger sum.
LEMMA SumMonotone ==
  ASSUME NEW S, IsFiniteSet(S), NEW f, NEW h,
         \A x \in S : f[x] \in Int /\ h[x] \in Int /\ f[x] <= h[x]
  PROVE  SumFunctionOnSet(f, S) <= SumFunctionOnSet(h, S)
<1> DEFINE F(T) == SumFunctionOnSet(f, T)
           H(T) == SumFunctionOnSet(h, T)
           Bad == {T \in SUBSET S : ~(F(T) <= H(T))}
<1> SUFFICES ASSUME Bad # {} PROVE FALSE
  OBVIOUS
<1>1. PICK T \in Bad : \A x \in T : T \ {x} \notin Bad
  BY SmallestBad
<1>2. IsFiniteSet(T) /\ T \in SUBSET S /\ ~(F(T) <= H(T))
  BY <1>1, FS_Subset
<1>3. /\ F({}) = 0 /\ H({}) = 0
      /\ \A U \in SUBSET T : F(U) \in Int /\ H(U) \in Int
      /\ \A y \in T : F(T) = f[y] + F(T \ {y}) /\ H(T) = h[y] + H(T \ {y})
  BY <1>2, SumTakeOut
<1>4. \A x \in T : F(T \ {x}) <= H(T \ {x})
  BY <1>1, <1>2
<1> HIDE DEF F, H
<1>5. PICK x \in T : TRUE
  BY <1>2, <1>3
<1>6. /\ F(T) = f[x] + F(T \ {x}) /\ H(T) = h[x] + H(T \ {x})
      /\ F(T \ {x}) \in Int /\ H(T \ {x}) \in Int /\ F(T \ {x}) <= H(T \ {x})
      /\ f[x] \in Int /\ h[x] \in Int /\ f[x] <= h[x]
  BY <1>2, <1>3, <1>4, <1>5
<1> DEFINE a == F(T \ {x})
           b == H(T \ {x})
           u == f[x]
           v == h[x]
<1>7. u + a <= v + b
  <2>1. a \in Int /\ b \in Int /\ a <= b /\ u \in Int /\ v \in Int /\ u <= v
    BY <1>6
  <2> HIDE DEF a, b, u, v
  <2> QED
    BY <2>1
<1> QED
  BY <1>2, <1>6, <1>7

\* A part of some numbers, none of them negative, sums up to no more than the whole.
LEMMA SumOfPart ==
  ASSUME NEW S, IsFiniteSet(S), NEW f, \A x \in S : f[x] \in Nat, NEW T \in SUBSET S
  PROVE  /\ SumFunctionOnSet(f, T) <= SumFunctionOnSet(f, S)
         /\ SumFunctionOnSet(f, T) \in Nat
<1> DEFINE F(U) == SumFunctionOnSet(f, U)
           Bad == {U \in SUBSET S : ~(F(U \cap T) <= F(U) /\ F(U) >= 0)}
<1>1. Bad = {}
  <2> SUFFICES ASSUME Bad # {} PROVE FALSE
    OBVIOUS
  <2>1. PICK U \in Bad : \A x \in U : U \ {x} \notin Bad
    BY SmallestBad
  <2>2. IsFiniteSet(U) /\ U \in SUBSET S /\ ~(F(U \cap T) <= F(U) /\ F(U) >= 0)
    BY <2>1, FS_Subset
  <2>3. /\ F({}) = 0
        /\ \A V \in SUBSET U : F(V) \in Int
        /\ \A y \in U : F(U) = f[y] + F(U \ {y})
    BY <2>2, SumTakeOut
  <2>4. \A x \in U : F((U \ {x}) \cap T) <= F(U \ {x}) /\ F(U \ {x}) >= 0
    BY <2>1, <2>2
  <2>5. \A y \in U \cap T : F(U \cap T) = f[y] + F((U \cap T) \ {y})
    <3>1. IsFiniteSet(U \cap T) /\ \A y \in U \cap T : f[y] \in Int
      BY <2>2, FS_Subset
    <3> QED
      BY <3>1, SumTakeOut
  <2> HIDE DEF F
  <2>6. PICK x \in U : TRUE
    <3>1. U # {}
      BY <2>2, <2>3
    <3> QED
      BY <3>1
  <2>7. /\ F(U) = f[x] + F(U \ {x}) /\ F(U \ {x}) \in Int /\ F(U \ {x}) >= 0
        /\ F((U \ {x}) \cap T) <= F(U \ {x}) /\ F((U \ {x}) \cap T) \in Int
        /\ f[x] \in Nat
    BY <2>2, <2>3, <2>4, <2>6
  <2>8. F(U \cap T) = F((U \ {x}) \cap T) \/ F(U \cap T) = f[x] + F((U \ {x}) \cap T)
    <3>1. CASE x \in T
      <4>1. (U \cap T) \ {x} = (U \ {x}) \cap T
        OBVIOUS
      <4> QED
        BY <2>5, <2>6, <3>1, <4>1
    <3>2. CASE x \notin T
      <4>1. U \cap T = (U \ {x}) \cap T
        BY <3>2
      <4> QED
        BY <4>1
    <3> QED
      BY <3>1, <3>2
  <2> QED
    BY <2>2, <2>7, <2>8
<1>2. \A U \in SUBSET S : F(U \cap T) <= F(U) /\ F(U) >= 0
  BY <1>1
<1>3. S \cap T = T /\ S \in SUBSET S
  OBVIOUS
<1>4. F(T) \in Int
  BY SumTakeOut
<1> HIDE DEF F
<1>5. F(T) <= F(S) /\ F(T) \in Nat
  BY <1>2, <1>3, <1>4
<1> QED
  BY <1>5 DEF F

\* Nothing sums up to nothing.
LEMMA SumZero ==
  ASSUME NEW S, IsFiniteSet(S), NEW f, \A x \in S : f[x] = 0
  PROVE  SumFunctionOnSet(f, S) = 0
<1> DEFINE F(U) == SumFunctionOnSet(f, U)
           Bad == {U \in SUBSET S : F(U) # 0}
<1> SUFFICES ASSUME Bad # {} PROVE FALSE
  OBVIOUS
<1>1. PICK U \in Bad : \A x \in U : U \ {x} \notin Bad
  BY SmallestBad
<1>2. IsFiniteSet(U) /\ U \in SUBSET S /\ F(U) # 0
  BY <1>1, FS_Subset
<1>3. F({}) = 0 /\ \A y \in U : F(U) = f[y] + F(U \ {y})
  BY <1>2, SumTakeOut
<1>4. \A x \in U : F(U \ {x}) = 0
  BY <1>1, <1>2
<1> HIDE DEF F
<1>5. PICK y \in U : TRUE
  BY <1>2, <1>3
<1>6. F(U) = f[y] + F(U \ {y}) /\ F(U \ {y}) = 0 /\ f[y] = 0
  BY <1>2, <1>3, <1>4, <1>5
<1> QED
  BY <1>2, <1>6
=============================================================================
