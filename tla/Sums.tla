-------------------------------- MODULE Sums --------------------------------
(***************************************************************************)
(* Facts about finite sets of numbers, and about sums over finite sets as  *)
(* MapThenSumSet makes them: which element is taken first does not matter. *)
(***************************************************************************)
EXTENDS Integers, FiniteSetsExt, FiniteSetTheorems, WellFoundedInduction, TLAPS

-----------------------------------------------------------------------------
(* Induction, in forms without an operator.                                *)

LEMMA LeastNatural ==
  ASSUME NEW T \in SUBSET Nat, T # {}
  PROVE  \E n \in T : \A k \in T : n <= k
  <1> DEFINE R == OpToRel(<, Nat)
  <1>1. IsWellFoundedOn(R, Nat)
    BY Zenon, NatLessThanWellFounded
  <1>2. \A k, n \in Nat : k < n => <<k, n>> \in R
    BY DEF OpToRel
  <1> HIDE DEF R
  <1>3. PICK n \in T : \A k \in T : ~(<<k, n>> \in R)
    BY <1>1, WFMin
  <1>4. \A k \in T : ~(k < n)
    BY <1>2, <1>3
  <1>5. \A k \in T : n <= k
    BY <1>4
  <1> QED
    BY <1>5

\* A bounded set of naturals has a greatest element, and Max finds it.
LEMMA GreatestNatural ==
  ASSUME NEW n \in Nat, NEW K \in SUBSET (0..n), K # {}
  PROVE  Max(K) \in K /\ \A k \in K : k <= Max(K)
<1> DEFINE T == {t \in 0..n : n - t \in K}
<1>1. T \in SUBSET Nat /\ T # {}
  <2>1. PICK k \in K : TRUE
    OBVIOUS
  <2>2. k \in 0..n /\ n - k \in 0..n
    OBVIOUS
  <2>3. n - (n - k) = k
    BY <2>2
  <2>4. n - k \in T
    BY <2>2, <2>3
  <2>5. \A u \in T : u \in Nat
    OBVIOUS
  <2> HIDE DEF T
  <2> QED
    BY <2>4, <2>5
<1>2. PICK t \in T : \A u \in T : t <= u
  <2> HIDE DEF T
  <2> QED
    BY <1>1, LeastNatural
<1>3. n - t \in K /\ t \in 0..n
  BY <1>2
<1>4. \A k \in K : k <= n - t
  <2> TAKE k \in K
  <2>1. k \in 0..n /\ n - k \in 0..n /\ n - (n - k) = k
    OBVIOUS
  <2>2. n - k \in T
    BY <2>1
  <2>3. t <= n - k
    BY <1>2, <2>2
  <2> QED
    BY <1>3, <2>1, <2>3
<1>5. PICK m \in K : \A k \in K : k <= m
  BY <1>3, <1>4
<1>6. \E x \in K : \A y \in K : x >= y
  BY <1>5
<1>7. Max(K) \in K /\ \A y \in K : Max(K) >= y
  BY <1>6 DEF Max
<1> QED
  BY <1>7

\* A set of numbers that has 0, and with a number the next, has them all.
LEMMA AllNaturals ==
  ASSUME NEW F, 0 \in F, \A n \in Nat : n \in F => n + 1 \in F
  PROVE  \A n \in Nat : n \in F
<1> DEFINE T == Nat \ F
<1> SUFFICES ASSUME T # {} PROVE FALSE
  OBVIOUS
<1>1. PICK n \in T : \A k \in T : n <= k
  BY LeastNatural
<1>2. n - 1 \in Nat /\ n - 1 \notin T
  BY <1>1
<1> QED
  BY <1>2

\* A family of sets that has a set when it has it without any one element
\* has all subsets of a finite set.
LEMMA AllSubsets ==
  ASSUME NEW S, IsFiniteSet(S), NEW F,
         \A T \in SUBSET S : (\A x \in T : T \ {x} \in F) => T \in F
  PROVE  \A T \in SUBSET S : T \in F
<1> DEFINE Small(n) == \A T \in SUBSET S : Cardinality(T) <= n => T \in F
           N == {n \in Nat : Small(n)}
<1>1. \A T \in SUBSET S : IsFiniteSet(T) /\ Cardinality(T) \in Nat
  BY FS_Subset, FS_CardinalityType
<1>2. ASSUME NEW T \in SUBSET S, NEW x \in T
      PROVE  Cardinality(T \ {x}) = Cardinality(T) - 1
  BY <1>1, FS_RemoveElement
<1>3. 0 \in N
  <2> SUFFICES ASSUME NEW T \in SUBSET S, Cardinality(T) <= 0 PROVE T \in F
    OBVIOUS
  <2>1. T = {}
    BY <1>1, FS_EmptySet
  <2> QED
    BY <2>1
<1>4. ASSUME NEW n \in Nat, n \in N
      PROVE  n + 1 \in N
  <2> SUFFICES ASSUME NEW T \in SUBSET S, Cardinality(T) <= n + 1 PROVE T \in F
    OBVIOUS
  <2>1. ASSUME NEW x \in T PROVE T \ {x} \in F
    <3>1. Cardinality(T \ {x}) <= n
      BY <1>1, <1>2
    <3>2. Small(n)
      BY <1>4
    <3> QED
      BY <3>1, <3>2
  <2> QED
    BY <2>1
<1>5. \A n \in Nat : n \in N
  <2> HIDE DEF N
  <2> QED
    BY <1>3, <1>4, AllNaturals
<1> SUFFICES ASSUME NEW T \in SUBSET S PROVE T \in F
  OBVIOUS
<1>6. Cardinality(T) \in N
  BY <1>1, <1>5
<1> QED
  BY <1>1, <1>6

-----------------------------------------------------------------------------
(* The sum of f over a set.                                                *)

SumOf(f, S) == MapThenSumSet(LAMBDA x : f[x], S)

\* The element that is taken first.
Picked(s) == CHOOSE x \in s : TRUE

\* g has the sums of f over the sets in D, by the equation of MapThenFoldSet.
SumStep(f, D, g) ==
  [s \in D |-> IF s = {} THEN 0 ELSE f[Picked(s)] + g[s \ {Picked(s)}]]
IsSumOn(f, D, g) == g = SumStep(f, D, g)
IsSum(f, S, g) == IsSumOn(f, SUBSET S, g)

LEMMA SumEquation ==
  ASSUME NEW f, NEW S
  PROVE  SumOf(f, S) = (CHOOSE g : IsSum(f, S, g))[S]
BY DEF SumOf, MapThenSumSet, MapThenFoldSet, IsSum, IsSumOn, SumStep, Picked

\* There is such a g.
LEMMA SumExists ==
  ASSUME NEW f, NEW S, IsFiniteSet(S)
  PROVE  \E g : IsSum(f, S, g)
<1> DEFINE Small(n) == {s \in SUBSET S : Cardinality(s) <= n}
           N == {n \in Nat : \E g : IsSumOn(f, Small(n), g)}
<1>1. \A s \in SUBSET S : IsFiniteSet(s) /\ Cardinality(s) \in Nat /\ Cardinality(s) <= Cardinality(S)
  BY FS_Subset, FS_CardinalityType
<1>2. ASSUME NEW s \in SUBSET S, s # {}
      PROVE  /\ Picked(s) \in s
             /\ s \ {Picked(s)} \in SUBSET S
             /\ Cardinality(s \ {Picked(s)}) = Cardinality(s) - 1
  BY <1>1, <1>2, FS_RemoveElement DEF Picked
<1>3. 0 \in N
  <2> DEFINE g == [s \in Small(0) |-> 0]
  <2>1. \A s \in Small(0) : s = {}
    BY <1>1, FS_EmptySet
  <2>2. g = SumStep(f, Small(0), g)
    BY <2>1 DEF SumStep
  <2> QED
    BY <2>2 DEF IsSumOn
<1>4. ASSUME NEW n \in Nat, n \in N
      PROVE  n + 1 \in N
  <2>1. PICK g : IsSumOn(f, Small(n), g)
    BY <1>4
  <2> DEFINE h == SumStep(f, Small(n + 1), g)
  <2>2. ASSUME NEW s \in Small(n + 1), s # {}
        PROVE  g[s \ {Picked(s)}] = h[s \ {Picked(s)}]
    <3> DEFINE t == s \ {Picked(s)}
    <3>1. t \in Small(n) /\ t \in Small(n + 1)
      BY <1>1, <1>2, <2>2
    <3> HIDE DEF t, Small
    <3>2. g[t] = IF t = {} THEN 0 ELSE f[Picked(t)] + g[t \ {Picked(t)}]
      BY <2>1, <3>1 DEF IsSumOn, SumStep
    <3>3. h[t] = IF t = {} THEN 0 ELSE f[Picked(t)] + g[t \ {Picked(t)}]
      BY <3>1 DEF SumStep
    <3> QED
      BY <3>2, <3>3 DEF t
  <2>3. h = SumStep(f, Small(n + 1), h)
    <3> HIDE DEF Small
    <3> QED
      BY <2>2 DEF SumStep
  <2>4. \E k : IsSumOn(f, Small(n + 1), k)
    <3> HIDE DEF h, Small
    <3> QED
      BY <2>3, Zenon DEF IsSumOn
  <2> QED
    BY <2>4
<1>5. Cardinality(S) \in N
  <2>1. \A n \in Nat : n \in N
    <3> HIDE DEF N
    <3> QED
      BY <1>3, <1>4, AllNaturals
  <2> QED
    BY <1>1, <2>1
<1>6. Small(Cardinality(S)) = SUBSET S
  BY <1>1
<1> QED
  BY <1>5, <1>6 DEF IsSum

\* What an equation of sums yields.
LEMMA SumOfSubsets ==
  ASSUME NEW S, IsFiniteSet(S), NEW f, \A x \in S : f[x] \in Nat,
         NEW g, IsSum(f, S, g)
  PROVE  \A s \in SUBSET S :
           /\ g[s] \in Nat
           /\ s = {} => g[s] = 0
           /\ \A x \in s : g[s] = f[x] + g[s \ {x}]
<1>1. ASSUME NEW s \in SUBSET S, s # {}
      PROVE  Picked(s) \in s /\ g[s] = f[Picked(s)] + g[s \ {Picked(s)}]
  <2>1. Picked(s) \in s
    BY <1>1 DEF Picked
  <2>2. g[s] = f[Picked(s)] + g[s \ {Picked(s)}]
    BY <1>1 DEF IsSum, IsSumOn, SumStep
  <2> QED
    BY <2>1, <2>2
<1>2. g[{}] = 0
  BY DEF IsSum, IsSumOn, SumStep
<1>3. \A s \in SUBSET S : g[s] \in Nat
  <2> DEFINE F == {s \in SUBSET S : g[s] \in Nat}
  <2>1. ASSUME NEW s \in SUBSET S, \A x \in s : s \ {x} \in F
        PROVE  s \in F
    <3>1. CASE s = {}
      BY <3>1, <1>2
    <3>2. CASE s # {}
      <4>1. PICK p \in s : g[s] = f[p] + g[s \ {p}]
        BY <3>2, <1>1
      <4>2. g[s \ {p}] \in Nat /\ f[p] \in Nat
        BY <2>1
      <4> QED
        BY <4>1, <4>2
    <3> QED
      BY <3>1, <3>2
  <2>2. \A s \in SUBSET S : s \in F
    <3> HIDE DEF F
    <3> QED
      BY <2>1, AllSubsets
  <2> QED
    BY <2>2
<1>4. \A s \in SUBSET S : \A x \in s : g[s] = f[x] + g[s \ {x}]
  <2> DEFINE F == {s \in SUBSET S : \A x \in s : g[s] = f[x] + g[s \ {x}]}
  <2>1. ASSUME NEW s \in SUBSET S, \A x \in s : s \ {x} \in F, NEW x \in s
        PROVE  g[s] = f[x] + g[s \ {x}]
    <3>1. PICK p : p = Picked(s)
      OBVIOUS
    <3>2. p \in s /\ p \in S /\ g[s] = f[p] + g[s \ {p}]
      BY <1>1, <3>1
    <3>3. CASE x # p
      <4>1. PICK t \in SUBSET S : t = (s \ {p}) \ {x} /\ t = (s \ {x}) \ {p}
        OBVIOUS
      <4>2. g[s \ {p}] = f[x] + g[t]
        <5>1. s \ {p} \in F /\ x \in s \ {p}
          BY <2>1, <3>2, <3>3
        <5> QED
          BY <4>1, <5>1
      <4>3. g[s \ {x}] = f[p] + g[t]
        <5>1. s \ {x} \in F /\ p \in s \ {x}
          BY <2>1, <3>2, <3>3
        <5> QED
          BY <4>1, <5>1
      <4>4. f[x] \in Nat /\ f[p] \in Nat /\ g[t] \in Nat
        BY <1>3, <3>2
      <4> QED
        BY <3>2, <4>2, <4>3, <4>4
    <3> QED
      BY <3>2, <3>3
  <2>2. \A s \in SUBSET S : s \in F
    <3>1. ASSUME NEW s \in SUBSET S, \A x \in s : s \ {x} \in F
          PROVE  s \in F
      BY <2>1, <3>1
    <3> HIDE DEF F
    <3> QED
      BY <3>1, AllSubsets
  <2> QED
    BY <2>2
<1> QED
  BY <1>2, <1>3, <1>4

\* f and h have the same numbers on U, a part of S and of T.
Agree(f, h, U, S, T) ==
  U \subseteq S /\ U \subseteq T /\ \A x \in U : f[x] \in Nat /\ f[x] = h[x]

\* Two such equations, where f and h agree.
LEMMA SumsAgree ==
  ASSUME NEW S, IsFiniteSet(S), NEW T, NEW U, NEW f, NEW h, Agree(f, h, U, S, T),
         NEW g, IsSum(f, S, g), NEW k, IsSum(h, T, k)
  PROVE  g[U] = k[U]
<1> USE DEF Agree
<1> DEFINE F == {s \in SUBSET U : g[s] = k[s]}
<1>1. ASSUME NEW s \in SUBSET U, \A x \in s : s \ {x} \in F
      PROVE  s \in F
  <2>1. s \in SUBSET S /\ s \in SUBSET T
    OBVIOUS
  <2>2. CASE s = {}
    <3>1. g[s] = 0 /\ k[s] = 0
      BY <2>1, <2>2 DEF IsSum, IsSumOn, SumStep
    <3> QED
      BY <3>1
  <2>3. CASE s # {}
    <3>1. PICK p : p = Picked(s)
      OBVIOUS
    <3>2. p \in s
      BY <2>3, <3>1 DEF Picked
    <3>3. g[s] = f[p] + g[s \ {p}]
      BY <2>1, <2>3, <3>1 DEF IsSum, IsSumOn, SumStep
    <3>4. k[s] = h[p] + k[s \ {p}]
      BY <2>1, <2>3, <3>1 DEF IsSum, IsSumOn, SumStep
    <3>5. g[s \ {p}] = k[s \ {p}] /\ f[p] = h[p]
      BY <1>1, <3>2
    <3> QED
      BY <3>3, <3>4, <3>5
  <2> QED
    BY <2>2, <2>3
<1>2. IsFiniteSet(U)
  BY FS_Subset
<1>3. \A s \in SUBSET U : s \in F
  <2> HIDE DEF F
  <2> QED
    BY <1>1, <1>2, AllSubsets
<1> QED
  BY <1>3

\* The sum is what any equation yields.
LEMMA SumIs ==
  ASSUME NEW S, IsFiniteSet(S), NEW T \in SUBSET S,
         NEW f, \A x \in S : f[x] \in Nat, NEW g, IsSum(f, S, g)
  PROVE  SumOf(f, T) = g[T]
<1>1. IsFiniteSet(T)
  BY FS_Subset
<1>2. \E k : IsSum(f, T, k)
  BY <1>1, SumExists
<1>3. PICK k : /\ k = CHOOSE j : IsSum(f, T, j)
               /\ IsSum(f, T, k)
  BY <1>2
<1>4. g[T] = k[T]
  <2>1. Agree(f, f, T, S, T)
    BY DEF Agree
  <2> QED
    BY <1>3, <2>1, SumsAgree
<1>5. SumOf(f, T) = k[T]
  BY <1>3, SumEquation, Zenon
<1> QED
  BY <1>4, <1>5

-----------------------------------------------------------------------------
(* What the rest is proved from.                                           *)

\* The sum over nothing is 0.
LEMMA SumEmpty ==
  ASSUME NEW f
  PROVE  SumOf(f, {}) = 0
<1>1. IsFiniteSet({})
  BY FS_EmptySet
<1>2. PICK g : IsSum(f, {}, g)
  BY <1>1, SumExists
<1>3. SumOf(f, {}) = g[{}]
  BY <1>1, <1>2, SumIs
<1> QED
  BY <1>1, <1>2, <1>3, SumOfSubsets

\* A sum of zeros.
LEMMA SumZero ==
  ASSUME NEW S, IsFiniteSet(S), NEW f, \A x \in S : f[x] = 0
  PROVE  SumOf(f, S) = 0
<1> DEFINE g == [s \in SUBSET S |-> 0]
<1>1. \A s \in SUBSET S : s # {} => f[Picked(s)] = 0 /\ s \ {Picked(s)} \in SUBSET S
  BY DEF Picked
<1>2. \A s \in SUBSET S :
        0 = IF s = {} THEN 0 ELSE f[Picked(s)] + g[s \ {Picked(s)}]
  BY <1>1
<1>3. IsSum(f, S, g)
  <2> HIDE DEF g
  <2>1. g = [s \in SUBSET S |-> 0]
    BY DEF g
  <2> QED
    BY <1>2, <2>1 DEF IsSum, IsSumOn, SumStep
<1>4. SumOf(f, S) = g[S]
  <2> HIDE DEF g
  <2> QED
    BY <1>3, SumIs
<1> QED
  BY <1>4

\* A sum is any of its numbers and the sum of the others.
LEMMA SumRemove ==
  ASSUME NEW S, IsFiniteSet(S), NEW f, \A x \in S : f[x] \in Nat, NEW x \in S
  PROVE  SumOf(f, S) = f[x] + SumOf(f, S \ {x})
<1>1. PICK g : IsSum(f, S, g)
  BY SumExists
<1>2. SumOf(f, S) = g[S] /\ SumOf(f, S \ {x}) = g[S \ {x}]
  BY <1>1, SumIs
<1>3. g[S] = f[x] + g[S \ {x}]
  BY <1>1, SumOfSubsets
<1> QED
  BY <1>2, <1>3

LEMMA SumIsNat ==
  ASSUME NEW S, IsFiniteSet(S), NEW f, \A x \in S : f[x] \in Nat
  PROVE  SumOf(f, S) \in Nat
<1>1. PICK g : IsSum(f, S, g)
  BY SumExists
<1>2. SumOf(f, S) = g[S]
  BY <1>1, SumIs
<1>3. g[S] \in Nat
  BY <1>1, SumOfSubsets
<1> QED
  BY <1>2, <1>3

\* Only the numbers of the set itself count.
LEMMA SumSame ==
  ASSUME NEW S, IsFiniteSet(S), NEW f, NEW h, \A x \in S : f[x] \in Nat /\ f[x] = h[x]
  PROVE  SumOf(f, S) = SumOf(h, S)
<1>1. PICK g : IsSum(f, S, g)
  BY SumExists
<1>2. PICK k : IsSum(h, S, k)
  BY SumExists
<1>3. SumOf(f, S) = g[S]
  BY <1>1, SumIs
<1>4. SumOf(h, S) = k[S]
  <2>1. \A x \in S : h[x] \in Nat
    OBVIOUS
  <2> QED
    BY <1>2, <2>1, SumIs
<1>5. g[S] = k[S]
  <2>1. Agree(f, h, S, S, S)
    BY DEF Agree
  <2> QED
    BY <1>1, <1>2, <2>1, SumsAgree
<1> QED
  BY <1>3, <1>4, <1>5

\* One element more, that had no number before.
LEMMA SumAdd ==
  ASSUME NEW S, IsFiniteSet(S), NEW x, x \notin S,
         NEW f, \A y \in S \cup {x} : f[y] \in Nat
  PROVE  SumOf(f, S \cup {x}) = SumOf(f, S) + f[x]
<1>1. IsFiniteSet(S \cup {x}) /\ (S \cup {x}) \ {x} = S
  BY FS_AddElement
<1>2. SumOf(f, S \cup {x}) = f[x] + SumOf(f, S)
  BY <1>1, SumRemove
<1>3. f[x] \in Nat /\ SumOf(f, S) \in Nat
  BY SumIsNat
<1> QED
  BY <1>2, <1>3

\* A number that grows by n makes the sum grow by n.
LEMMA SumGrows ==
  ASSUME NEW S, IsFiniteSet(S), NEW f, \A y \in S : f[y] \in Nat,
         NEW x \in S, NEW n \in Nat, NEW h,
         h[x] = f[x] + n, \A y \in S \ {x} : h[y] = f[y]
  PROVE  SumOf(h, S) = SumOf(f, S) + n
<1>1. SumOf(f, S) = f[x] + SumOf(f, S \ {x})
  BY SumRemove
<1>2. \A y \in S : h[y] \in Nat
  OBVIOUS
<1>3. SumOf(h, S) = h[x] + SumOf(h, S \ {x})
  BY <1>2, SumRemove
<1>4. IsFiniteSet(S \ {x})
  BY FS_Subset
<1>5. SumOf(f, S \ {x}) = SumOf(h, S \ {x})
  BY <1>4, SumSame
<1>6. f[x] \in Nat /\ SumOf(f, S \ {x}) \in Nat
  BY <1>4, SumIsNat
<1> QED
  BY <1>1, <1>3, <1>5, <1>6

\* The sum over two sets that have nothing in common.
LEMMA SumUnion ==
  ASSUME NEW S, IsFiniteSet(S), NEW T, IsFiniteSet(T), S \cap T = {},
         NEW f, \A x \in S \cup T : f[x] \in Nat
  PROVE  SumOf(f, S \cup T) = SumOf(f, S) + SumOf(f, T)
<1> DEFINE F == {U \in SUBSET T : SumOf(f, S \cup U) = SumOf(f, S) + SumOf(f, U)}
<1>1. ASSUME NEW U \in SUBSET T, \A x \in U : U \ {x} \in F
      PROVE  U \in F
  <2>1. CASE U = {}
    <3>1. SumOf(f, {}) = 0 /\ SumOf(f, S) \in Nat /\ S \cup {} = S
      BY SumEmpty, SumIsNat
    <3> QED
      BY <2>1, <3>1
  <2>2. CASE U # {}
    <3>1. PICK x \in U : TRUE
      BY <2>2
    <3>2. IsFiniteSet(U) /\ IsFiniteSet(S \cup U)
      BY FS_Subset, FS_Union
    <3>3. SumOf(f, S \cup U) = f[x] + SumOf(f, (S \cup U) \ {x})
      <4>1. \A y \in S \cup U : f[y] \in Nat
        OBVIOUS
      <4> QED
        BY <3>2, <4>1, SumRemove
    <3>4. (S \cup U) \ {x} = S \cup (U \ {x})
      OBVIOUS
    <3>5. SumOf(f, S \cup (U \ {x})) = SumOf(f, S) + SumOf(f, U \ {x})
      BY <1>1
    <3>6. SumOf(f, U) = f[x] + SumOf(f, U \ {x})
      <4>1. \A y \in U : f[y] \in Nat
        OBVIOUS
      <4> QED
        BY <3>2, <4>1, SumRemove
    <3>7. SumOf(f, S) \in Nat /\ SumOf(f, U \ {x}) \in Nat /\ f[x] \in Nat
      <4>1. IsFiniteSet(U \ {x})
        BY <3>2, FS_Subset
      <4> QED
        BY <4>1, SumIsNat
    <3> QED
      BY <3>3, <3>4, <3>5, <3>6, <3>7
  <2> QED
    BY <2>1, <2>2
<1>2. \A U \in SUBSET T : U \in F
  <2> HIDE DEF F
  <2> QED
    BY <1>1, AllSubsets
<1>3. T \in F
  BY <1>2
<1> QED
  BY <1>3

\* The groups E[x], for x in G, have nothing in common.
Grouped(E, G) ==
  /\ \A x \in G : IsFiniteSet(E[x])
  /\ \A x, y \in G : x # y => E[x] \cap E[y] = {}

InGroups(E, G) == UNION {E[x] : x \in G}

LEMMA GroupAdded ==
  ASSUME NEW E, NEW G, Grouped(E, G), NEW x \in G
  PROVE  /\ InGroups(E, G) = InGroups(E, G \ {x}) \cup E[x]
         /\ InGroups(E, G \ {x}) \cap E[x] = {}
         /\ Grouped(E, G \ {x})
BY DEF InGroups, Grouped

LEMMA GroupsFinite ==
  ASSUME NEW E, NEW G, IsFiniteSet(G), \A x \in G : IsFiniteSet(E[x])
  PROVE  IsFiniteSet(InGroups(E, G))
<1> DEFINE F == {H \in SUBSET G : IsFiniteSet(InGroups(E, H))}
<1>1. ASSUME NEW H \in SUBSET G, \A x \in H : H \ {x} \in F
      PROVE  H \in F
  <2>1. CASE H = {}
    <3>1. InGroups(E, H) = {}
      BY <2>1 DEF InGroups
    <3> QED
      BY <3>1, FS_EmptySet
  <2>2. CASE H # {}
    <3>1. PICK x \in H : TRUE
      BY <2>2
    <3>2. InGroups(E, H) = InGroups(E, H \ {x}) \cup E[x]
      BY DEF InGroups
    <3>3. IsFiniteSet(InGroups(E, H \ {x})) /\ IsFiniteSet(E[x])
      BY <1>1
    <3> QED
      BY <3>2, <3>3, FS_Union
  <2> QED
    BY <2>1, <2>2
<1>2. \A H \in SUBSET G : H \in F
  <2> HIDE DEF F
  <2> QED
    BY <1>1, AllSubsets
<1> QED
  BY <1>2

\* The sum over all groups is the sum of the sums of each.
LEMMA SumOfGroups ==
  ASSUME NEW G, IsFiniteSet(G), NEW E, Grouped(E, G),
         NEW f, \A y \in InGroups(E, G) : f[y] \in Nat,
         NEW h, \A x \in G : h[x] = SumOf(f, E[x])
  PROVE  SumOf(f, InGroups(E, G)) = SumOf(h, G)
<1> DEFINE F == {H \in SUBSET G : SumOf(f, InGroups(E, H)) = SumOf(h, H)}
<1>1. \A H \in SUBSET G : /\ IsFiniteSet(H) /\ Grouped(E, H)
                          /\ \A y \in InGroups(E, H) : f[y] \in Nat
  <2>1. \A H \in SUBSET G : InGroups(E, H) \subseteq InGroups(E, G)
    BY DEF InGroups
  <2>2. \A H \in SUBSET G : Grouped(E, H)
    BY DEF Grouped
  <2> QED
    BY <2>1, <2>2, FS_Subset
<1>2. \A x \in G : IsFiniteSet(E[x]) /\ \A y \in E[x] : f[y] \in Nat
  BY DEF Grouped, InGroups
<1>3. \A x \in G : h[x] \in Nat
  BY <1>2, SumIsNat
<1>4. ASSUME NEW H \in SUBSET G, \A x \in H : H \ {x} \in F
      PROVE  H \in F
  <2>1. CASE H = {}
    <3>1. InGroups(E, H) = {}
      BY <2>1 DEF InGroups
    <3> QED
      BY <2>1, <3>1, SumEmpty
  <2>2. CASE H # {}
    <3>1. PICK x \in H : TRUE
      BY <2>2
    <3>2. PICK K \in SUBSET G : K = H \ {x} /\ K \in F
      BY <1>4
    <3>3. PICK A : A = InGroups(E, K)
      OBVIOUS
    <3>4. PICK B : B = E[x]
      OBVIOUS
    <3>5. InGroups(E, H) = A \cup B /\ A \cap B = {}
      BY <1>1, <3>2, <3>3, <3>4, GroupAdded
    <3>6. IsFiniteSet(A) /\ IsFiniteSet(B)
      <4>1. \A y \in K : IsFiniteSet(E[y])
        BY <1>2
      <4> QED
        BY <1>1, <1>2, <3>3, <3>4, <4>1, GroupsFinite
    <3>7. \A y \in A \cup B : f[y] \in Nat
      BY <1>1, <3>5
    <3>8. SumOf(f, A \cup B) = SumOf(f, A) + SumOf(f, B)
      BY <3>5, <3>6, <3>7, SumUnion
    <3>9. SumOf(h, H) = h[x] + SumOf(h, K)
      <4>1. IsFiniteSet(H) /\ \A y \in H : h[y] \in Nat
        BY <1>1, <1>3
      <4> QED
        BY <3>2, <4>1, SumRemove
    <3>10. SumOf(f, A) = SumOf(h, K) /\ SumOf(f, B) = h[x]
      BY <3>2, <3>3, <3>4
    <3>11. h[x] \in Nat /\ SumOf(h, K) \in Nat
      BY <1>1, <1>3, SumIsNat
    <3>12. SumOf(f, InGroups(E, H)) = SumOf(f, A \cup B)
      BY <3>5, Zenon
    <3>13. SumOf(f, InGroups(E, H)) = SumOf(h, H)
      BY <3>8, <3>9, <3>10, <3>11, <3>12
    <3> QED
      BY <3>13
  <2> QED
    BY <2>1, <2>2
<1>5. \A H \in SUBSET G : H \in F
  <2> HIDE DEF F
  <2> QED
    BY <1>4, AllSubsets
<1>6. G \in F
  BY <1>5
<1> QED
  BY <1>6

\* The number of elements in all groups is the sum of the numbers in each.
LEMMA CardinalityOfGroups ==
  ASSUME NEW G, IsFiniteSet(G), NEW E, Grouped(E, G),
         NEW h, \A x \in G : h[x] = Cardinality(E[x])
  PROVE  Cardinality(InGroups(E, G)) = SumOf(h, G)
<1> DEFINE F == {H \in SUBSET G : Cardinality(InGroups(E, H)) = SumOf(h, H)}
<1>1. \A H \in SUBSET G : IsFiniteSet(H) /\ Grouped(E, H)
  <2>1. \A H \in SUBSET G : Grouped(E, H)
    BY DEF Grouped
  <2> QED
    BY <2>1, FS_Subset
<1>2. \A x \in G : IsFiniteSet(E[x])
  BY DEF Grouped
<1>3. \A x \in G : h[x] \in Nat
  BY <1>2, FS_CardinalityType
<1>4. ASSUME NEW H \in SUBSET G, \A x \in H : H \ {x} \in F
      PROVE  H \in F
  <2>1. CASE H = {}
    <3>1. InGroups(E, H) = {}
      BY <2>1 DEF InGroups
    <3> QED
      BY <2>1, <3>1, SumEmpty, FS_EmptySet
  <2>2. CASE H # {}
    <3>1. PICK x \in H : TRUE
      BY <2>2
    <3>2. PICK K \in SUBSET G : K = H \ {x} /\ K \in F
      BY <1>4
    <3>3. PICK A : A = InGroups(E, K)
      OBVIOUS
    <3>4. PICK B : B = E[x]
      OBVIOUS
    <3>5. InGroups(E, H) = A \cup B /\ A \cap B = {}
      BY <1>1, <3>2, <3>3, <3>4, GroupAdded
    <3>6. IsFiniteSet(A) /\ IsFiniteSet(B)
      <4>1. \A y \in K : IsFiniteSet(E[y])
        BY <1>2
      <4> QED
        BY <1>1, <1>2, <3>3, <3>4, <4>1, GroupsFinite
    <3>7. Cardinality(A \cup B) = Cardinality(A) + Cardinality(B)
      <4>1. Cardinality(A \cup B) = Cardinality(A) + Cardinality(B) - Cardinality(A \cap B)
        BY <3>6, FS_Union
      <4>2. Cardinality(A \cap B) = 0
        BY <3>5, FS_EmptySet
      <4>3. Cardinality(A) \in Nat /\ Cardinality(B) \in Nat
        BY <3>6, FS_CardinalityType
      <4> QED
        BY <4>1, <4>2, <4>3
    <3>8. SumOf(h, H) = h[x] + SumOf(h, K)
      <4>1. IsFiniteSet(H) /\ \A y \in H : h[y] \in Nat
        BY <1>1, <1>3
      <4> QED
        BY <3>2, <4>1, SumRemove
    <3>9. Cardinality(A) = SumOf(h, K) /\ Cardinality(B) = h[x]
      BY <3>2, <3>3, <3>4
    <3>10. h[x] \in Nat /\ SumOf(h, K) \in Nat
      BY <1>1, <1>3, SumIsNat
    <3>11. Cardinality(InGroups(E, H)) = Cardinality(A \cup B)
      BY <3>5, Zenon
    <3>12. Cardinality(InGroups(E, H)) = SumOf(h, H)
      BY <3>7, <3>8, <3>9, <3>10, <3>11
    <3> QED
      BY <3>12
  <2> QED
    BY <2>1, <2>2
<1>5. \A H \in SUBSET G : H \in F
  <2> HIDE DEF F
  <2> QED
    BY <1>4, AllSubsets
<1>6. G \in F
  BY <1>5
<1> QED
  BY <1>6

=============================================================================
