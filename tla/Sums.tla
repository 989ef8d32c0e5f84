--------------------------------- MODULE Sums ---------------------------------
(***************************************************************************)
(* Sums over finite sets as MapThenSumSet makes them, and the facts about  *)
(* them that the other proofs need.  Induction is by least counterexample. *)
(***************************************************************************)
EXTENDS FiniteSetsExt, Integers, FiniteSetTheorems, WellFoundedInduction, TLAPS

SumOf(w, S) == MapThenSumSet(LAMBDA x : w[x], S)

-----------------------------------------------------------------------------
(* Least counterexamples                                                   *)

\* A set of naturals has a least one.
LEMMA LeastNat ==
  ASSUME NEW T \in SUBSET Nat, T # {}
  PROVE  \E m \in T : \A n \in T : m <= n
<1>1. PICK m \in T : \A n \in T : ~(<<n, m>> \in OpToRel(<, Nat))
  BY NatLessThanWellFounded, WFMin
<1>2. \A n \in T : ~(n < m)
  BY <1>1 DEF OpToRel
<1>3. QED
  BY <1>2

\* A set of naturals with a bound has a greatest one, which Max chooses.
LEMMA GreatestNat ==
  ASSUME NEW n \in Nat, NEW T \in SUBSET (0..n), T # {}
  PROVE  Max(T) \in T /\ \A x \in T : x <= Max(T)
<1> DEFINE Rest == {n - x : x \in T}
<1>1. Rest \in SUBSET Nat /\ Rest # {}
  <2>1. \A x \in T : n - x \in Nat
    <3>1. \A x \in 0..n : n - x \in Nat
      OBVIOUS
    <3>2. QED
      BY <3>1
  <2>2. QED
    BY <2>1
<1>2. PICK m \in Rest : \A k \in Rest : m <= k
  <2> HIDE DEF Rest
  <2>1. QED
    BY <1>1, LeastNat
<1>3. PICK x \in T : m = n - x
  BY <1>2
<1>4. \A y \in T : x >= y
  <2>1. ASSUME NEW y \in T
        PROVE  x >= y
    <3>1. m <= n - y
      BY <1>2
    <3>2. x \in 0..n /\ y \in 0..n
      OBVIOUS
    <3>3. QED
      BY <1>3, <3>1, <3>2
  <2>2. QED
    BY <2>1
<1> HIDE DEF Rest
<1>5. QED
  BY <1>3, <1>4 DEF Max

\* A set of subsets of a finite set has a minimal one: it holds none of those with
\* one element less.
LEMMA MinimalSet ==
  ASSUME NEW S, IsFiniteSet(S), NEW T \in SUBSET (SUBSET S), T # {}
  PROVE  \E t \in T : \A x \in t : t \ {x} \notin T
<1> DEFINE Sizes == {Cardinality(t) : t \in T}
<1>1. \A t \in T : IsFiniteSet(t) /\ Cardinality(t) \in Nat
  BY FS_Subset, FS_CardinalityType
<1>2. PICK m \in Sizes : \A n \in Sizes : m <= n
  <2>1. Sizes \in SUBSET Nat /\ Sizes # {}
    BY <1>1
  <2> HIDE DEF Sizes
  <2>2. QED
    BY <2>1, LeastNat
<1>3. PICK t \in T : m = Cardinality(t)
  BY <1>2
<1>4. ASSUME NEW x \in t, t \ {x} \in T
      PROVE  FALSE
  <2>1. Cardinality(t \ {x}) = Cardinality(t) - 1
    BY <1>1, <1>4, FS_RemoveElement
  <2>2. Cardinality(t) <= Cardinality(t \ {x})
    BY <1>2, <1>3, <1>4
  <2>3. QED
    BY <1>1, <2>1, <2>2
<1>5. QED
  BY <1>3, <1>4

-----------------------------------------------------------------------------
(* The recursion                                                           *)

Any(s) == CHOOSE x \in s : TRUE

\* The equation of the recursive function of MapThenFoldSet.
Sums(w, S, g) ==
  g = [s \in S |-> IF s = {} THEN 0 ELSE w[Any(s)] + g[s \ {Any(s)}]]

UpToSize(S, n) == {s \in SUBSET S : Cardinality(s) <= n}

\* It has a solution: one for the sets of a size extends to the next size.
LEMMA SumsExtend ==
  ASSUME NEW w, NEW S, IsFiniteSet(S), NEW n \in Nat, NEW g, Sums(w, UpToSize(S, n), g)
  PROVE  \E h : Sums(w, UpToSize(S, n + 1), h)
<1> DEFINE h == [s \in UpToSize(S, n + 1) |->
                   IF s = {} THEN 0 ELSE w[Any(s)] + g[s \ {Any(s)}]]
<1>1. ASSUME NEW s \in UpToSize(S, n)
      PROVE  h[s] = g[s]
  <2>1. s \in UpToSize(S, n + 1)
    <3>1. Cardinality(s) \in Nat
      BY FS_Subset, FS_CardinalityType DEF UpToSize
    <3>2. QED
      BY <3>1 DEF UpToSize
  <2>2. QED
    BY <2>1 DEF Sums
<1>2. ASSUME NEW s \in UpToSize(S, n + 1), s # {}
      PROVE  s \ {Any(s)} \in UpToSize(S, n)
  <2>1. Any(s) \in s
    BY <1>2 DEF Any
  <2>2. IsFiniteSet(s) /\ Cardinality(s) \in Nat
    BY FS_Subset, FS_CardinalityType DEF UpToSize
  <2>3. Cardinality(s \ {Any(s)}) = Cardinality(s) - 1
    BY <2>1, <2>2, FS_RemoveElement
  <2>4. QED
    BY <2>2, <2>3 DEF UpToSize
<1>3. \A s \in UpToSize(S, n + 1) : s # {} => h[s \ {Any(s)}] = g[s \ {Any(s)}]
  BY <1>1, <1>2
<1>4. h = [s \in UpToSize(S, n + 1) |->
             IF s = {} THEN 0 ELSE w[Any(s)] + h[s \ {Any(s)}]]
  BY <1>3
<1>5. QED
  BY <1>4 DEF Sums

LEMMA SumsExist ==
  ASSUME NEW w, NEW S, IsFiniteSet(S)
  PROVE  \E g : Sums(w, SUBSET S, g)
<1> DEFINE Bad == {n \in Nat : ~ \E g : Sums(w, UpToSize(S, n), g)}
<1>1. 0 \notin Bad
  <2>1. \A s \in UpToSize(S, 0) : s = {}
    <3>1. \A s \in SUBSET S : IsFiniteSet(s) /\ Cardinality(s) \in Nat
      BY FS_Subset, FS_CardinalityType
    <3>2. QED
      BY <3>1, FS_EmptySet DEF UpToSize
  <2>2. Sums(w, UpToSize(S, 0), [s \in UpToSize(S, 0) |-> 0])
    BY <2>1 DEF Sums
  <2>3. QED
    BY <2>2
<1>2. \A n \in Nat : n \notin Bad => n + 1 \notin Bad
  BY SumsExtend
<1>3. Bad = {}
  <2>1. SUFFICES ASSUME Bad # {}
                 PROVE  FALSE
    OBVIOUS
  <2>2. PICK m \in Bad : \A n \in Bad : m <= n
    <3>1. Bad \in SUBSET Nat
      OBVIOUS
    <3> HIDE DEF Bad
    <3>2. QED
      BY <2>1, <3>1, LeastNat
  <2>3. m \in Nat /\ m # 0
    BY <1>1
  <2> HIDE DEF Bad
  <2>4. m - 1 \in Nat /\ m - 1 \notin Bad /\ (m - 1) + 1 = m
    BY <2>2, <2>3
  <2>5. QED
    BY <1>2, <2>4
<1>4. Cardinality(S) \in Nat
  BY FS_CardinalityType
<1>5. UpToSize(S, Cardinality(S)) = SUBSET S
  BY FS_Subset DEF UpToSize
<1>6. \E g : Sums(w, UpToSize(S, Cardinality(S)), g)
  BY <1>3, <1>4
<1>7. QED
  BY <1>5, <1>6

\* The sums of all subsets of S, each an element and the sum of the others.
AddsUp(w, S, g) ==
  /\ g[{}] = 0
  /\ \A s \in SUBSET S : s # {} => Any(s) \in s /\ g[s] = w[Any(s)] + g[s \ {Any(s)}]

LEMMA SumsAddUp ==
  ASSUME NEW w, NEW S, NEW g, Sums(w, SUBSET S, g)
  PROVE  AddsUp(w, S, g)
<1>1. g[{}] = 0 /\ \A s \in SUBSET S : s # {} => g[s] = w[Any(s)] + g[s \ {Any(s)}]
  BY DEF Sums
<1>2. \A s \in SUBSET S : s # {} => Any(s) \in s
  BY DEF Any
<1>3. QED
  BY <1>1, <1>2 DEF AddsUp

LEMMA SumOfSubsets ==
  ASSUME NEW w, NEW S, IsFiniteSet(S)
  PROVE  \E g : SumOf(w, S) = g[S] /\ AddsUp(w, S, g)
<1> DEFINE f == CHOOSE g : Sums(w, SUBSET S, g)
<1>1. Sums(w, SUBSET S, f)
  BY SumsExist
<1>2. SumOf(w, S) = f[S]
  BY DEF SumOf, MapThenSumSet, MapThenFoldSet, Sums, Any
<1> HIDE DEF f
<1>3. QED
  BY <1>1, <1>2, SumsAddUp

\* Whatever adds up is the sum.
LEMMA SumIsUnique ==
  ASSUME NEW w, NEW S, IsFiniteSet(S), NEW f, AddsUp(w, S, f)
  PROVE  f[S] = SumOf(w, S)
<1>1. PICK g : SumOf(w, S) = g[S] /\ AddsUp(w, S, g)
  BY SumOfSubsets
<1> DEFINE Bad == {s \in SUBSET S : f[s] # g[s]}
<1>2. ASSUME NEW s \in Bad
      PROVE  Any(s) \in s /\ s \ {Any(s)} \in Bad
  <2>1. s \in SUBSET S /\ f[s] # g[s]
    OBVIOUS
  <2>2. s # {}
    BY <1>1, <2>1 DEF AddsUp
  <2>3. /\ Any(s) \in s
        /\ f[s] = w[Any(s)] + f[s \ {Any(s)}]
        /\ g[s] = w[Any(s)] + g[s \ {Any(s)}]
    BY <1>1, <2>1, <2>2 DEF AddsUp
  <2>4. s \ {Any(s)} \in SUBSET S
    BY <2>1
  <2>5. QED
    BY <2>1, <2>3, <2>4
<1>3. Bad \in SUBSET (SUBSET S)
  OBVIOUS
<1>4. S \notin Bad => f[S] = g[S]
  OBVIOUS
<1> HIDE DEF Bad
<1>5. QED
  BY <1>1, <1>2, <1>3, <1>4, MinimalSet

-----------------------------------------------------------------------------
(* What a sum is                                                           *)

\* A sum of naturals is one.
LEMMA SumNat ==
  ASSUME NEW S, IsFiniteSet(S), NEW w, \A x \in S : w[x] \in Nat
  PROVE  SumOf(w, S) \in Nat
<1>1. PICK g : SumOf(w, S) = g[S] /\ AddsUp(w, S, g)
  BY SumOfSubsets
<1> DEFINE Bad == {s \in SUBSET S : g[s] \notin Nat}
<1>2. ASSUME NEW s \in Bad
      PROVE  Any(s) \in s /\ s \ {Any(s)} \in Bad
  <2>1. s \in SUBSET S /\ g[s] \notin Nat
    OBVIOUS
  <2>2. Any(s) \in s /\ g[s] = w[Any(s)] + g[s \ {Any(s)}]
    <3>1. ASSUME s = {}
          PROVE  FALSE
      <4>1. g[s] = 0
        BY <1>1, <3>1 DEF AddsUp
      <4>2. QED
        BY <2>1, <4>1
    <3>2. QED
      BY <1>1, <2>1, <3>1 DEF AddsUp
  <2>3. w[Any(s)] \in Nat
    BY <2>1, <2>2
  <2>4. s \ {Any(s)} \in SUBSET S
    BY <2>1
  <2>5. QED
    BY <2>1, <2>2, <2>3, <2>4
<1>3. Bad \in SUBSET (SUBSET S)
  OBVIOUS
<1>4. S \notin Bad => g[S] \in Nat
  OBVIOUS
<1> HIDE DEF Bad
<1>5. QED
  BY <1>1, <1>2, <1>3, <1>4, MinimalSet

\* Nothing is the sum of nothing.
LEMMA SumEmpty ==
  ASSUME NEW w
  PROVE  SumOf(w, {}) = 0
  BY FS_EmptySet, SumOfSubsets DEF AddsUp

\* Terms that grow make no smaller sum.
LEMMA SumMonotone ==
  ASSUME NEW S, IsFiniteSet(S), NEW v, NEW w,
         \A x \in S : v[x] \in Nat /\ w[x] \in Nat /\ v[x] <= w[x]
  PROVE  SumOf(v, S) <= SumOf(w, S)
<1>1. PICK f : SumOf(v, S) = f[S] /\ AddsUp(v, S, f)
  BY SumOfSubsets
<1>2. PICK g : SumOf(w, S) = g[S] /\ AddsUp(w, S, g)
  BY SumOfSubsets
<1> DEFINE Good(s) == f[s] \in Nat /\ g[s] \in Nat /\ f[s] <= g[s]
           Bad == {s \in SUBSET S : ~Good(s)}
<1>3. ASSUME NEW s \in Bad
      PROVE  Any(s) \in s /\ s \ {Any(s)} \in Bad
  <2>1. s \in SUBSET S /\ ~Good(s)
    OBVIOUS
  <2>2. /\ Any(s) \in s
        /\ f[s] = v[Any(s)] + f[s \ {Any(s)}]
        /\ g[s] = w[Any(s)] + g[s \ {Any(s)}]
    <3>1. ASSUME s = {}
          PROVE  FALSE
      <4>1. f[s] = 0 /\ g[s] = 0
        BY <1>1, <1>2, <3>1 DEF AddsUp
      <4>2. QED
        BY <2>1, <4>1
    <3>2. QED
      BY <1>1, <1>2, <2>1, <3>1 DEF AddsUp
  <2>3. v[Any(s)] \in Nat /\ w[Any(s)] \in Nat /\ v[Any(s)] <= w[Any(s)]
    BY <2>1, <2>2
  <2>4. s \ {Any(s)} \in SUBSET S
    BY <2>1
  <2>5. ~Good(s \ {Any(s)})
    BY <2>1, <2>2, <2>3
  <2>6. QED
    BY <2>2, <2>4, <2>5
<1>4. Bad \in SUBSET (SUBSET S)
  OBVIOUS
<1>5. S \notin Bad => f[S] <= g[S]
  OBVIOUS
<1> HIDE DEF Bad, Good
<1>6. QED
  BY <1>1, <1>2, <1>3, <1>4, <1>5, MinimalSet

\* Equal terms make a product.
LEMMA SumConstant ==
  ASSUME NEW S, IsFiniteSet(S), NEW c \in Nat, NEW w, \A x \in S : w[x] = c
  PROVE  SumOf(w, S) = c * Cardinality(S)
<1>1. PICK g : SumOf(w, S) = g[S] /\ AddsUp(w, S, g)
  BY SumOfSubsets
<1> DEFINE Bad == {s \in SUBSET S : g[s] # c * Cardinality(s)}
<1>2. ASSUME NEW s \in Bad
      PROVE  Any(s) \in s /\ s \ {Any(s)} \in Bad
  <2>1. s \in SUBSET S /\ g[s] # c * Cardinality(s)
    OBVIOUS
  <2>2. Any(s) \in s /\ g[s] = c + g[s \ {Any(s)}]
    <3>1. s # {}
      BY <1>1, <2>1, FS_EmptySet DEF AddsUp
    <3>2. QED
      BY <1>1, <2>1, <3>1 DEF AddsUp
  <2>3. /\ Cardinality(s) \in Nat /\ Cardinality(s \ {Any(s)}) \in Nat
        /\ Cardinality(s \ {Any(s)}) = Cardinality(s) - 1
    BY <2>1, <2>2, FS_Subset, FS_CardinalityType, FS_RemoveElement
  <2>4. s \ {Any(s)} \in SUBSET S
    BY <2>1
  <2>5. ASSUME g[s \ {Any(s)}] = c * Cardinality(s \ {Any(s)})
        PROVE  FALSE
    <3>1. c * (Cardinality(s) - 1) = c * Cardinality(s) - c
      BY <2>3
    <3>2. QED
      BY <2>1, <2>2, <2>3, <2>5, <3>1
  <2>6. QED
    BY <2>2, <2>4, <2>5
<1>3. Bad \in SUBSET (SUBSET S)
  OBVIOUS
<1>4. S \notin Bad => g[S] = c * Cardinality(S)
  OBVIOUS
<1> HIDE DEF Bad
<1>5. QED
  BY <1>1, <1>2, <1>3, <1>4, MinimalSet

\* Parts of a set that do not overlap have no more elements than the set.
LEMMA SumOfParts ==
  ASSUME NEW S, IsFiniteSet(S), NEW T, IsFiniteSet(T), NEW w, NEW U,
         \A x \in S : U[x] \in SUBSET T /\ w[x] = Cardinality(U[x]),
         \A x, y \in S : x # y => U[x] \cap U[y] = {}
  PROVE  SumOf(w, S) <= Cardinality(T)
<1>1. PICK g : SumOf(w, S) = g[S] /\ AddsUp(w, S, g)
  BY SumOfSubsets
<1> DEFINE All(s) == UNION {U[x] : x \in s}
           Good(s) == IsFiniteSet(All(s)) /\ g[s] = Cardinality(All(s))
           Bad == {s \in SUBSET S : ~Good(s)}
<1>2. ASSUME NEW s \in Bad
      PROVE  Any(s) \in s /\ s \ {Any(s)} \in Bad
  <2>1. s \in SUBSET S /\ ~Good(s)
    OBVIOUS
  <2>2. s # {}
    <3>1. All({}) = {}
      OBVIOUS
    <3>2. QED
      BY <1>1, <2>1, <3>1, FS_EmptySet DEF AddsUp
  <2>3. Any(s) \in s /\ g[s] = w[Any(s)] + g[s \ {Any(s)}]
    BY <1>1, <2>1, <2>2 DEF AddsUp
  <2>4. s \ {Any(s)} \in SUBSET S
    BY <2>1
  <2>5. /\ All(s) = U[Any(s)] \cup All(s \ {Any(s)})
        /\ U[Any(s)] \cap All(s \ {Any(s)}) = {}
    BY <2>1, <2>3
  <2>6. IsFiniteSet(U[Any(s)]) /\ w[Any(s)] = Cardinality(U[Any(s)])
    BY <2>1, <2>3, FS_Subset
  <2>7. ASSUME Good(s \ {Any(s)})
        PROVE  FALSE
    <3>1. IsFiniteSet(All(s \ {Any(s)})) /\ g[s \ {Any(s)}] = Cardinality(All(s \ {Any(s)}))
      BY <2>7
    <3> HIDE DEF All
    <3>2. /\ IsFiniteSet(All(s))
          /\ Cardinality(All(s)) = Cardinality(U[Any(s)]) + Cardinality(All(s \ {Any(s)}))
      <4>1. Cardinality(U[Any(s)] \cap All(s \ {Any(s)})) = 0
        BY <2>5, FS_EmptySet
      <4>2. /\ Cardinality(U[Any(s)]) \in Nat
            /\ Cardinality(All(s \ {Any(s)})) \in Nat
        BY <2>6, <3>1, FS_CardinalityType
      <4>3. /\ IsFiniteSet(U[Any(s)] \cup All(s \ {Any(s)}))
            /\ Cardinality(U[Any(s)] \cup All(s \ {Any(s)})) =
                 Cardinality(U[Any(s)]) + Cardinality(All(s \ {Any(s)}))
                   - Cardinality(U[Any(s)] \cap All(s \ {Any(s)}))
        BY <2>6, <3>1, FS_Union
      <4>4. /\ IsFiniteSet(All(s))
            /\ Cardinality(All(s)) = Cardinality(U[Any(s)] \cup All(s \ {Any(s)}))
        BY <2>5, <4>3
      <4>5. QED
        BY <4>1, <4>2, <4>3, <4>4
    <3>3. QED
      BY <2>1, <2>3, <2>6, <3>1, <3>2
  <2>8. QED
    BY <2>3, <2>4, <2>7
<1>3. Bad \in SUBSET (SUBSET S)
  OBVIOUS
<1>4. S \notin Bad => Good(S)
  OBVIOUS
<1>5. Good(S)
  <2> HIDE DEF Bad, Good
  <2>1. QED
    BY <1>2, <1>3, <1>4, MinimalSet
<1>6. All(S) \in SUBSET T
  OBVIOUS
<1>7. Cardinality(All(S)) <= Cardinality(T)
  BY <1>6, FS_Subset
<1>8. QED
  BY <1>1, <1>5, <1>7
=============================================================================
