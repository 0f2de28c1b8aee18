------------------------------ MODULE FiniteSums ------------------------------
(* What SumFunctionOnSet of the community modules returns. It picks the elements *)
(* of a finite set in an order of its own, as a recursive function; here it is   *)
(* shown to exist, to add the elements in any order, and to respect bounds. The  *)
(* induction is that of the least counterexample.                                *)
EXTENDS Integers, FiniteSets, Functions, FiniteSetTheorems, NaturalsInduction,
        WellFoundedInduction, TLAPS

\* A set of naturals that holds 0 and each successor holds all of them.
LEMMA NatSets ==
  ASSUME NEW G, 0 \in G, \A n \in Nat : n \in G => n + 1 \in G
  PROVE  Nat \subseteq G
  <1> DEFINE bad == Nat \ G
  <1> SUFFICES ASSUME bad # {} PROVE FALSE
    OBVIOUS
  <1>1. PICK n \in bad : \A k \in bad : ~ (<<k, n>> \in OpToRel(<, Nat))
    BY NatLessThanWellFounded, WFMin
  <1>2. n # 0 /\ n \in Nat
    OBVIOUS
  <1>3. n - 1 \in Nat /\ n - 1 < n /\ (n - 1) + 1 = n
    BY <1>2
  <1>4. n - 1 \in bad
    BY <1>2, <1>3
  <1>5. <<n - 1, n>> \in OpToRel(<, Nat)
    BY <1>2, <1>3 DEF OpToRel
  <1> QED
    BY <1>1, <1>4, <1>5

\* What holds of a set as soon as it holds of the set without some element of it
\* holds of every finite set.
LEMMA FiniteSetsAll ==
  ASSUME NEW S, IsFiniteSet(S), NEW F, {} \in F,
         \A T \in SUBSET S : T # {} /\ (\A x \in T : T \ {x} \in F) => T \in F
  PROVE  \A T \in SUBSET S : T \in F
  <1> DEFINE G == {n \in Nat : \A T \in SUBSET S : Cardinality(T) = n => T \in F}
  <1>1. \A T \in SUBSET S : IsFiniteSet(T) /\ Cardinality(T) \in Nat
    BY FS_Subset, FS_CardinalityType
  <1>2. 0 \in G
    BY <1>1, FS_EmptySet
  <1>3. ASSUME NEW n \in Nat, n \in G PROVE n + 1 \in G
    <2> SUFFICES ASSUME NEW T \in SUBSET S, Cardinality(T) = n + 1 PROVE T \in F
      BY <1>3
    <2>1. T # {}
      <3>1. Cardinality({}) = 0
        BY FS_EmptySet
      <3> QED
        BY <3>1
    <2>2. ASSUME NEW x \in T PROVE T \ {x} \in F
      <3>1. Cardinality(T \ {x}) = n
        BY <1>1, FS_RemoveElement
      <3> QED
        BY <1>3, <3>1
    <2> QED
      BY <2>1, <2>2
  <1>4. Nat \subseteq G
    <2> HIDE DEF G
    <2> QED
      BY <1>2, <1>3, NatSets
  <1> QED
    BY <1>1, <1>4

-------------------------------------------------------------------------------
Pick(s) == CHOOSE x \in s : TRUE

\* The step of the recursion, of which the sum is a fixed point.
Step(f, it, s) == IF s = {} THEN 0 ELSE f[Pick(s)] + it[s \ {Pick(s)}]
Adds(f, S, it) == it = [s \in SUBSET S |-> Step(f, it, s)]

LEMMA Picked == ASSUME NEW s, s # {} PROVE Pick(s) \in s
  BY DEF Pick

\* Such a function exists: one for the sets of at most n elements extends to
\* those of n + 1.
LEMMA AddsExists ==
  ASSUME NEW S, IsFiniteSet(S), NEW f
  PROVE  \E it : Adds(f, S, it)
  <1> DEFINE Small(n) == {s \in SUBSET S : Cardinality(s) <= n}
             G == {n \in Nat : \E it : it = [s \in Small(n) |-> Step(f, it, s)]}
  <1>1. \A T \in SUBSET S : IsFiniteSet(T) /\ Cardinality(T) \in Nat
                            /\ Cardinality(T) <= Cardinality(S)
    BY FS_Subset, FS_CardinalityType
  <1>2. Cardinality(S) \in Nat
    BY FS_CardinalityType
  <1>3. 0 \in G
    <2> DEFINE it == [s \in Small(0) |-> 0]
    <2>1. \A s \in Small(0) : s = {}
      <3> TAKE s \in Small(0)
      <3>1. Cardinality(s) = 0
        BY <1>1
      <3> QED
        BY <1>1, <3>1, FS_EmptySet
    <2>2. it = [s \in Small(0) |-> Step(f, it, s)]
      BY <2>1 DEF Step
    <2> QED
      BY <2>2
  <1>4. ASSUME NEW n \in Nat, n \in G PROVE n + 1 \in G
    <2>1. PICK it : it = [s \in Small(n) |-> Step(f, it, s)]
      BY <1>4
    <2> DEFINE next == [s \in Small(n + 1) |-> Step(f, it, s)]
    <2>2. ASSUME NEW s \in Small(n + 1) PROVE Step(f, it, s) = Step(f, next, s)
      <3>1. CASE s = {}
        BY <3>1 DEF Step
      <3>2. CASE s # {}
        <4> DEFINE r == s \ {Pick(s)}
        <4>1. Cardinality(r) = Cardinality(s) - 1
          BY <1>1, <3>2, Picked, FS_RemoveElement
        <4>2. r \in Small(n) /\ r \in Small(n + 1)
          BY <1>1, <4>1
        <4>3. it[r] = Step(f, it, r) /\ next[r] = Step(f, it, r)
          BY <2>1, <4>2
        <4> QED
          BY <3>2, <4>3 DEF Step
      <3> QED
        BY <3>1, <3>2
    <2>3. next = [s \in Small(n + 1) |-> Step(f, next, s)]
      BY <2>2
    <2> HIDE DEF next
    <2>4. \E h : h = [s \in Small(n + 1) |-> Step(f, h, s)]
      BY <2>3
    <2> QED
      BY <2>4
  <1>5. Cardinality(S) \in G
    <2> HIDE DEF G
    <2> QED
      BY <1>2, <1>3, <1>4, NatSets
  <1>6. Small(Cardinality(S)) = SUBSET S
    BY <1>1
  <1> QED
    BY <1>5, <1>6 DEF Adds
-------------------------------------------------------------------------------
\* The sum the library computes is such a function at the whole set.
LEMMA SumIsAdds ==
  ASSUME NEW S, IsFiniteSet(S), NEW f
  PROVE  \E it : Adds(f, S, it) /\ SumFunctionOnSet(f, S) = it[S]
  <1> DEFINE fold == CHOOSE it : it = [s \in SUBSET S |->
                        IF s = {} THEN 0
                        ELSE f[CHOOSE x \in s : TRUE] + it[s \ {CHOOSE x \in s : TRUE}]]
  <1>1. SumFunctionOnSet(f, S) = fold[S]
    BY DEF SumFunctionOnSet, FoldFunctionOnSet, MapThenFoldSet
  <1>2. \E it : it = [s \in SUBSET S |->
                        IF s = {} THEN 0
                        ELSE f[CHOOSE x \in s : TRUE] + it[s \ {CHOOSE x \in s : TRUE}]]
    <2>1. PICK it : Adds(f, S, it)
      BY AddsExists
    <2>2. it = [s \in SUBSET S |->
                  IF s = {} THEN 0
                  ELSE f[CHOOSE x \in s : TRUE] + it[s \ {CHOOSE x \in s : TRUE}]]
      BY <2>1 DEF Adds, Step, Pick
    <2> QED
      BY <2>2
  <1>3. fold = [s \in SUBSET S |->
                  IF s = {} THEN 0
                  ELSE f[CHOOSE x \in s : TRUE] + fold[s \ {CHOOSE x \in s : TRUE}]]
    BY <1>2
  <1>4. Adds(f, S, fold)
    <2> HIDE DEF fold
    <2> QED
      BY <1>3 DEF Adds, Step, Pick
  <1> HIDE DEF fold
  <1> QED
    BY <1>1, <1>4

\* On the subsets of a smaller set the functions for the two sets agree.
LEMMA AddsAgree ==
  ASSUME NEW S, IsFiniteSet(S), NEW T \in SUBSET S, NEW f, NEW a, NEW b,
         Adds(f, S, a), Adds(f, T, b)
  PROVE  \A U \in SUBSET T : a[U] = b[U]
  <1> DEFINE F == {U \in SUBSET T : a[U] = b[U]}
  <1>1. \A U \in SUBSET T : a[U] = Step(f, a, U) /\ b[U] = Step(f, b, U)
    BY DEF Adds
  <1>2. {} \in F
    BY <1>1 DEF Step
  <1>3. ASSUME NEW U \in SUBSET T, U # {}, \A x \in U : U \ {x} \in F PROVE U \in F
    <2>1. a[U \ {Pick(U)}] = b[U \ {Pick(U)}]
      BY <1>3, Picked
    <2> QED
      BY <1>1, <1>3, <2>1 DEF Step
  <1>4. IsFiniteSet(T)
    BY FS_Subset
  <1>5. \A U \in SUBSET T : U \in F
    <2> HIDE DEF F
    <2> QED
      BY <1>2, <1>3, <1>4, FiniteSetsAll
  <1> QED
    BY <1>5

\* The sum over a set without its elements one by one.
LEMMA SumStep ==
  ASSUME NEW S, IsFiniteSet(S), NEW f
  PROVE  SumFunctionOnSet(f, S) =
            IF S = {} THEN 0
            ELSE f[Pick(S)] + SumFunctionOnSet(f, S \ {Pick(S)})
  <1>1. PICK a : Adds(f, S, a) /\ SumFunctionOnSet(f, S) = a[S]
    BY SumIsAdds
  <1>2. a[S] = Step(f, a, S)
    BY <1>1 DEF Adds
  <1>3. CASE S = {}
    BY <1>1, <1>2, <1>3 DEF Step
  <1>4. CASE S # {}
    <2> DEFINE T == S \ {Pick(S)}
    <2>1. IsFiniteSet(T) /\ T \in SUBSET S
      BY FS_Subset
    <2>2. PICK b : Adds(f, T, b) /\ SumFunctionOnSet(f, T) = b[T]
      BY <2>1, SumIsAdds
    <2>3. a[T] = b[T]
      BY <1>1, <2>1, <2>2, AddsAgree
    <2> QED
      BY <1>1, <1>2, <1>4, <2>2, <2>3 DEF Step
  <1> QED
    BY <1>3, <1>4

LEMMA SumOfNone == \A f : SumFunctionOnSet(f, {}) = 0
  BY SumStep, FS_EmptySet

\* A sum of integers is an integer.
LEMMA SumType ==
  ASSUME NEW S, IsFiniteSet(S), NEW f, \A x \in S : f[x] \in Int
  PROVE  \A T \in SUBSET S : SumFunctionOnSet(f, T) \in Int
  <1> DEFINE F == {T \in SUBSET S : SumFunctionOnSet(f, T) \in Int}
  <1>1. {} \in F
    BY SumOfNone
  <1>2. ASSUME NEW T \in SUBSET S, T # {}, \A x \in T : T \ {x} \in F PROVE T \in F
    <2>1. SumFunctionOnSet(f, T) = f[Pick(T)] + SumFunctionOnSet(f, T \ {Pick(T)})
      BY <1>2, SumStep, FS_Subset
    <2> QED
      BY <1>2, <2>1, Picked
  <1>3. \A T \in SUBSET S : T \in F
    <2> HIDE DEF F
    <2> QED
      BY <1>1, <1>2, FiniteSetsAll
  <1> QED
    BY <1>3

\* The order does not matter: any element may be taken out first.
LEMMA SumWithout ==
  ASSUME NEW S, IsFiniteSet(S), NEW f, \A x \in S : f[x] \in Int
  PROVE  \A T \in SUBSET S : \A x \in T :
            SumFunctionOnSet(f, T) = f[x] + SumFunctionOnSet(f, T \ {x})
  <1> DEFINE Sum(T) == SumFunctionOnSet(f, T)
             F == {T \in SUBSET S : \A x \in T : Sum(T) = f[x] + Sum(T \ {x})}
  <1>1. {} \in F
    OBVIOUS
  <1>2. ASSUME NEW T \in SUBSET S, T # {}, \A x \in T : T \ {x} \in F PROVE T \in F
    <2> SUFFICES ASSUME NEW x \in T PROVE Sum(T) = f[x] + Sum(T \ {x})
      OBVIOUS
    <2> DEFINE p == Pick(T)
    <2>1. p \in T /\ IsFiniteSet(T)
      BY <1>2, Picked, FS_Subset
    <2>2. Sum(T) = f[p] + Sum(T \ {p})
      BY <1>2, <2>1, SumStep
    <2>3. CASE x = p
      BY <2>2, <2>3
    <2>4. CASE x # p
      <3>1. Sum(T \ {p}) = f[x] + Sum((T \ {p}) \ {x})
        BY <1>2, <2>1, <2>4
      <3>2. Sum(T \ {x}) = f[p] + Sum((T \ {x}) \ {p})
        BY <1>2, <2>1, <2>4
      <3>3. Sum((T \ {p}) \ {x}) = Sum((T \ {x}) \ {p})
        <4>1. (T \ {p}) \ {x} = (T \ {x}) \ {p}
          OBVIOUS
        <4> QED
          BY <4>1
      <3>4. /\ f[x] \in Int /\ f[p] \in Int
            /\ Sum((T \ {p}) \ {x}) \in Int
        BY <2>1, SumType
      <3> HIDE DEF Sum, p
      <3> QED
        BY <2>2, <3>1, <3>2, <3>3, <3>4
    <2> QED
      BY <2>3, <2>4
  <1>3. \A T \in SUBSET S : T \in F
    <2> HIDE DEF F
    <2> QED
      BY <1>1, <1>2, FiniteSetsAll
  <1> QED
    BY <1>3

\* A sum grows with its summands.
LEMMA SumAtMost ==
  ASSUME NEW S, IsFiniteSet(S), NEW f, NEW g,
         \A x \in S : f[x] \in Int /\ g[x] \in Int /\ f[x] <= g[x]
  PROVE  SumFunctionOnSet(f, S) <= SumFunctionOnSet(g, S)
  <1> DEFINE F == {T \in SUBSET S : SumFunctionOnSet(f, T) <= SumFunctionOnSet(g, T)}
  <1>1. {} \in F
    BY SumOfNone
  <1>2. ASSUME NEW T \in SUBSET S, T # {}, \A x \in T : T \ {x} \in F PROVE T \in F
    <2> DEFINE p == Pick(T)
    <2>1. p \in T /\ IsFiniteSet(T)
      BY <1>2, Picked, FS_Subset
    <2>2. /\ SumFunctionOnSet(f, T) = f[p] + SumFunctionOnSet(f, T \ {p})
          /\ SumFunctionOnSet(g, T) = g[p] + SumFunctionOnSet(g, T \ {p})
      BY <1>2, <2>1, SumStep
    <2>3. /\ SumFunctionOnSet(f, T \ {p}) \in Int /\ SumFunctionOnSet(g, T \ {p}) \in Int
          /\ SumFunctionOnSet(f, T \ {p}) <= SumFunctionOnSet(g, T \ {p})
          /\ f[p] \in Int /\ g[p] \in Int /\ f[p] <= g[p]
      BY <1>2, <2>1, SumType
    <2> QED
      BY <2>2, <2>3
  <1>3. \A T \in SUBSET S : T \in F
    <2> HIDE DEF F
    <2> QED
      BY <1>1, <1>2, FiniteSetsAll
  <1> QED
    BY <1>3

\* Of naturals, a larger set has the larger sum.
LEMMA SumOfMore ==
  ASSUME NEW S, IsFiniteSet(S), NEW f, \A x \in S : f[x] \in Nat
  PROVE  \A T \in SUBSET S : /\ SumFunctionOnSet(f, T) \in Nat
                             /\ SumFunctionOnSet(f, T) <= SumFunctionOnSet(f, S)
  <1> DEFINE Sum(T) == SumFunctionOnSet(f, T)
             F == {U \in SUBSET S : Sum(U) \in Nat /\ \A T \in SUBSET U : Sum(T) <= Sum(U)}
  <1>1. {} \in F
    BY SumOfNone
  <1>2. ASSUME NEW U \in SUBSET S, U # {}, \A x \in U : U \ {x} \in F PROVE U \in F
    <2>1. ASSUME NEW x \in U PROVE /\ Sum(U) = f[x] + Sum(U \ {x})
                                   /\ f[x] \in Nat /\ Sum(U \ {x}) \in Nat
      BY <1>2, SumWithout
    <2>2. Sum(U) \in Nat
      <3>1. PICK x \in U : TRUE
        BY <1>2
      <3>2. /\ Sum(U) = f[x] + Sum(U \ {x})
            /\ f[x] \in Nat /\ Sum(U \ {x}) \in Nat
        BY <2>1
      <3> QED
        BY <3>2
    <2>3. ASSUME NEW T \in SUBSET U PROVE Sum(T) <= Sum(U)
      <3>1. CASE T = U
        BY <2>2, <3>1
      <3>2. CASE T # U
        <4>1. PICK x \in U : x \notin T
          BY <3>2
        <4>2. Sum(T) <= Sum(U \ {x}) /\ Sum(T) \in Int
          BY <1>2, <4>1, SumType
        <4> QED
          BY <2>1, <4>2
      <3> QED
        BY <3>1, <3>2
    <2> QED
      BY <2>2, <2>3
  <1>3. \A T \in SUBSET S : T \in F
    <2> HIDE DEF F
    <2> QED
      BY <1>1, <1>2, FiniteSetsAll
  <1> QED
    BY <1>3

===============================================================================
