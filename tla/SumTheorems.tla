----------------------------- MODULE SumTheorems -----------------------------
(***************************************************************************)
(* SumFunction of the community modules, as the proofs about points,       *)
(* samples and cards need it: what the sum of a function on a finite set   *)
(* becomes when one value changes.  The induction runs over the subsets of *)
(* the domain, ordered by strict inclusion.                                *)
(***************************************************************************)
EXTENDS Integers, Sequences, FiniteSets, Functions, FiniteSetTheorems, TLAPS

\* The element SumFunction takes out of T.
Pick(T) == CHOOSE x \in T : TRUE

\* A family that holds a set whenever it holds the set without its picked
\* element holds every subset of a finite set.
LEMMA PickInduction ==
    ASSUME NEW S, IsFiniteSet(S), NEW Q,
           \A T \in SUBSET S : (T = {} \/ T \ {Pick(T)} \in Q) => T \in Q
    PROVE  \A T \in SUBSET S : T \in Q
<1> DEFINE Bad == (SUBSET S) \ Q
<1> SUFFICES ASSUME Bad # {} PROVE FALSE
  OBVIOUS
<1>1. PICK T \in Bad : \A U \in Bad : <<U, T>> \notin StrictSubsetOrdering(S)
  <2> HIDE DEF Bad
  <2>1. IsWellFoundedOn(StrictSubsetOrdering(S), SUBSET S)
    BY FS_StrictSubsetOrderingWellFounded, FS_FiniteSubsetsOfFinite
  <2>2. Bad \subseteq SUBSET S
    BY DEF Bad
  <2> QED
    BY <2>1, <2>2, WFMin
<1>2. T # {} /\ T \in SUBSET S
  BY <1>1
<1>3. Pick(T) \in T
  BY <1>2 DEF Pick
<1>4. <<T \ {Pick(T)}, T>> \in StrictSubsetOrdering(S)
  BY <1>2, <1>3 DEF StrictSubsetOrdering
<1>5. T \ {Pick(T)} \in Q
  BY <1>1, <1>2, <1>4
<1> QED
  BY <1>1, <1>2, <1>5

-----------------------------------------------------------------------------
\* The equation by which SumFunction sums the subsets of S.
SumsTo(h, f, S) ==
    h = [T \in SUBSET S |-> IF T = {} THEN 0 ELSE f[Pick(T)] + h[T \ {Pick(T)}]]

\* What is left of a finite set without the picked element is one smaller.
LEMMA PickShrinks ==
    ASSUME NEW S, IsFiniteSet(S), NEW T \in SUBSET S, T # {}
    PROVE  /\ Pick(T) \in T /\ T \ {Pick(T)} \in SUBSET S
           /\ Cardinality(T) \in Nat /\ Cardinality(T \ {Pick(T)}) \in Nat
           /\ Cardinality(T) = Cardinality(T \ {Pick(T)}) + 1
<1>1. Pick(T) \in T
  BY DEF Pick
<1>2. IsFiniteSet(T) /\ IsFiniteSet(T \ {Pick(T)})
  BY FS_Subset
<1> QED
  BY <1>1, <1>2, FS_CardinalityType, FS_RemoveElement

\* It is well defined: some function satisfies it, built up by cardinality.
LEMMA SumsExist ==
    ASSUME NEW S, IsFiniteSet(S), NEW f
    PROVE  \E h : SumsTo(h, f, S)
<1> DEFINE Sum(h, T) == IF T = {} THEN 0 ELSE f[Pick(T)] + h[T \ {Pick(T)}]
           Upto(h, n) == \A T \in SUBSET S : Cardinality(T) <= n => h[T] = Sum(h, T)
           Zero == [T \in SUBSET S |-> 0]
           Good(T) == \E h : h = [U \in SUBSET S |-> h[U]] /\ Upto(h, Cardinality(T))
           All == {T \in SUBSET S : Good(T)}
<1>1. ASSUME NEW T \in SUBSET S, T = {} \/ T \ {Pick(T)} \in All
      PROVE  T \in All
  <2> SUFFICES Good(T)
    OBVIOUS
  <2>1. CASE T = {}
    <3>1. \A U \in SUBSET S : Cardinality(U) <= Cardinality(T) => U = {}
      <4> SUFFICES ASSUME NEW U \in SUBSET S, Cardinality(U) <= Cardinality(T) PROVE U = {}
        OBVIOUS
      <4>1. IsFiniteSet(U) /\ Cardinality(U) \in Nat
        BY FS_Subset, FS_CardinalityType
      <4> QED
        BY <2>1, <4>1, FS_EmptySet
    <3>2. Upto(Zero, Cardinality(T))
      BY <3>1
    <3> QED
      BY <3>2
  <2>2. CASE T # {}
    <3> DEFINE n == Cardinality(T \ {Pick(T)})
    <3>1. n \in Nat /\ Cardinality(T) = n + 1
      BY <2>2, PickShrinks
    <3>2. PICK h : Upto(h, n)
      BY <1>1, <2>2
    <3> DEFINE g == [U \in SUBSET S |-> IF Cardinality(U) <= n THEN h[U] ELSE Sum(h, U)]
    <3>3. Upto(g, n + 1)
      <4> SUFFICES ASSUME NEW U \in SUBSET S, Cardinality(U) <= n + 1
                   PROVE  g[U] = Sum(g, U)
        OBVIOUS
      <4>1. CASE U = {}
        <5>1. Cardinality(U) = 0
          BY <4>1, FS_EmptySet
        <5>2. 0 <= n
          BY <3>1
        <5>3. Cardinality(U) <= n
          BY <5>1, <5>2
        <5> QED
          BY <3>2, <4>1, <5>3
      <4>2. CASE U # {}
        <5>1. U \ {Pick(U)} \in SUBSET S /\ Cardinality(U \ {Pick(U)}) <= n
          BY <3>1, <4>2, PickShrinks
        <5>2. g[U \ {Pick(U)}] = h[U \ {Pick(U)}]
          BY <5>1
        <5>3. g[U] = Sum(h, U)
          BY <3>2
        <5> QED
          BY <4>2, <5>2, <5>3
      <4> QED
        BY <4>1, <4>2
    <3>4. g = [U \in SUBSET S |-> g[U]]
      OBVIOUS
    <3> QED
      <4> HIDE DEF g, n
      <4> QED BY <3>1, <3>3, <3>4
  <2> QED
    BY <2>1, <2>2
<1>2. PICK h : h = [U \in SUBSET S |-> h[U]] /\ Upto(h, Cardinality(S))
  <2>1. \A T \in SUBSET S : T \in All
    <3> HIDE DEF All
    <3> QED
      BY <1>1, PickInduction
  <2> QED
    BY <2>1
<1>3. \A T \in SUBSET S : h[T] = Sum(h, T)
  <2>1. \A T \in SUBSET S : Cardinality(T) <= Cardinality(S)
    BY FS_Subset
  <2> QED
    BY <1>2, <2>1
<1>4. h = [T \in SUBSET S |-> Sum(h, T)]
  BY <1>2, <1>3
<1> QED
  BY <1>4 DEF SumsTo

\* The two cases of the equation.
Adds(h, f, S) ==
    \A T \in SUBSET S : /\ T = {} => h[T] = 0
                        /\ T # {} => h[T] = f[Pick(T)] + h[T \ {Pick(T)}]

LEMMA SumsStep ==
    ASSUME NEW S, NEW f, NEW h, SumsTo(h, f, S)
    PROVE  Adds(h, f, S)
<1> SUFFICES ASSUME NEW T \in SUBSET S
             PROVE  h[T] = IF T = {} THEN 0 ELSE f[Pick(T)] + h[T \ {Pick(T)}]
  BY DEF Adds
<1> DEFINE H(U) == IF U = {} THEN 0 ELSE f[Pick(U)] + h[U \ {Pick(U)}]
<1>1. h = [U \in SUBSET S |-> H(U)]
  BY DEF SumsTo
<1> HIDE DEF H
<1>2. h[T] = H(T)
  BY <1>1
<1> QED
  BY <1>2 DEF H

\* So SumFunction takes its value from a function that satisfies it.
LEMMA SumIsDefined ==
    ASSUME NEW S, IsFiniteSet(S), NEW f, DOMAIN f = S
    PROVE  \E h : SumFunction(f) = h[S] /\ Adds(h, f, S)
<1> DEFINE h == CHOOSE h : SumsTo(h, f, S)
<1>1. SumsTo(h, f, S)
  BY SumsExist
<1>2. SumFunction(f) = h[S]
  BY DEF SumFunction, SumFunctionOnSet, FoldFunctionOnSet, MapThenFoldSet, SumsTo, Pick
<1> HIDE DEF h
<1>3. Adds(h, f, S)
  BY <1>1, SumsStep
<1> QED
  BY <1>2, <1>3

\* The sum of natural numbers is one, and at least each of them.
LEMMA SumNat ==
    ASSUME NEW S, IsFiniteSet(S), NEW f \in [S -> Nat]
    PROVE  /\ SumFunction(f) \in Nat
           /\ \A x \in S : f[x] <= SumFunction(f)
<1>1. PICK h : SumFunction(f) = h[S] /\ Adds(h, f, S)
  BY SumIsDefined
<1> USE DEF Adds
<1> DEFINE Good == {T \in SUBSET S : h[T] \in Nat /\ \A x \in T : f[x] <= h[T]}
<1>2. ASSUME NEW T \in SUBSET S, T = {} \/ T \ {Pick(T)} \in Good
      PROVE  T \in Good
  <2>1. CASE T = {}
    <3>1. h[T] = 0
      BY <1>1, <2>1
    <3> QED
      BY <2>1, <3>1
  <2>2. CASE T # {}
    <3> DEFINE x == Pick(T)
               R == T \ {x}
    <3>1. x \in T /\ f[x] \in Nat
      BY <2>2 DEF Pick
    <3>2. h[T] = f[x] + h[R]
      BY <1>1, <2>2
    <3>3. h[R] \in Nat /\ \A y \in R : f[y] <= h[R]
      BY <1>2, <2>2
    <3> HIDE DEF x
    <3>4. h[T] \in Nat
      BY <3>1, <3>2, <3>3
    <3>5. ASSUME NEW y \in T PROVE f[y] <= h[T]
      <4>1. f[y] \in Nat
        OBVIOUS
      <4>2. CASE y = x
        <5> HIDE DEF R
        <5> QED
          BY <3>1, <3>2, <3>3, <4>2
      <4>3. CASE y \in R
        <5> HIDE DEF R
        <5> QED
          BY <3>1, <3>2, <3>3, <4>1, <4>3
      <4> QED
        BY <4>2, <4>3
    <3> QED
      BY <3>4, <3>5
  <2> QED
    BY <2>1, <2>2
<1>3. \A T \in SUBSET S : T \in Good
  <2> HIDE DEF Good
  <2> QED
    BY <1>2, PickInduction
<1> QED
  BY <1>1, <1>3

\* A function that is zero everywhere sums to zero.
LEMMA SumZero ==
    ASSUME NEW S, IsFiniteSet(S), NEW f \in [S -> Int], \A x \in S : f[x] = 0
    PROVE  SumFunction(f) = 0
<1>1. PICK h : SumFunction(f) = h[S] /\ Adds(h, f, S)
  BY SumIsDefined
<1> USE DEF Adds
<1> DEFINE Good == {T \in SUBSET S : h[T] = 0}
<1>2. ASSUME NEW T \in SUBSET S, T = {} \/ T \ {Pick(T)} \in Good
      PROVE  T \in Good
  <2>1. T # {} => Pick(T) \in T
    BY DEF Pick
  <2>2. T # {} => f[Pick(T)] = 0 /\ h[T \ {Pick(T)}] = 0
    BY <1>2, <2>1
  <2>3. CASE T = {}
    <3>1. h[T] = 0
      BY <1>1, <2>3
    <3> QED
      BY <3>1
  <2>4. CASE T # {}
    <3>1. h[T] = f[Pick(T)] + h[T \ {Pick(T)}]
      BY <1>1, <2>4
    <3> QED
      BY <2>2, <2>4, <3>1
  <2> QED
    BY <2>3, <2>4
<1>3. \A T \in SUBSET S : T \in Good
  <2> HIDE DEF Good
  <2> QED
    BY <1>2, PickInduction
<1> QED
  BY <1>1, <1>3

\* When the functions differ at x alone, so do their sums.
LEMMA SumChange ==
    ASSUME NEW S, IsFiniteSet(S), NEW f \in [S -> Int], NEW g \in [S -> Int],
           NEW x \in S, \A y \in S : y # x => g[y] = f[y]
    PROVE  /\ SumFunction(f) \in Int /\ SumFunction(g) \in Int
           /\ SumFunction(g) = SumFunction(f) + g[x] - f[x]
<1>1. PICK h : SumFunction(f) = h[S] /\ Adds(h, f, S)
  BY SumIsDefined
<1>2. PICK k : SumFunction(g) = k[S] /\ Adds(k, g, S)
  BY SumIsDefined
<1> USE DEF Adds
<1> DEFINE Good == {T \in SUBSET S :
                      /\ h[T] \in Int /\ k[T] \in Int
                      /\ k[T] = IF x \in T THEN h[T] + g[x] - f[x] ELSE h[T]}
<1>3. ASSUME NEW T \in SUBSET S, T = {} \/ T \ {Pick(T)} \in Good
      PROVE  T \in Good
  <2>1. CASE T = {}
    <3>1. h[T] = 0
      BY <1>1, <2>1
    <3>2. k[T] = 0
      BY <1>2, <2>1
    <3> QED
      BY <2>1, <3>1, <3>2
  <2>2. CASE T # {}
    <3> DEFINE p == Pick(T)
               R == T \ {p}
    <3>1. p \in T /\ f[p] \in Int /\ g[p] \in Int /\ f[x] \in Int /\ g[x] \in Int
      BY <2>2 DEF Pick
    <3>2. h[T] = f[p] + h[R] /\ k[T] = g[p] + k[R]
      BY <1>1, <1>2, <2>2
    <3>3. /\ h[R] \in Int /\ k[R] \in Int
          /\ k[R] = IF x \in R THEN h[R] + g[x] - f[x] ELSE h[R]
      BY <1>3, <2>2
    <3> HIDE DEF p
    <3>4. CASE p = x
      <4>1. x \notin R /\ x \in T
        BY <3>1, <3>4
      <4> HIDE DEF R
      <4> QED
        BY <3>1, <3>2, <3>3, <3>4, <4>1
    <3>5. CASE p # x
      <4>1. g[p] = f[p] /\ (x \in R <=> x \in T)
        BY <3>1, <3>5
      <4> HIDE DEF R
      <4> QED
        BY <3>1, <3>2, <3>3, <4>1
    <3> QED
      BY <3>4, <3>5
  <2> QED
    BY <2>1, <2>2
<1>4. \A T \in SUBSET S : T \in Good
  <2> HIDE DEF Good
  <2> QED
    BY <1>3, PickInduction
<1> QED
  BY <1>1, <1>2, <1>4

\* Storing v at x adds v and takes away what was there.
LEMMA SumExcept ==
    ASSUME NEW S, IsFiniteSet(S), NEW f \in [S -> Int], NEW x \in S, NEW v \in Int
    PROVE  /\ SumFunction(f) \in Int /\ SumFunction([f EXCEPT ![x] = v]) \in Int
           /\ SumFunction([f EXCEPT ![x] = v]) = SumFunction(f) + v - f[x]
<1> DEFINE g == [f EXCEPT ![x] = v]
<1>1. g \in [S -> Int] /\ g[x] = v /\ \A y \in S : y # x => g[y] = f[y]
  OBVIOUS
<1> HIDE DEF g
<1>2. SumFunction(f) \in Int /\ SumFunction(g) \in Int
      /\ SumFunction(g) = SumFunction(f) + g[x] - f[x]
  BY <1>1, SumChange
<1> QED
  BY <1>1, <1>2 DEF g

\* Greater values have a greater sum.
LEMMA SumMonotonic ==
    ASSUME NEW S, IsFiniteSet(S), NEW f \in [S -> Int], NEW g \in [S -> Int],
           \A x \in S : f[x] <= g[x]
    PROVE  SumFunction(f) <= SumFunction(g)
<1>1. PICK h : SumFunction(f) = h[S] /\ Adds(h, f, S)
  BY SumIsDefined
<1>2. PICK k : SumFunction(g) = k[S] /\ Adds(k, g, S)
  BY SumIsDefined
<1> USE DEF Adds
<1> DEFINE Good == {T \in SUBSET S : h[T] \in Int /\ k[T] \in Int /\ h[T] <= k[T]}
<1>3. ASSUME NEW T \in SUBSET S, T = {} \/ T \ {Pick(T)} \in Good
      PROVE  T \in Good
  <2>1. CASE T = {}
    <3>1. h[T] = 0
      BY <1>1, <2>1
    <3>2. k[T] = 0
      BY <1>2, <2>1
    <3> QED
      BY <2>1, <3>1, <3>2
  <2>2. CASE T # {}
    <3> DEFINE p == Pick(T)
               R == T \ {p}
    <3>1. p \in T /\ f[p] \in Int /\ g[p] \in Int /\ f[p] <= g[p]
      BY <2>2 DEF Pick
    <3>2. h[T] = f[p] + h[R] /\ k[T] = g[p] + k[R]
      BY <1>1, <1>2, <2>2
    <3>3. h[R] \in Int /\ k[R] \in Int /\ h[R] <= k[R]
      BY <1>3, <2>2
    <3> HIDE DEF p, R
    <3>4. h[T] \in Int /\ k[T] \in Int /\ h[T] <= k[T]
      BY <3>1, <3>2, <3>3
    <3> QED
      BY <3>4
  <2> QED
    BY <2>1, <2>2
<1>4. \A T \in SUBSET S : T \in Good
  <2> HIDE DEF Good
  <2> QED
    BY <1>3, PickInduction
<1> QED
  BY <1>1, <1>2, <1>4

-----------------------------------------------------------------------------
\* A family that holds a set whenever it holds its proper subsets.
LEMMA SubsetInduction ==
    ASSUME NEW S, IsFiniteSet(S), NEW Q,
           \A T \in SUBSET S : (\A U \in SUBSET T : U # T => U \in Q) => T \in Q
    PROVE  \A T \in SUBSET S : T \in Q
<1> DEFINE Bad == (SUBSET S) \ Q
<1> SUFFICES ASSUME Bad # {} PROVE FALSE
  OBVIOUS
<1>1. PICK T \in Bad : \A U \in Bad : <<U, T>> \notin StrictSubsetOrdering(S)
  <2> HIDE DEF Bad
  <2>1. IsWellFoundedOn(StrictSubsetOrdering(S), SUBSET S)
    BY FS_StrictSubsetOrderingWellFounded, FS_FiniteSubsetsOfFinite
  <2>2. Bad \subseteq SUBSET S
    BY DEF Bad
  <2> QED
    BY <2>1, <2>2, WFMin
<1>2. T \in SUBSET S /\ T \notin Q
  BY <1>1
<1>3. ASSUME NEW U \in SUBSET T, U # T PROVE U \in Q
  <2>1. <<U, T>> \in StrictSubsetOrdering(S)
    BY <1>2, <1>3 DEF StrictSubsetOrdering
  <2> QED
    BY <1>1, <1>2, <2>1
<1> QED
  BY <1>2, <1>3

LEMMA AddsInt ==
    ASSUME NEW S, IsFiniteSet(S), NEW f \in [S -> Int], NEW h, Adds(h, f, S)
    PROVE  \A T \in SUBSET S : h[T] \in Int
<1> DEFINE Good == {T \in SUBSET S : h[T] \in Int}
<1>1. ASSUME NEW T \in SUBSET S, T = {} \/ T \ {Pick(T)} \in Good
      PROVE  T \in Good
  <2>1. CASE T = {}
    <3>1. h[T] = 0
      BY <2>1 DEF Adds
    <3> QED
      BY <3>1
  <2>2. CASE T # {}
    <3>1. h[T] = f[Pick(T)] + h[T \ {Pick(T)}] /\ h[T \ {Pick(T)}] \in Int /\ f[Pick(T)] \in Int
      BY <1>1, <2>2 DEF Adds, Pick
    <3> QED
      BY <3>1
  <2> QED
    BY <2>1, <2>2
<1>2. \A T \in SUBSET S : T \in Good
  <2> HIDE DEF Good
  <2> QED
    BY <1>1, PickInduction
<1> QED
  BY <1>2

\* Any element can be taken out first.
AddsInAnyOrder(h, f, S) == \A T \in SUBSET S : \A y \in T : h[T] = f[y] + h[T \ {y}]

LEMMA AddsAny ==
    ASSUME NEW S, IsFiniteSet(S), NEW f \in [S -> Int], NEW h, Adds(h, f, S)
    PROVE  AddsInAnyOrder(h, f, S)
<1> DEFINE Good == {T \in SUBSET S : \A y \in T : h[T] = f[y] + h[T \ {y}]}
<1>1. ASSUME NEW T \in SUBSET S, \A U \in SUBSET T : U # T => U \in Good
      PROVE  T \in Good
  <2> SUFFICES ASSUME NEW y \in T PROVE h[T] = f[y] + h[T \ {y}]
    OBVIOUS
  <2>1. PICK p \in T : p = Pick(T)
    BY DEF Pick
  <2>2. h[T] = f[p] + h[T \ {p}]
    BY <2>1 DEF Adds
  <2>3. CASE y = p
    BY <2>2, <2>3
  <2>4. CASE y # p
    <3> DEFINE R == T \ {p, y}
    <3>1. /\ T \ {p} \in Good /\ T \ {y} \in Good
          /\ (T \ {p}) \ {y} = R /\ (T \ {y}) \ {p} = R /\ y \in T \ {p} /\ p \in T \ {y}
      BY <1>1, <2>4
    <3>2. h[T \ {p}] = f[y] + h[R] /\ h[T \ {y}] = f[p] + h[R]
      BY <3>1
    <3>3. f[p] \in Int /\ f[y] \in Int /\ h[R] \in Int
      BY AddsInt
    <3> HIDE DEF R
    <3> QED
      BY <2>2, <3>2, <3>3
  <2> QED
    BY <2>3, <2>4
<1> HIDE DEF Good
<1>2. \A T \in SUBSET S : T \in Good
  BY <1>1, SubsetInduction
<1> QED
  BY <1>2 DEF Good, AddsInAnyOrder

\* g on T is what is left of f on S without y, numbered anew by b.
IsRest(g, T, f, S, y, b) ==
    /\ IsFiniteSet(S) /\ f \in [S -> Int] /\ y \in S
    /\ IsFiniteSet(T) /\ g \in [T -> Int] /\ b \in [T -> S \ {y}]
    /\ \A z \in S \ {y} : \E x \in T : z = b[x]
    /\ \A x, z \in T : x # z => b[x] # b[z]
    /\ \A x \in T : g[x] = f[b[x]]

\* A sum is one of the values and the sum of the rest.
LEMMA SumOneMore ==
    ASSUME NEW S, NEW f, NEW y, NEW T, NEW g, NEW b, IsRest(g, T, f, S, y, b)
    PROVE  /\ SumFunction(f) \in Int /\ SumFunction(g) \in Int
           /\ SumFunction(f) = f[y] + SumFunction(g)
<1>0. /\ IsFiniteSet(S) /\ f \in [S -> Int] /\ y \in S
      /\ IsFiniteSet(T) /\ g \in [T -> Int] /\ b \in [T -> S \ {y}]
      /\ \A z \in S \ {y} : \E x \in T : z = b[x]
      /\ \A x, z \in T : x # z => b[x] # b[z]
      /\ \A x \in T : g[x] = f[b[x]]
  BY DEF IsRest
<1> USE <1>0
<1>1. PICK h : SumFunction(f) = h[S] /\ Adds(h, f, S)
  BY SumIsDefined
<1>2. PICK k : SumFunction(g) = k[T] /\ Adds(k, g, T)
  BY SumIsDefined
<1>8. \A V \in SUBSET S : \A z \in V : h[V] = f[z] + h[V \ {z}]
  <2>1. Adds(h, f, S)
    BY <1>1
  <2>2. AddsInAnyOrder(h, f, S)
    BY <2>1, AddsAny
  <2> QED
    BY <2>2 DEF AddsInAnyOrder
<1> DEFINE To(U) == {b[x] : x \in U}
           Good == {U \in SUBSET T : k[U] = h[To(U)]}
<1>3. ASSUME NEW U \in SUBSET T, U = {} \/ U \ {Pick(U)} \in Good
      PROVE  U \in Good
  <2>1. CASE U = {}
    <3>1. To(U) = {}
      BY <2>1
    <3>2. k[{}] = 0 /\ h[{}] = 0
      BY <1>1, <1>2 DEF Adds
    <3> HIDE DEF To
    <3> QED
      BY <2>1, <3>1, <3>2
  <2>2. CASE U # {}
    <3>1. PICK p \in U : p = Pick(U)
      BY <2>2 DEF Pick
    <3>2. k[U] = g[p] + k[U \ {p}] /\ k[U \ {p}] = h[To(U \ {p})]
      BY <1>2, <1>3, <2>2, <3>1 DEF Adds
    <3>3. To(U) \in SUBSET S /\ b[p] \in To(U) /\ To(U \ {p}) = To(U) \ {b[p]}
      OBVIOUS
    <3> HIDE DEF To
    <3>4. h[To(U)] = f[b[p]] + h[To(U) \ {b[p]}]
      BY ONLY <1>8, <3>3
    <3> QED
      BY <3>2, <3>3, <3>4
  <2> QED
    BY <2>1, <2>2
<1>4. \A U \in SUBSET T : U \in Good
  <2> HIDE DEF Good
  <2> QED
    BY <1>3, PickInduction
<1>5. k[T] = h[S \ {y}]
  <2>1. To(T) = S \ {y}
    OBVIOUS
  <2> HIDE DEF To
  <2> QED
    BY <1>4, <2>1
<1>6. h[S] = f[y] + h[S \ {y}]
  <2>1. S \in SUBSET S
    OBVIOUS
  <2> QED
    BY <1>8, <2>1
<1>7. h[S] \in Int /\ k[T] \in Int
  BY <1>1, <1>2, AddsInt
<1> QED
  BY <1>1, <1>2, <1>5, <1>6, <1>7

-----------------------------------------------------------------------------
(* Sequences of integers.                                                  *)

LEMMA SumEmptySeq == SumFunction(<<>>) = 0
<1>1. <<>> \in [{} -> Int] /\ \A x \in {} : <<>>[x] = 0
  OBVIOUS
<1>2. IsFiniteSet({})
  BY FS_EmptySet
<1> QED
  BY <1>1, <1>2, SumZero

LEMMA SumAppend ==
    ASSUME NEW s \in Seq(Int), NEW v \in Int
    PROVE  SumFunction(s) \in Int /\ SumFunction(Append(s, v)) = SumFunction(s) + v
<1> DEFINE t == Append(s, v)
<1>1. PICK n \in Nat : n = Len(s)
  OBVIOUS
<1>2. s \in [1..n -> Int]
  BY <1>1
<1>3. t \in Seq(Int) /\ Len(t) = n + 1
  BY <1>1
<1>4. t[n + 1] = v /\ \A i \in 1..n : t[i] = s[i]
  BY <1>1
<1> HIDE DEF t
<1>10. t \in [1..n + 1 -> Int]
  BY ONLY <1>1, <1>3
<1>5. IsFiniteSet(1..n) /\ IsFiniteSet(1..n + 1)
  BY FS_Interval
<1> DEFINE b == [i \in 1..n |-> i]
<1>6. b \in [1..n -> (1..n + 1) \ {n + 1}]
  BY <1>1
<1>11. \A z \in (1..n + 1) \ {n + 1} : \E x \in 1..n : z = b[x]
  <2> SUFFICES ASSUME NEW z \in (1..n + 1) \ {n + 1} PROVE \E x \in 1..n : z = b[x]
    OBVIOUS
  <2>1. z \in 1..n /\ b[z] = z
    BY <1>1
  <2> QED
    BY <2>1
<1>12. \A x, z \in 1..n : x # z => b[x] # b[z]
  OBVIOUS
<1>13. \A x \in 1..n : s[x] = t[b[x]]
  BY <1>4
<1> HIDE DEF b
<1>7. n + 1 \in 1..n + 1
  BY <1>1
<1>8. SumFunction(t) = t[n + 1] + SumFunction(s) /\ SumFunction(s) \in Int
  <2> DEFINE U == 1..n + 1
             V == 1..n
             y == n + 1
  <2>1. IsRest(s, V, t, U, y, b)
    BY ONLY <1>2, <1>5, <1>6, <1>7, <1>10, <1>11, <1>12, <1>13 DEF IsRest
  <2> HIDE DEF U, V, y
  <2>2. SumFunction(t) = t[y] + SumFunction(s) /\ SumFunction(s) \in Int
    BY <2>1, SumOneMore
  <2> QED
    BY ONLY <2>2 DEF y
<1> QED
  BY <1>4, <1>8 DEF t

LEMMA SumTail ==
    ASSUME NEW s \in Seq(Int), s # <<>>
    PROVE  /\ SumFunction(s) \in Int /\ SumFunction(Tail(s)) \in Int /\ Head(s) \in Int
           /\ SumFunction(s) = Head(s) + SumFunction(Tail(s))
<1> DEFINE t == Tail(s)
<1>1. PICK n \in Nat : n + 1 = Len(s)
  <2>1. Len(s) \in Nat /\ Len(s) # 0
    OBVIOUS
  <2>2. Len(s) - 1 \in Nat /\ (Len(s) - 1) + 1 = Len(s)
    BY <2>1
  <2> QED
    BY <2>2
<1>2. s \in [1..n + 1 -> Int] /\ Head(s) = s[1]
  BY <1>1
<1>3. t \in Seq(Int) /\ Len(t) = n /\ \A i \in 1..n : t[i] = s[i + 1]
  BY <1>1
<1> HIDE DEF t
<1>4. t \in [1..n -> Int]
  BY ONLY <1>3, n \in Nat
<1>5. IsFiniteSet(1..n) /\ IsFiniteSet(1..n + 1)
  BY FS_Interval
<1> DEFINE b == [i \in 1..n |-> i + 1]
<1>6. b \in [1..n -> (1..n + 1) \ {1}]
  OBVIOUS
<1>7. \A z \in (1..n + 1) \ {1} : \E x \in 1..n : z = b[x]
  <2> SUFFICES ASSUME NEW z \in (1..n + 1) \ {1} PROVE \E x \in 1..n : z = b[x]
    OBVIOUS
  <2>1. z - 1 \in 1..n /\ b[z - 1] = z
    OBVIOUS
  <2> QED
    BY <2>1
<1>8. \A x, z \in 1..n : x # z => b[x] # b[z]
  OBVIOUS
<1>11. \A x \in 1..n : t[x] = s[b[x]]
  BY <1>3
<1> HIDE DEF b
<1>9. 1 \in 1..n + 1
  OBVIOUS
<1>10. /\ SumFunction(s) \in Int /\ SumFunction(t) \in Int
       /\ SumFunction(s) = s[1] + SumFunction(t)
  <2> DEFINE U == 1..n + 1
             V == 1..n
             y == 1
  <2>1. IsRest(t, V, s, U, y, b)
    BY ONLY <1>2, <1>4, <1>5, <1>6, <1>7, <1>8, <1>9, <1>11 DEF IsRest
  <2> HIDE DEF U, V, y
  <2>2. /\ SumFunction(s) \in Int /\ SumFunction(t) \in Int
        /\ SumFunction(s) = s[y] + SumFunction(t)
    BY <2>1, SumOneMore
  <2> QED
    BY ONLY <2>2 DEF y
<1> QED
  BY <1>2, <1>9, <1>10 DEF t
=============================================================================
