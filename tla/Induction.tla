----------------------------- MODULE Induction -----------------------------
(***************************************************************************)
(* Induction over data, for the proofs of the other modules.  The library  *)
(* states induction for an operator, which the provers cannot instantiate; *)
(* that a set of counterexamples has a least member is first-order and     *)
(* serves as well.                                                         *)
(*                                                                         *)
(* The second part is about SumFunction of the community module Functions, *)
(* which adds up the values of a function over a finite set.               *)
(*                                                                         *)
(* Then come facts of integer arithmetic that the provers do not find by   *)
(* themselves, and loops: what a loop keeps in every round it keeps to its *)
(* end.                                                                    *)
(***************************************************************************)
EXTENDS Integers, Functions, FiniteSetTheorems, WellFoundedInduction, TLAPS

(* A set of subsets of a finite set has a minimal member.                   *)
LEMMA LeastSubset ==
    ASSUME NEW S, IsFiniteSet(S), NEW T \in SUBSET (SUBSET S), T # {}
    PROVE  \E x \in T : \A y \in T : ~(y \subseteq x /\ y # x)
  <1>1. IsWellFoundedOn(StrictSubsetOrdering(S), SUBSET S)
    BY FS_FiniteSubsetsOfFinite, FS_StrictSubsetOrderingWellFounded
  <1>2. PICK x \in T : \A y \in T : ~(<<y, x>> \in StrictSubsetOrdering(S))
    <2>1. T \subseteq SUBSET S
      OBVIOUS
    <2> QED
      BY <1>1, <2>1, WFMin
  <1> QED
    BY <1>2 DEF StrictSubsetOrdering

(* A set of natural numbers has a least member.                             *)
LEMMA LeastNatural ==
    ASSUME NEW T \in SUBSET Nat, T # {}
    PROVE  \E n \in T : \A m \in T : n <= m
  <1>1. PICK k \in T : TRUE
    OBVIOUS
  <1> DEFINE S == 0..k
             U == {0..(n - 1) : n \in {m \in T : m <= k}}
  <1>2. IsFiniteSet(S)
    BY FS_Interval
  <1>3. U \in SUBSET (SUBSET S) /\ U # {}
    OBVIOUS
  <1>4. PICK x \in U : \A y \in U : ~(y \subseteq x /\ y # x)
    <2> HIDE DEF S, U
    <2> QED BY <1>2, <1>3, LeastSubset
  <1>5. PICK n \in T : n <= k /\ x = 0..(n - 1)
    OBVIOUS
  <1>6. ASSUME NEW m \in T, m < n
        PROVE FALSE
    <2>1. 0..(m - 1) \in U
      BY <1>5, <1>6
    <2>2. 0..(m-1) \subseteq 0..(n-1)
      BY <1>6
    <2>3. m \in 0..(n-1) /\ m \notin 0..(m-1)
      BY <1>6
    <2> QED
      BY <1>4, <1>5, <2>1, <2>2, <2>3
  <1>7. \A m \in T : n <= m
    BY <1>6
  <1> QED
    BY <1>7

(* The recursion SumFunction stands for: take one member, add the rest.     *)
Some(S) == CHOOSE x \in S : TRUE

(* The function from subsets to sums that SumFunction chooses               *)
Partial(f) ==
    CHOOSE sum : sum = [S \in SUBSET DOMAIN f |->
        IF S = {} THEN 0 ELSE f[Some(S)] + sum[S \ {Some(S)}]]

(* sum satisfies the recursion that defines the sum of f over a set. *)
Recursion(sum, A, f) ==
    sum = [S \in SUBSET A |-> IF S = {} THEN 0 ELSE f[Some(S)] + sum[S \ {Some(S)}]]

(* sum is the table of the sums of f over the subsets of A. *)
Adds(sum, A, f) ==
    /\ sum \in [SUBSET A -> Int]
    /\ sum[{}] = 0
    /\ \A S \in SUBSET A : S # {} => sum[S] = f[Some(S)] + sum[S \ {Some(S)}]

(* SumFunction is that recursion, taken at the whole domain.                *)
LEMMA SumIsPartial ==
    ASSUME NEW f
    PROVE  SumFunction(f) = Partial(f)[DOMAIN f]
  BY DEF SumFunction, SumFunctionOnSet, FoldFunctionOnSet, MapThenFoldSet, Partial, Some

LEMMA SomeIn ==
    ASSUME NEW S, S # {}
    PROVE  Some(S) \in S
  BY DEF Some

(* A function that satisfies the recursion exists ...                       *)
LEMMA PartialExists ==
    ASSUME NEW A, IsFiniteSet(A), NEW f \in [A -> Int]
    PROVE  \E sum : Recursion(sum, A, f)
  <1> DEFINE Upto(n) == {S \in SUBSET A : Cardinality(S) <= n}
             Sums(g, D) ==
                /\ g \in [D -> Int]
                /\ \A S \in D : g[S] = IF S = {} THEN 0 ELSE f[Some(S)] + g[S \ {Some(S)}]
             T == {n \in Nat : ~\E g : Sums(g, Upto(n))}
  <1>1. \A S \in SUBSET A : IsFiniteSet(S) /\ Cardinality(S) \in Nat
    BY FS_Subset, FS_CardinalityType
  <1>2. \A S \in SUBSET A : S # {} =>
           /\ Some(S) \in A /\ S \ {Some(S)} \in SUBSET A
           /\ Cardinality(S \ {Some(S)}) = Cardinality(S) - 1
    BY <1>1, SomeIn, FS_RemoveElement
  <1>3. 0 \notin T
    <2> DEFINE z == [S \in Upto(0) |-> 0]
    <2>1. ASSUME NEW S \in Upto(0) PROVE S = {}
      <3>1. Cardinality(S) = 0
        BY <1>1
      <3> QED
        BY <1>1, <3>1, FS_EmptySet
    <2>2. Sums(z, Upto(0))
      BY <2>1
    <2> QED
      BY <2>2
  <1>4. ASSUME NEW n \in Nat, n \notin T
        PROVE n + 1 \notin T
    <2>1. PICK g : Sums(g, Upto(n))
      BY <1>4
    <2> DEFINE D == Upto(n + 1)
               h == [S \in D |-> IF S \in Upto(n) THEN g[S]
                                 ELSE f[Some(S)] + g[S \ {Some(S)}]]
    <2>2. \A S \in D : S # {} => /\ S \ {Some(S)} \in Upto(n)
                                 /\ f[Some(S)] \in Int
                                 /\ g[S \ {Some(S)}] \in Int
      BY <1>1, <1>2, <2>1
    <2>3. {} \in Upto(n)
      BY <1>1, FS_EmptySet
    <2>4. h \in [D -> Int]
      <3> SUFFICES ASSUME NEW S \in D PROVE h[S] \in Int
        OBVIOUS
      <3>1. CASE S \in Upto(n)
        BY <2>1, <3>1
      <3>2. CASE S \notin Upto(n)
        <4>1. S # {} /\ f[Some(S)] \in Int /\ g[S \ {Some(S)}] \in Int
          BY <2>2, <2>3, <3>2
        <4>2. h[S] = f[Some(S)] + g[S \ {Some(S)}]
          BY <3>2
        <4> QED
          BY <4>1, <4>2
      <3> QED
        BY <3>1, <3>2
    <2>5. ASSUME NEW S \in D
          PROVE h[S] = IF S = {} THEN 0 ELSE f[Some(S)] + h[S \ {Some(S)}]
      <3>1. CASE S = {}
        BY <3>1, <2>1, <2>3
      <3>2. CASE S # {}
        <4>1. S \ {Some(S)} \in Upto(n) /\ S \ {Some(S)} \in D
          BY <3>2, <2>2, <1>1
        <4>2. h[S \ {Some(S)}] = g[S \ {Some(S)}]
          BY <4>1
        <4> QED
          BY <3>2, <4>2, <2>1
      <3> QED
        BY <3>1, <3>2
    <2>6. Sums(h, D)
      BY <2>4, <2>5
    <2> QED
      BY <2>6
  <1>5. T \subseteq Nat
    OBVIOUS
  <1>6. T = {}
    <2> HIDE DEF T
    <2>1. ASSUME T # {} PROVE FALSE
      <3>1. PICK n \in T : \A m \in T : n <= m
        BY <2>1, <1>5, LeastNatural
      <3>2. n # 0 /\ n \in Nat
        BY <1>3, <1>5
      <3>3. n - 1 \in Nat /\ n - 1 \notin T
        BY <3>1, <3>2
      <3>4. (n - 1) + 1 \notin T
        BY <3>3, <1>4
      <3>5. (n - 1) + 1 = n
        BY <3>2
      <3> QED
        BY <3>4, <3>5
    <2> QED
      BY <2>1
  <1>7. PICK g : Sums(g, Upto(Cardinality(A)))
    BY <1>1, <1>6
  <1>8. Upto(Cardinality(A)) = SUBSET A
    BY <1>1, FS_Subset
  <1>9. g \in [SUBSET A -> Int]
    BY <1>7, <1>8
  <1>10. g = [S \in SUBSET A |-> IF S = {} THEN 0 ELSE f[Some(S)] + g[S \ {Some(S)}]]
    BY <1>7, <1>8, <1>9
  <1> QED
    BY <1>9, <1>10 DEF Recursion

(* ... so the chosen one satisfies it.                                      *)
LEMMA PartialSums ==
    ASSUME NEW A, IsFiniteSet(A), NEW f \in [A -> Int]
    PROVE  Adds(Partial(f), A, f)
  <1>1. DOMAIN f = A
    OBVIOUS
  <1>2. Partial(f) = CHOOSE sum : Recursion(sum, A, f)
    BY <1>1 DEF Partial, Recursion
  <1>3. \E sum : Recursion(sum, A, f)
    BY PartialExists
  <1>4. Recursion(Partial(f), A, f)
    BY <1>2, <1>3
  <1>5. Partial(f)[{}] = 0
    <2>1. {} \in SUBSET A
      OBVIOUS
    <2> QED
    BY <1>4, <2>1 DEF Recursion
  <1>6. \A S \in SUBSET A : S # {} =>
                 Partial(f)[S] = f[Some(S)] + Partial(f)[S \ {Some(S)}]
    BY <1>4 DEF Recursion
  <1>7. DOMAIN Partial(f) = SUBSET A
    BY <1>4 DEF Recursion
  <1>8. ASSUME NEW S \in SUBSET A PROVE Partial(f)[S] \in Int
    <2> DEFINE T == {R \in SUBSET A : Partial(f)[R] \notin Int}
    <2>1. CASE T = {}
      BY <2>1
    <2>2. CASE T # {}
      <3>1. PICK R \in T : \A Q \in T : ~(Q \subseteq R /\ Q # R)
        <4>1. T \in SUBSET (SUBSET A)
          OBVIOUS
        <4> HIDE DEF T
        <4> QED
          BY <2>2, <4>1, LeastSubset
      <3>2. R \in SUBSET A /\ Partial(f)[R] \notin Int
        OBVIOUS
      <3>3. R # {}
        BY <1>5, <3>2
      <3>4. Some(R) \in R /\ f[Some(R)] \in Int
        BY <3>2, <3>3, SomeIn
      <3>5. Partial(f)[R \ {Some(R)}] \in Int
        BY <3>1, <3>2, <3>4
      <3>6. Partial(f)[R] \in Int
        <4>1. Partial(f)[R] = f[Some(R)] + Partial(f)[R \ {Some(R)}]
          BY <1>6, <3>2, <3>3
        <4> QED
          BY <3>4, <3>5, <4>1
      <3> QED
        BY <3>2, <3>6
    <2> QED
      BY <2>1, <2>2
  <1>9. Partial(f) \in [SUBSET A -> Int]
    BY <1>4, <1>7, <1>8 DEF Recursion
  <1> QED
    BY <1>5, <1>6, <1>9 DEF Adds

(* A finite sum of integers is an integer.                                  *)
LEMMA SumType ==
    ASSUME NEW A, IsFiniteSet(A), NEW f \in [A -> Int]
    PROVE  SumFunction(f) \in Int
  <1>1. Adds(Partial(f), A, f)
    BY PartialSums
  <1>2. Partial(f)[A] \in Int
    BY <1>1 DEF Adds
  <1>3. SumFunction(f) = Partial(f)[DOMAIN f]
    BY SumIsPartial
  <1> QED
    BY <1>2, <1>3

(* Functions that differ at one point have sums that differ by as much. *)
LEMMA SumChange ==
    ASSUME NEW A, IsFiniteSet(A), NEW f \in [A -> Int], NEW g \in [A -> Int],
           NEW x \in A, \A y \in A : y # x => g[y] = f[y]
    PROVE  SumFunction(g) = SumFunction(f) + (g[x] - f[x])
  <1> DEFINE D(S) == IF x \in S THEN g[x] - f[x] ELSE 0
             T == {S \in SUBSET A : Partial(g)[S] # Partial(f)[S] + D(S)}
  <1>0. Adds(Partial(f), A, f) /\ Adds(Partial(g), A, g)
    BY PartialSums
  <1>1. /\ Partial(f) \in [SUBSET A -> Int] /\ Partial(f)[{}] = 0
        /\ Partial(g) \in [SUBSET A -> Int] /\ Partial(g)[{}] = 0
    BY <1>0 DEF Adds
  <1>2. \A S \in SUBSET A : S # {} =>
           /\ Partial(f)[S] = f[Some(S)] + Partial(f)[S \ {Some(S)}]
           /\ Partial(g)[S] = g[Some(S)] + Partial(g)[S \ {Some(S)}]
    BY <1>0 DEF Adds
  <1>3. T = {}
    <2>1. ASSUME T # {} PROVE FALSE
      <3>1. PICK R \in T : \A Q \in T : ~(Q \subseteq R /\ Q # R)
        <4>1. T \in SUBSET (SUBSET A)
          OBVIOUS
        <4> HIDE DEF T
        <4> QED
          BY <2>1, <4>1, LeastSubset
      <3>2. R \in SUBSET A /\ Partial(g)[R] # Partial(f)[R] + D(R)
        OBVIOUS
      <3>3. R # {}
        <4>1. Partial(f)[{}] + D({}) = 0
          BY <1>1
        <4> HIDE DEF D
        <4> QED
          BY <1>1, <3>2, <4>1
      <3> DEFINE s == Some(R)
                 Q == R \ {s}
      <3>4. s \in R /\ s \in A /\ Q \in SUBSET A
        BY <3>2, <3>3, SomeIn
      <3>5. Partial(g)[Q] = Partial(f)[Q] + D(Q)
        BY <3>1, <3>4
      <3>6. /\ Partial(f)[R] = f[s] + Partial(f)[Q]
            /\ Partial(g)[R] = g[s] + Partial(g)[Q]
        BY <1>2, <3>2, <3>3
      <3>7. /\ Partial(f)[Q] \in Int /\ Partial(g)[Q] \in Int /\ f[s] \in Int /\ g[s] \in Int
            /\ f[x] \in Int /\ g[x] \in Int
        BY <1>1, <3>4
      <3>8. CASE s = x
        <4>1. D(Q) = 0 /\ D(R) = g[x] - f[x]
          BY <3>4, <3>8
        <4> HIDE DEF D, Q, s
        <4> QED
          BY <3>2, <3>5, <3>6, <3>7, <3>8, <4>1
      <3>9. CASE s # x
        <4>1. D(Q) = D(R) /\ D(R) \in Int
          BY <3>4, <3>7, <3>9
        <4>2. g[s] = f[s]
          BY <3>4, <3>9
        <4> HIDE DEF D, Q, s
        <4> QED
          BY <3>2, <3>5, <3>6, <3>7, <4>1, <4>2
      <3> QED
        BY <3>8, <3>9
    <2> QED
      BY <2>1
  <1>4. Partial(g)[A] = Partial(f)[A] + (g[x] - f[x])
    BY <1>3
  <1>5. DOMAIN f = A /\ DOMAIN g = A
    OBVIOUS
  <1> QED
    BY <1>4, <1>5, SumIsPartial

(* A sum of zeros is zero.                                                  *)
LEMMA SumOfZeros ==
    ASSUME NEW A, IsFiniteSet(A)
    PROVE  SumFunction([x \in A |-> 0]) = 0
  <1> DEFINE f == [x \in A |-> 0]
             T == {S \in SUBSET A : Partial(f)[S] # 0}
  <1>0. f \in [A -> Int] /\ DOMAIN f = A /\ \A x \in A : f[x] = 0
    OBVIOUS
  <1> HIDE DEF f
  <1>a. Adds(Partial(f), A, f)
    BY <1>0, PartialSums
  <1>1. Partial(f) \in [SUBSET A -> Int] /\ Partial(f)[{}] = 0
    BY <1>a DEF Adds
  <1>2. \A S \in SUBSET A : S # {} =>
           Partial(f)[S] = f[Some(S)] + Partial(f)[S \ {Some(S)}]
    BY <1>a DEF Adds
  <1>3. T = {}
    <2>1. ASSUME T # {} PROVE FALSE
      <3>1. PICK R \in T : \A Q \in T : ~(Q \subseteq R /\ Q # R)
        <4>1. T \in SUBSET (SUBSET A)
          OBVIOUS
        <4> HIDE DEF T
        <4> QED
          BY <2>1, <4>1, LeastSubset
      <3>2. R \in SUBSET A /\ Partial(f)[R] # 0
        OBVIOUS
      <3>3. R # {}
        BY <1>1, <3>2
      <3>4. Some(R) \in R /\ R \ {Some(R)} \in SUBSET A
        BY <3>2, <3>3, SomeIn
      <3>5. Partial(f)[R \ {Some(R)}] = 0
        BY <3>1, <3>4
      <3>6. f[Some(R)] = 0
        BY <1>0, <3>2, <3>4
      <3> QED
        BY <1>2, <3>2, <3>3, <3>5, <3>6
    <2> QED
      BY <2>1
  <1>4. SumFunction(f) = 0
    BY <1>0, <1>1, <1>3, SumIsPartial
  <1> QED
    BY <1>4 DEF f

-----------------------------------------------------------------------------
(* Arithmetic with moduli that are parameters *)

(* Below the modulus there is nothing to take away. *)
LEMMA ModBelow ==
    ASSUME NEW a \in Nat, NEW m \in Nat, m < a
    PROVE  m % a = m
  OBVIOUS

(* What % and \div return for a positive divisor                            *)
LEMMA ModRange ==
    ASSUME NEW x \in Int, NEW m \in Nat \ {0}
    PROVE  x % m \in 0 .. (m - 1) /\ x \div m \in Int
  OBVIOUS

(* Quotient and remainder give the number back. *)
LEMMA EuclideanDivision ==
    ASSUME NEW x \in Int, NEW y \in Int, y > 0
    PROVE  x = y * (x \div y) + (x % y)
  BY SMTT(30)

(* Multiplication by a natural number keeps the order.                      *)
LEMMA TimesMonotone ==
    ASSUME NEW a \in Int, NEW b \in Int, NEW m \in Nat, a <= b
    PROVE  a * m <= b * m /\ m * a <= m * b
  <1>1. PICK d \in Nat : b = a + d
    <2>1. b - a \in Nat /\ b = a + (b - a)
      OBVIOUS
    <2> QED
      BY <2>1
  <1>2. b * m = a * m + d * m /\ m * b = m * a + m * d
    BY <1>1
  <1>3. d * m \in Nat /\ m * d \in Nat
    OBVIOUS
  <1> QED
    BY <1>2, <1>3

-----------------------------------------------------------------------------
(* Loops: functions that iterate a step.  g[n] is the singleton of the value *)
(* after n rounds.                                                           *)

(* Induction over a set of numbers. *)
LEMMA NaturalInduction ==
    ASSUME NEW T, 0 \in T, \A n \in Nat : n \in T => n + 1 \in T
    PROVE  Nat \subseteq T
  <1> DEFINE U == Nat \ T
  <1>1. U \in SUBSET Nat
    OBVIOUS
  <1>2. ASSUME U # {} PROVE FALSE
    <2>1. PICK n \in U : \A m \in U : n <= m
      <3> HIDE DEF U
      <3> QED
        BY <1>1, <1>2, LeastNatural
    <2>2. n \in Nat /\ n \notin T
      OBVIOUS
    <2>3. n - 1 \in Nat /\ (n - 1) + 1 = n
      BY <2>2
    <2>4. n - 1 \notin U
      BY <2>1, <2>2, <2>3
    <2> QED
      BY <2>2, <2>3, <2>4
  <1> QED
    BY <1>2

(* g[n] holds the value of a loop variable after n rounds.                  *)
Iterates(g, d, step, k) ==
    g = [n \in 0..k |-> IF n = 0 THEN {d} ELSE {step[x] : x \in g[n - 1]}]

(* There is such a function. *)
LEMMA IterationExists ==
    ASSUME NEW d, NEW step, NEW k \in Nat
    PROVE  \E g : Iterates(g, d, step, k)
  <1> DEFINE T == {m \in Nat : \E g : Iterates(g, d, step, m)}
  <1>1. 0 \in T
    <2>1. Iterates([n \in 0..0 |-> {d}], d, step, 0)
      BY DEF Iterates
    <2> QED
      BY <2>1
  <1>2. ASSUME NEW m \in Nat, m \in T PROVE m + 1 \in T
    <2>1. PICK g : Iterates(g, d, step, m)
      BY <1>2
    <2> DEFINE h == [n \in 0..(m + 1) |-> IF n \in 0..m THEN g[n] ELSE {step[x] : x \in g[m]}]
    <2>2. ASSUME NEW n \in 0..(m + 1)
          PROVE  h[n] = IF n = 0 THEN {d} ELSE {step[x] : x \in h[n - 1]}
      <3>1. CASE n \in 0..m
        <4>1. g[n] = IF n = 0 THEN {d} ELSE {step[x] : x \in g[n - 1]}
          BY <2>1, <3>1 DEF Iterates
        <4>2. n # 0 => n - 1 \in 0..m /\ n - 1 \in 0..(m + 1)
          BY <3>1
        <4>3. h[n] = g[n] /\ (n # 0 => h[n - 1] = g[n - 1])
          BY <3>1, <4>2
        <4> HIDE DEF h
        <4>4. CASE n = 0
          BY <4>1, <4>3, <4>4
        <4>5. CASE n # 0
          BY <4>1, <4>3, <4>5
        <4> QED
          BY <4>4, <4>5
      <3>2. CASE n = m + 1
        <4>1. n # 0 /\ n \notin 0..m /\ n - 1 \in 0..m /\ n - 1 = m /\ n - 1 \in 0..(m + 1)
          BY <3>2
        <4>2. h[n - 1] = g[m] /\ h[n] = {step[x] : x \in g[m]}
          BY <4>1
        <4> HIDE DEF h
        <4> QED
          BY <4>1, <4>2
      <3> QED
        BY <3>1, <3>2
    <2>3. Iterates(h, d, step, m + 1)
      BY <2>2 DEF Iterates
    <2> QED
      BY <2>3
  <1>3. Nat \subseteq T
    <2> HIDE DEF T
    <2> QED
      BY <1>1, <1>2, NaturalInduction
  <1> QED
    BY <1>3

(* After n rounds the value is in D[n]. *)
InRound(g, D, n) == \E x \in D[n] : g[n] = {x}

(* What holds before the loop and is kept by each round holds after it. *)
LEMMA LoopInvariance ==
    ASSUME NEW g, NEW D, NEW k \in Nat, InRound(g, D, 0),
           \A n \in 1..k : InRound(g, D, n - 1) => InRound(g, D, n)
    PROVE  \A n \in 0..k : InRound(g, D, n)
  <1> DEFINE T == {m \in Nat : m <= k => InRound(g, D, m)}
  <1>1. 0 \in T
    OBVIOUS
  <1>2. ASSUME NEW m \in Nat, m \in T PROVE m + 1 \in T
    <2>1. SUFFICES ASSUME m + 1 <= k PROVE InRound(g, D, m + 1)
      OBVIOUS
    <2>2. m + 1 \in 1..k /\ (m + 1) - 1 = m /\ m <= k
      BY <2>1
    <2> QED
      BY <1>2, <2>2
  <1>3. Nat \subseteq T
    <2> HIDE DEF T
    <2> QED
      BY <1>1, <1>2, NaturalInduction
  <1> QED
    BY <1>3
=============================================================================
