------------------------------ MODULE Counting ------------------------------
(***************************************************************************)
(* Induction for the proofs of the other modules, from the fact that a set *)
(* of numbers has a least one: numbers reached step by step, functions     *)
(* defined by recursion on numbers, and sums over finite sets.             *)
(***************************************************************************)
EXTENDS Functions, FiniteSetTheorems, WellFoundedInduction, TLAPS

-----------------------------------------------------------------------------
(* Numbers.                                                                *)

\* A set of numbers that is not empty has a least one.
LEMMA LeastNat ==
  ASSUME NEW T, T \subseteq Nat, T # {}
  PROVE  \E m \in T : \A k \in T : m <= k
  <1>1. PICK m \in T : \A k \in T : <<k, m>> \notin OpToRel(<, Nat)
    BY NatLessThanWellFounded, WFMin, Zenon
  <1>2. \A k \in T : ~(k < m)
    BY <1>1 DEF OpToRel
  <1> QED
    BY <1>2

\* A function of 0..n that goes up by at most one in a step.
Gradual(f, n) == \A i \in 0..(n - 1) : f[i + 1] <= f[i] + 1

\* What goes from at most y to at least y, up by at most one in a step, is y
\* at some step.
LEMMA StepByStep ==
  ASSUME NEW n \in Nat, NEW f \in [0..n -> Int], NEW y \in Int,
         f[0] <= y, f[n] >= y, Gradual(f, n)
  PROVE  \E i \in 0..n : f[i] = y
  <1> DEFINE T == {i \in 0..n : f[i] >= y}
  <1>1. T \subseteq Nat /\ n \in T
    OBVIOUS
  <1>2. PICK m \in T : \A k \in T : m <= k
    <2> HIDE DEF T
    <2> QED
      BY <1>1, LeastNat
  <1>3. CASE m = 0
    BY <1>3
  <1>4. CASE m # 0
    <2>1. m - 1 \in 0..(n - 1) /\ m - 1 \in 0..n /\ (m - 1) + 1 = m
      BY <1>4
    <2>2. m - 1 \notin T
      BY <1>2
    <2>3. f[m - 1] < y
      BY <2>1, <2>2
    <2>4. f[m] <= f[m - 1] + 1
      BY <2>1 DEF Gradual
    <2> QED
      BY <2>1, <2>3, <2>4
  <1> QED
    BY <1>3, <1>4

-----------------------------------------------------------------------------
(* Functions defined by recursion.                                         *)

\* f begins with b, and every next value comes from the last by g.
Iterates(f, b, g, n) ==
    /\ f[0] = b
    /\ \A i \in 1..n : f[i] = g[i][f[i - 1]]

\* There is a function of 0..n for every first value and every step.
LEMMA RecursionExists ==
  ASSUME NEW S, NEW b \in S, NEW g \in [Nat -> [S -> S]], NEW n \in Nat
  PROVE  \E f \in [0..n -> S] : Iterates(f, b, g, n)
  <1> DEFINE Defined(m) == \E f \in [0..m -> S] : Iterates(f, b, g, m)
             T == {m \in Nat : ~Defined(m)}
  <1>1. SUFFICES ASSUME T # {} PROVE FALSE
    OBVIOUS
  <1>2. PICK m \in T : \A k \in T : m <= k
    <2>1. T \subseteq Nat
      OBVIOUS
    <2> HIDE DEF T
    <2> QED
      BY <1>1, <2>1, LeastNat
  <1>3. CASE m = 0
    <2> DEFINE f == [i \in 0..0 |-> b]
    <2>1. f \in [0..0 -> S] /\ f[0] = b /\ 1..0 = {}
      OBVIOUS
    <2>2. Iterates(f, b, g, 0)
      BY <2>1 DEF Iterates
    <2> QED
      BY <1>3, <2>1, <2>2
  <1>4. CASE m # 0
    <2>1. m - 1 \in Nat /\ m - 1 \notin T /\ m \in Nat /\ m > 0
      BY <1>2, <1>4
    <2>2. PICK f \in [0..(m - 1) -> S] : Iterates(f, b, g, m - 1)
      BY <2>1
    <2> DEFINE e == [i \in 0..m |-> IF i = m THEN g[m][f[m - 1]] ELSE f[i]]
    <2>3. e \in [0..m -> S]
      <3>1. f[m - 1] \in S /\ g[m] \in [S -> S]
        BY <2>1
      <3>2. \A i \in 0..m : i # m => i \in 0..(m - 1)
        BY <2>1
      <3> QED
        BY <3>1, <3>2
    <2>4. e[0] = b
      BY <2>1, <2>2 DEF Iterates
    <2>5. ASSUME NEW i \in 1..m
          PROVE  e[i] = g[i][e[i - 1]]
      <3>1. i - 1 \in 0..m /\ i - 1 # m /\ e[i - 1] = f[i - 1]
        BY <2>1
      <3>2. CASE i = m
        BY <3>1, <3>2
      <3>3. CASE i # m
        <4>1. i \in 1..(m - 1) /\ e[i] = f[i]
          BY <2>1, <3>3
        <4> QED
          BY <2>2, <3>1, <4>1 DEF Iterates
      <3> QED
        BY <3>2, <3>3
    <2> HIDE DEF e
    <2>6. Iterates(e, b, g, m)
      BY <2>4, <2>5 DEF Iterates
    <2>7. m \notin T
      BY <2>3, <2>6
    <2> QED
      BY <1>2, <2>7
  <1> QED
    BY <1>3, <1>4

\* What holds of 0, and of every number that follows one it holds of, holds of
\* every number: P is the set of those it holds of.
LEMMA AllNumbers ==
  ASSUME NEW n \in Nat, NEW P, 0 \in P,
         \A i \in 0..(n - 1) : i \in P => i + 1 \in P
  PROVE  0..n \subseteq P
  <1> DEFINE T == {i \in 0..n : i \notin P}
  <1>1. SUFFICES ASSUME T # {} PROVE FALSE
    OBVIOUS
  <1>2. PICK m \in T : \A k \in T : m <= k
    <2>1. T \subseteq Nat
      OBVIOUS
    <2> HIDE DEF T
    <2> QED
      BY <1>1, <2>1, LeastNat
  <1>3. m # 0
    OBVIOUS
  <1>4. m - 1 \in 0..(n - 1) /\ (m - 1) + 1 = m /\ m - 1 \notin T
    BY <1>2, <1>3
  <1>5. m - 1 \in P
    BY <1>4
  <1> QED
    BY <1>4, <1>5

-----------------------------------------------------------------------------
(* Sums over finite sets.                                                  *)

\* The element a sum takes out of a set first.
Pick(s) == CHOOSE x \in s : TRUE

\* r has the sums of f over the subsets of S.
Sums(r, f, S) ==
    r = [s \in SUBSET S |-> IF s = {} THEN 0
                            ELSE f[Pick(s)] + r[s \ {Pick(s)}]]

\* SumFunctionOnSet by the function it is the last value of.
LEMMA SumUnfolds ==
  ASSUME NEW f, NEW S
  PROVE  SumFunctionOnSet(f, S) = (CHOOSE r : Sums(r, f, S))[S]
  BY DEF SumFunctionOnSet, FoldFunctionOnSet, MapThenFoldSet, Sums, Pick

\* Summands are numbers.
Summable(f, S) == \A x \in S : f[x] \in Int

\* r has the sums over the subsets of at most k elements.
SumsUpTo(r, f, S, k) ==
    \A s \in SUBSET S : Cardinality(s) <= k =>
        r[s] = IF s = {} THEN 0 ELSE f[Pick(s)] + r[s \ {Pick(s)}]

\* One element less.
LEMMA PickedOut ==
  ASSUME NEW S, IsFiniteSet(S), NEW s \in SUBSET S
  PROVE  /\ IsFiniteSet(s) /\ Cardinality(s) \in Nat
         /\ Cardinality(s) <= Cardinality(S)
         /\ s # {} => Cardinality(s) > 0 /\ Pick(s) \in s
         /\ \A x \in s : /\ s \ {x} \in SUBSET S
                         /\ Cardinality(s \ {x}) = Cardinality(s) - 1
  <1>1. IsFiniteSet(s) /\ Cardinality(s) <= Cardinality(S)
    BY FS_Subset
  <1>2. Cardinality(s) \in Nat
    BY <1>1, FS_CardinalityType
  <1>3. s # {} => Cardinality(s) # 0
    BY <1>1, FS_EmptySet
  <1>4. s # {} => Pick(s) \in s
    BY DEF Pick
  <1>5. \A x \in s : Cardinality(s \ {x}) = Cardinality(s) - 1
    BY <1>1, FS_RemoveElement
  <1> QED
    BY <1>1, <1>2, <1>3, <1>4, <1>5

\* The sums over the subsets of a finite set exist.
LEMMA SumsExist ==
  ASSUME NEW S, IsFiniteSet(S), NEW f, Summable(f, S)
  PROVE  \E r \in [SUBSET S -> Int] : Sums(r, f, S)
  <1> DEFINE n == Cardinality(S)
             Good(k) == \E r \in [SUBSET S -> Int] : SumsUpTo(r, f, S, k)
             P == {k \in 0..n : Good(k)}
  <1>1. n \in Nat
    BY FS_CardinalityType
  <1>2. 0 \in P
    <2> DEFINE r == [s \in SUBSET S |-> 0]
    <2>1. r \in [SUBSET S -> Int]
      OBVIOUS
    <2>2. ASSUME NEW s \in SUBSET S, Cardinality(s) <= 0
          PROVE  s = {}
      BY <2>2, PickedOut
    <2>3. SumsUpTo(r, f, S, 0)
      BY <2>2 DEF SumsUpTo
    <2> QED
      BY <1>1, <2>1, <2>3
  <1>3. ASSUME NEW k \in 0..(n - 1), k \in P
        PROVE  k + 1 \in P
    <2>1. PICK r \in [SUBSET S -> Int] : SumsUpTo(r, f, S, k)
      BY <1>3
    <2> DEFINE Next(s) == IF s = {} THEN 0 ELSE f[Pick(s)] + r[s \ {Pick(s)}]
               e == [s \in SUBSET S |-> Next(s)]
    <2>2. ASSUME NEW s \in SUBSET S
          PROVE  Next(s) \in Int
      <3>1. CASE s = {}
        BY <3>1
      <3>2. CASE s # {}
        <4>1. f[Pick(s)] \in Int /\ s \ {Pick(s)} \in SUBSET S
          BY <3>2, PickedOut DEF Summable
        <4>2. r[s \ {Pick(s)}] \in Int
          BY <4>1
        <4> QED
          BY <3>2, <4>1, <4>2
      <3> QED
        BY <3>1, <3>2
    <2>3. e \in [SUBSET S -> Int]
      <3> HIDE DEF Next
      <3> QED
        BY <2>2
    <2>4. ASSUME NEW s \in SUBSET S, Cardinality(s) <= k
          PROVE  e[s] = r[s]
      BY <2>1, <2>4 DEF SumsUpTo
    <2>5. ASSUME NEW s \in SUBSET S, Cardinality(s) <= k + 1, s # {}
          PROVE  e[s] = f[Pick(s)] + e[s \ {Pick(s)}]
      <3>1. Pick(s) \in s /\ Cardinality(s) \in Nat
        BY <2>5, PickedOut
      <3>2. /\ s \ {Pick(s)} \in SUBSET S
            /\ Cardinality(s \ {Pick(s)}) = Cardinality(s) - 1
        BY <3>1, PickedOut
      <3>3. Cardinality(s \ {Pick(s)}) <= k
        BY <2>5, <3>1, <3>2, <1>1
      <3>4. e[s \ {Pick(s)}] = r[s \ {Pick(s)}]
        <4> HIDE DEF e
        <4> QED
          BY <2>4, <3>2, <3>3
      <3> QED
        BY <2>5, <3>4
    <2>6. e[{}] = 0
      OBVIOUS
    <2> HIDE DEF e
    <2>7. SumsUpTo(e, f, S, k + 1)
      BY <2>5, <2>6 DEF SumsUpTo
    <2>8. k + 1 \in 0..n
      BY <1>1
    <2> QED
      BY <2>3, <2>7, <2>8
  <1>4. n \in P
    <2> HIDE DEF P
    <2>1. 0..n \subseteq P
      BY <1>1, <1>2, <1>3, AllNumbers
    <2> QED
      BY <1>1, <2>1
  <1>5. PICK r \in [SUBSET S -> Int] : SumsUpTo(r, f, S, n)
    BY <1>4
  <1>6. \A s \in SUBSET S :
           r[s] = IF s = {} THEN 0 ELSE f[Pick(s)] + r[s \ {Pick(s)}]
    BY <1>5, PickedOut DEF SumsUpTo
  <1>7. Sums(r, f, S)
    BY <1>6 DEF Sums
  <1> QED
    BY <1>7

\* Sums of the same numbers over the same set are the same.
LEMMA SumsAgree ==
  ASSUME NEW S, NEW T, NEW f, NEW g, NEW p, NEW q,
         Sums(p, f, S), Sums(q, g, T),
         NEW U, IsFiniteSet(U), U \subseteq S, U \subseteq T,
         \A x \in U : f[x] = g[x]
  PROVE  p[U] = q[U]
  <1> DEFINE n == Cardinality(U)
             P == {k \in 0..n : \A s \in SUBSET U :
                                   Cardinality(s) <= k => p[s] = q[s]}
  <1>1. n \in Nat
    BY FS_CardinalityType
  <1>2. ASSUME NEW s \in SUBSET U
        PROVE  /\ p[s] = IF s = {} THEN 0 ELSE f[Pick(s)] + p[s \ {Pick(s)}]
               /\ q[s] = IF s = {} THEN 0 ELSE g[Pick(s)] + q[s \ {Pick(s)}]
    <2>1. s \in SUBSET S /\ s \in SUBSET T
      OBVIOUS
    <2> QED
      BY <2>1 DEF Sums
  <1>3. 0 \in P
    <2>1. ASSUME NEW s \in SUBSET U, Cardinality(s) <= 0
          PROVE  s = {}
      BY <2>1, PickedOut
    <2>2. p[{}] = q[{}]
      BY <1>2
    <2> QED
      BY <1>1, <2>1, <2>2
  <1>4. ASSUME NEW k \in 0..(n - 1), k \in P
        PROVE  k + 1 \in P
    <2>1. ASSUME NEW s \in SUBSET U, Cardinality(s) <= k + 1
          PROVE  p[s] = q[s]
      <3>1. CASE s = {}
        BY <1>2, <3>1
      <3>2. CASE s # {}
        <4>1. Pick(s) \in s /\ Cardinality(s) \in Nat
          BY <3>2, PickedOut
        <4>2. /\ s \ {Pick(s)} \in SUBSET U
              /\ Cardinality(s \ {Pick(s)}) = Cardinality(s) - 1
          BY <4>1, PickedOut
        <4>3. Cardinality(s \ {Pick(s)}) <= k
          BY <2>1, <4>1, <4>2, <1>1
        <4>4. p[s \ {Pick(s)}] = q[s \ {Pick(s)}]
          BY <1>4, <4>2, <4>3
        <4>5. f[Pick(s)] = g[Pick(s)]
          BY <4>1
        <4> QED
          BY <1>2, <3>2, <4>4, <4>5
      <3> QED
        BY <3>1, <3>2
    <2>2. k + 1 \in 0..n
      BY <1>1
    <2> QED
      BY <2>1, <2>2
  <1>5. n \in P
    <2> HIDE DEF P
    <2>1. 0..n \subseteq P
      BY <1>1, <1>3, <1>4, AllNumbers
    <2> QED
      BY <1>1, <2>1
  <1>6. U \in SUBSET U /\ Cardinality(U) <= n
    BY <1>1
  <1> QED
    BY <1>5, <1>6

\* The sum over a finite set is that of the function of all sums.
LEMMA SumIs ==
  ASSUME NEW S, IsFiniteSet(S), NEW f, Summable(f, S),
         NEW T \in SUBSET S, NEW r, Sums(r, f, S)
  PROVE  SumFunctionOnSet(f, T) = r[T]
  <1> DEFINE c == CHOOSE e : Sums(e, f, T)
  <1>1. IsFiniteSet(T) /\ Summable(f, T)
    BY FS_Subset DEF Summable
  <1>2. Sums(c, f, T)
    BY <1>1, SumsExist
  <1>3. SumFunctionOnSet(f, T) = c[T]
    BY SumUnfolds
  <1> HIDE DEF c
  <1>4. c[T] = r[T]
    BY <1>1, <1>2, SumsAgree
  <1> QED
    BY <1>3, <1>4

\* A sum is a number, and that of nothing is zero.
LEMMA SumType ==
  ASSUME NEW S, IsFiniteSet(S), NEW f, Summable(f, S)
  PROVE  /\ SumFunctionOnSet(f, S) \in Int
         /\ SumFunctionOnSet(f, {}) = 0
  <1>1. PICK r \in [SUBSET S -> Int] : Sums(r, f, S)
    BY SumsExist
  <1>2. S \in SUBSET S /\ {} \in SUBSET S
    OBVIOUS
  <1>3. SumFunctionOnSet(f, S) = r[S] /\ SumFunctionOnSet(f, {}) = r[{}]
    BY <1>1, <1>2, SumIs
  <1>4. r[{}] = 0
    BY <1>1, <1>2 DEF Sums
  <1> QED
    BY <1>2, <1>3, <1>4

\* Equal summands have equal sums.
LEMMA SumSame ==
  ASSUME NEW S, IsFiniteSet(S), NEW f, NEW g, Summable(f, S),
         \A x \in S : f[x] = g[x]
  PROVE  SumFunctionOnSet(f, S) = SumFunctionOnSet(g, S)
  <1>1. Summable(g, S) /\ S \in SUBSET S
    BY DEF Summable
  <1>2. PICK p \in [SUBSET S -> Int] : Sums(p, f, S)
    BY SumsExist
  <1>3. PICK q \in [SUBSET S -> Int] : Sums(q, g, S)
    BY <1>1, SumsExist
  <1>4. p[S] = q[S]
    BY <1>2, <1>3, SumsAgree
  <1>5. SumFunctionOnSet(f, S) = p[S]
    BY <1>1, <1>2, SumIs
  <1>6. SumFunctionOnSet(g, S) = q[S]
    BY <1>1, <1>3, SumIs
  <1> QED
    BY <1>4, <1>5, <1>6

\* The order of the summands does not matter: any of them can be taken out
\* first.
LEMMA SumRemove ==
  ASSUME NEW S, IsFiniteSet(S), NEW f, Summable(f, S), NEW x \in S
  PROVE  SumFunctionOnSet(f, S) = f[x] + SumFunctionOnSet(f, S \ {x})
  <1> DEFINE n == Cardinality(S)
  <1>1. PICK r \in [SUBSET S -> Int] : Sums(r, f, S)
    BY SumsExist
  <1> DEFINE TakesOut(s) == \A y \in s : r[s] = f[y] + r[s \ {y}]
             P == {k \in 0..n : \A s \in SUBSET S :
                                   Cardinality(s) <= k => TakesOut(s)}
  <1>2. n \in Nat
    BY FS_CardinalityType
  <1>3. ASSUME NEW s \in SUBSET S, s # {}
        PROVE  r[s] = f[Pick(s)] + r[s \ {Pick(s)}]
    BY <1>1, <1>3 DEF Sums
  <1>4. 0 \in P
    <2>1. ASSUME NEW s \in SUBSET S, Cardinality(s) <= 0
          PROVE  s = {}
      BY <2>1, PickedOut
    <2> QED
      BY <1>2, <2>1
  <1>5. ASSUME NEW k \in 0..(n - 1), k \in P
        PROVE  k + 1 \in P
    <2>1. ASSUME NEW s \in SUBSET S, Cardinality(s) <= k + 1, NEW y \in s
          PROVE  r[s] = f[y] + r[s \ {y}]
      <3> DEFINE z == Pick(s)
                 w == (s \ {z}) \ {y}
      <3>1. z \in s /\ Cardinality(s) \in Nat
        BY PickedOut
      <3>2. CASE y = z
        BY <1>3, <3>2
      <3>3. CASE y # z
        <4>1. /\ s \ {z} \in SUBSET S /\ y \in s \ {z}
              /\ s \ {y} \in SUBSET S /\ z \in s \ {y}
              /\ w \in SUBSET S /\ (s \ {y}) \ {z} = w
          BY <3>1, <3>3
        <4>2. Cardinality(s \ {z}) <= k /\ Cardinality(s \ {y}) <= k
          <5>1. /\ Cardinality(s \ {z}) = Cardinality(s) - 1
                /\ Cardinality(s \ {y}) = Cardinality(s) - 1
            BY <3>1, PickedOut
          <5> QED
            BY <5>1, <2>1, <3>1, <1>2
        <4>3. r[s \ {z}] = f[y] + r[w]
          BY <1>5, <4>1, <4>2
        <4>4. r[s \ {y}] = f[z] + r[w]
          BY <1>5, <4>1, <4>2
        <4>5. r[s] = f[z] + r[s \ {z}]
          BY <1>3, <3>1
        <4>6. f[y] \in Int /\ f[z] \in Int /\ r[w] \in Int
          BY <3>1, <4>1 DEF Summable
        <4> HIDE DEF w, z
        <4> QED
          BY <4>3, <4>4, <4>5, <4>6
      <3> QED
        BY <3>2, <3>3
    <2>2. k + 1 \in 0..n
      BY <1>2
    <2> QED
      BY <2>1, <2>2
  <1>6. n \in P
    <2> HIDE DEF P
    <2>1. 0..n \subseteq P
      BY <1>2, <1>4, <1>5, AllNumbers
    <2> QED
      BY <1>2, <2>1
  <1>7. S \in SUBSET S /\ S \ {x} \in SUBSET S /\ n <= n
    BY <1>2
  <1>8. r[S] = f[x] + r[S \ {x}]
    BY <1>6, <1>7
  <1>9. SumFunctionOnSet(f, S) = r[S]
    BY <1>1, <1>7, SumIs
  <1>10. SumFunctionOnSet(f, S \ {x}) = r[S \ {x}]
    BY <1>1, <1>7, SumIs
  <1> QED
    BY <1>8, <1>9, <1>10

\* Relations between summands.
Below(f, g, S) == \A x \in S : f[x] <= g[x]

Scaled(g, c, f, S) == \A x \in S : g[x] = c * f[x]

\* A sum over part of S, with one element taken out.
LEMMA SumParts ==
  ASSUME NEW S, IsFiniteSet(S), NEW f, Summable(f, S),
         NEW s \in SUBSET S, NEW x \in s
  PROVE  /\ f[x] \in Int
         /\ SumFunctionOnSet(f, s \ {x}) \in Int
         /\ SumFunctionOnSet(f, s) = f[x] + SumFunctionOnSet(f, s \ {x})
  <1>1. s \ {x} \in SUBSET S /\ IsFiniteSet(s) /\ IsFiniteSet(s \ {x})
    BY FS_Subset
  <1>2. Summable(f, s) /\ Summable(f, s \ {x}) /\ f[x] \in Int
    BY DEF Summable
  <1> QED
    BY <1>1, <1>2, SumType, SumRemove

\* Smaller summands have a smaller sum.
LEMMA SumAtMost ==
  ASSUME NEW S, IsFiniteSet(S), NEW f, NEW g, Summable(f, S), Summable(g, S),
         Below(f, g, S)
  PROVE  SumFunctionOnSet(f, S) <= SumFunctionOnSet(g, S)
  <1> DEFINE n == Cardinality(S)
             Holds(s) == SumFunctionOnSet(f, s) <= SumFunctionOnSet(g, s)
             P == {k \in 0..n : \A s \in SUBSET S :
                                   Cardinality(s) <= k => Holds(s)}
  <1>f. ASSUME NEW s \in SUBSET S, NEW x \in s
        PROVE  /\ f[x] \in Int
               /\ SumFunctionOnSet(f, s \ {x}) \in Int
               /\ SumFunctionOnSet(f, s) = f[x] + SumFunctionOnSet(f, s \ {x})
    BY SumParts
  <1>g. ASSUME NEW s \in SUBSET S, NEW x \in s
        PROVE  /\ g[x] \in Int
               /\ SumFunctionOnSet(g, s \ {x}) \in Int
               /\ SumFunctionOnSet(g, s) = g[x] + SumFunctionOnSet(g, s \ {x})
    BY SumParts
  <1>1. n \in Nat
    BY FS_CardinalityType
  <1>2. Holds({})
    BY SumType
  <1>3. 0 \in P
    <2>1. ASSUME NEW s \in SUBSET S, Cardinality(s) <= 0
          PROVE  s = {}
      BY <2>1, PickedOut
    <2> HIDE DEF Holds
    <2> QED
      BY <1>1, <1>2, <2>1
  <1>4. ASSUME NEW k \in 0..(n - 1), k \in P
        PROVE  k + 1 \in P
    <2>1. ASSUME NEW s \in SUBSET S, Cardinality(s) <= k + 1, s # {}
          PROVE  Holds(s)
      <3> DEFINE x == Pick(s)
                 w == s \ {x}
      <3>1. x \in s /\ Cardinality(s) \in Nat
        BY <2>1, PickedOut
      <3>2. w \in SUBSET S /\ Cardinality(w) = Cardinality(s) - 1
        BY <3>1, PickedOut
      <3>3. Holds(w)
        <4>1. Cardinality(w) <= k
          BY <2>1, <3>1, <3>2, <1>1
        <4> HIDE DEF Holds, w
        <4> QED
          BY <1>4, <3>2, <4>1
      <3>4. /\ f[x] \in Int /\ SumFunctionOnSet(f, w) \in Int
            /\ SumFunctionOnSet(f, s) = f[x] + SumFunctionOnSet(f, w)
        BY <1>f, <3>1
      <3>5. /\ g[x] \in Int /\ SumFunctionOnSet(g, w) \in Int
            /\ SumFunctionOnSet(g, s) = g[x] + SumFunctionOnSet(g, w)
        BY <1>g, <3>1
      <3>6. f[x] <= g[x]
        BY <3>1 DEF Below
      <3> HIDE DEF w, x
      <3> QED
        BY <3>3, <3>4, <3>5, <3>6
    <2>2. k + 1 \in 0..n
      BY <1>1
    <2> HIDE DEF Holds
    <2> QED
      BY <1>2, <2>1, <2>2
  <1>5. n \in P
    <2> HIDE DEF P
    <2>1. 0..n \subseteq P
      BY <1>1, <1>3, <1>4, AllNumbers
    <2> QED
      BY <1>1, <2>1
  <1>6. S \in SUBSET S /\ Cardinality(S) <= n
    BY <1>1
  <1>7. Holds(S)
    <2> HIDE DEF Holds
    <2> QED
      BY <1>5, <1>6
  <1> QED
    BY <1>7

\* A multiple of every summand has that multiple of the sum.
LEMMA SumScaled ==
  ASSUME NEW S, IsFiniteSet(S), NEW f, NEW g, NEW c \in Int,
         Summable(f, S), Summable(g, S), Scaled(g, c, f, S)
  PROVE  SumFunctionOnSet(g, S) = c * SumFunctionOnSet(f, S)
  <1> DEFINE n == Cardinality(S)
             Holds(s) == SumFunctionOnSet(g, s) = c * SumFunctionOnSet(f, s)
             P == {k \in 0..n : \A s \in SUBSET S :
                                   Cardinality(s) <= k => Holds(s)}
  <1>f. ASSUME NEW s \in SUBSET S, NEW x \in s
        PROVE  /\ f[x] \in Int
               /\ SumFunctionOnSet(f, s \ {x}) \in Int
               /\ SumFunctionOnSet(f, s) = f[x] + SumFunctionOnSet(f, s \ {x})
    BY SumParts
  <1>g. ASSUME NEW s \in SUBSET S, NEW x \in s
        PROVE  /\ g[x] \in Int
               /\ SumFunctionOnSet(g, s \ {x}) \in Int
               /\ SumFunctionOnSet(g, s) = g[x] + SumFunctionOnSet(g, s \ {x})
    BY SumParts
  <1>1. n \in Nat
    BY FS_CardinalityType
  <1>2. Holds({})
    <2>1. SumFunctionOnSet(g, {}) = 0 /\ SumFunctionOnSet(f, {}) = 0
      BY SumType
    <2> QED
      BY <2>1
  <1>3. 0 \in P
    <2>1. ASSUME NEW s \in SUBSET S, Cardinality(s) <= 0
          PROVE  s = {}
      BY <2>1, PickedOut
    <2> HIDE DEF Holds
    <2> QED
      BY <1>1, <1>2, <2>1
  <1>4. ASSUME NEW k \in 0..(n - 1), k \in P
        PROVE  k + 1 \in P
    <2>1. ASSUME NEW s \in SUBSET S, Cardinality(s) <= k + 1, s # {}
          PROVE  Holds(s)
      <3> DEFINE x == Pick(s)
                 w == s \ {x}
      <3>1. x \in s /\ Cardinality(s) \in Nat
        BY <2>1, PickedOut
      <3>2. w \in SUBSET S /\ Cardinality(w) = Cardinality(s) - 1
        BY <3>1, PickedOut
      <3>3. Holds(w)
        <4>1. Cardinality(w) <= k
          BY <2>1, <3>1, <3>2, <1>1
        <4> HIDE DEF Holds, w
        <4> QED
          BY <1>4, <3>2, <4>1
      <3>4. /\ f[x] \in Int /\ SumFunctionOnSet(f, w) \in Int
            /\ SumFunctionOnSet(f, s) = f[x] + SumFunctionOnSet(f, w)
        BY <1>f, <3>1
      <3>5. /\ g[x] \in Int /\ SumFunctionOnSet(g, w) \in Int
            /\ SumFunctionOnSet(g, s) = g[x] + SumFunctionOnSet(g, w)
        BY <1>g, <3>1
      <3>6. g[x] = c * f[x]
        BY <3>1 DEF Scaled
      <3>7. ASSUME NEW a \in Int, NEW b \in Int
            PROVE  c * a + c * b = c * (a + b)
        OBVIOUS
      <3> HIDE DEF w, x
      <3>8. SumFunctionOnSet(g, s) = c * f[x] + c * SumFunctionOnSet(f, w)
        BY <3>3, <3>5, <3>6
      <3> QED
        BY <3>4, <3>7, <3>8
    <2>2. k + 1 \in 0..n
      BY <1>1
    <2> HIDE DEF Holds
    <2> QED
      BY <1>2, <2>1, <2>2
  <1>5. n \in P
    <2> HIDE DEF P
    <2>1. 0..n \subseteq P
      BY <1>1, <1>3, <1>4, AllNumbers
    <2> QED
      BY <1>1, <2>1
  <1>6. S \in SUBSET S /\ Cardinality(S) <= n
    BY <1>1
  <1>7. Holds(S)
    <2> HIDE DEF Holds
    <2> QED
      BY <1>5, <1>6
  <1> QED
    BY <1>7

\* An interval without its last number.
LEMMA ShorterInterval ==
  ASSUME NEW k \in Nat
  PROVE  (1..(k + 1)) \ {k + 1} = 1..k
  <1>1. ASSUME NEW x
        PROVE  x \in (1..(k + 1)) \ {k + 1} <=> x \in 1..k
    OBVIOUS
  <1> QED
    BY <1>1, Zenon

\* The differences between the numbers M[0], ..., M[n] add up to the one
\* between the last and the first.
LEMMA SumOfDifferences ==
  ASSUME NEW n \in Nat, NEW M \in [0..n -> Int], NEW F \in [1..n -> Int],
         \A i \in 1..n : F[i] = M[i] - M[i - 1]
  PROVE  SumFunction(F) = M[n] - M[0]
  <1> DEFINE sum(k) == SumFunctionOnSet(F, 1..k)
             P == {k \in 0..n : sum(k) = M[k] - M[0]}
  <1>1. ASSUME NEW k \in 0..n
        PROVE  IsFiniteSet(1..k) /\ Summable(F, 1..k)
    <2>1. IsFiniteSet(1..k)
      BY FS_Interval
    <2>2. \A i \in 1..k : i \in 1..n
      OBVIOUS
    <2> QED
      BY <2>1, <2>2 DEF Summable
  <1>2. 0 \in P
    <2>1. 1..0 = {}
      OBVIOUS
    <2>2. sum(0) = 0
      BY <1>1, <2>1, SumType
    <2>3. M[0] \in Int
      OBVIOUS
    <2> HIDE DEF sum
    <2> QED
      BY <2>2, <2>3
  <1>3. ASSUME NEW k \in 0..(n - 1), k \in P
        PROVE  k + 1 \in P
    <2>1. /\ k \in 0..n /\ k + 1 \in 1..(k + 1)
          /\ k + 1 \in 0..n /\ k + 1 \in 1..n
      OBVIOUS
    <2>2. (1..(k + 1)) \ {k + 1} = 1..k
      BY <2>1, ShorterInterval
    <2>3. sum(k + 1) = F[k + 1] + sum(k)
      <3>1. IsFiniteSet(1..(k + 1)) /\ Summable(F, 1..(k + 1))
        BY <1>1, <2>1
      <3>2. SumFunctionOnSet(F, 1..(k + 1))
              = F[k + 1] + SumFunctionOnSet(F, (1..(k + 1)) \ {k + 1})
        BY <2>1, <3>1, SumRemove
      <3> QED
        BY <2>2, <3>2
    <2>4. F[k + 1] = M[k + 1] - M[k]
      BY <2>1
    <2>5. M[k + 1] \in Int /\ M[k] \in Int /\ M[0] \in Int
      BY <2>1
    <2> HIDE DEF sum
    <2>6. sum(k + 1) = M[k + 1] - M[0]
      BY <1>3, <2>3, <2>4, <2>5
    <2> QED
      BY <2>1, <2>6
  <1>4. n \in P
    <2> HIDE DEF P
    <2>1. 0..n \subseteq P
      BY <1>2, <1>3, AllNumbers
    <2> QED
      BY <2>1
  <1>5. SumFunction(F) = sum(n)
    BY DEF SumFunction
  <1> QED
    BY <1>4, <1>5

=============================================================================
