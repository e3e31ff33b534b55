--------------------------- MODULE NaturalLemmas ---------------------------
(* Facts about numbers that the proofs share: division with remainder, and *)
(* the least element, which stands in for induction.                       *)
EXTENDS Integers, FiniteSets, FiniteSetTheorems, TLAPS

LEMMA DivMod ==
  ASSUME NEW n \in Nat \ {0}, NEW a \in Nat
  PROVE  a \div n \in Nat /\ a % n \in 0 .. n-1 /\ a = (a \div n) * n + (a % n)
  OBVIOUS

LEMMA IntDivMod ==
  ASSUME NEW m \in Nat \ {0}, NEW x \in Int
  PROVE  x \div m \in Int /\ x % m \in 0 .. m-1 /\ x = (x \div m) * m + (x % m)
  OBVIOUS

LEMMA MultipleMod ==
  ASSUME NEW n \in Nat \ {0}, NEW a \in Nat
  PROVE  (a * n) % n = 0
  OBVIOUS

\* A page, or an element, ends before the next one starts.
LEMMA PageAbove ==
  ASSUME NEW n \in Nat \ {0}, NEW p \in Nat, NEW q \in Nat, p < q
  PROVE  p * n + n <= q * n
  OBVIOUS

LEMMA PageOrder ==
  ASSUME NEW n \in Nat \ {0}, NEW p \in Nat, NEW q \in Nat, p * n < q * n
  PROVE  p < q
  OBVIOUS

\* The remainder is unique.
LEMMA SameRest ==
  ASSUME NEW m \in Nat \ {0}, NEW p \in Int, NEW q \in Int,
         NEW r \in 0 .. m-1, NEW s \in 0 .. m-1, q * m + r = p * m + s
  PROVE  r = s
<1> DEFINE a == q * m
           b == p * m
<1>1. a \in Int /\ b \in Int /\ (p < q => b + m <= a) /\ (q < p => a + m <= b) /\ (p = q => a = b)
  OBVIOUS
<1>2. a + r = b + s
  OBVIOUS
<1> HIDE DEF a, b
<1> QED
  BY <1>1, <1>2

\* Dividing twice is dividing by the product.
LEMMA NestedDiv ==
  ASSUME NEW p \in Nat \ {0}, NEW m \in Nat \ {0}, NEW x \in Nat
  PROVE  (x \div p) \div m = x \div (p * m)
<1> DEFINE q == x \div p
           r == x % p
           u == q \div m
           v == q % m
           s == v * p + r
<1>1. q \in Nat /\ r \in 0 .. p-1 /\ x = q * p + r
  BY DivMod
<1> HIDE DEF q, r
<1>2. u \in Nat /\ v \in 0 .. m-1 /\ q = u * m + v
  BY <1>1, DivMod
<1> HIDE DEF u, v
<1>3. p * m \in Nat \ {0} /\ s \in Nat
  BY <1>1, <1>2
<1>4. v * p + p <= m * p
  BY <1>2, PageAbove
<1>5. s < p * m
  BY <1>1, <1>2, <1>4
<1>6. x = u * (p * m) + s
  BY <1>1, <1>2
<1> HIDE DEF s
<1>7. ASSUME NEW k \in Nat \ {0}, NEW y \in Nat, NEW t \in Nat, t < k, x = y * k + t
      PROVE  x \div k = y
  <2> DEFINE y2 == x \div k
             t2 == x % k
  <2>1. y2 \in Nat /\ t2 \in 0 .. k-1 /\ x = y2 * k + t2
    BY <1>7, DivMod
  <2> HIDE DEF y2, t2
  <2>2. y < y2 => y * k + k <= y2 * k
    BY <1>7, <2>1, PageAbove
  <2>3. y2 < y => y2 * k + k <= y * k
    BY <1>7, <2>1, PageAbove
  <2>4. y * k \in Nat /\ y2 * k \in Nat
    BY <1>7, <2>1
  <2> DEFINE a == y * k
             b == y2 * k
  <2>5. a \in Nat /\ b \in Nat /\ x = a + t /\ x = b + t2 /\ (y < y2 => a + k <= b) /\ (y2 < y => b + k <= a)
    BY <1>7, <2>1, <2>2, <2>3, <2>4
  <2> HIDE DEF a, b
  <2>6. y = y2
    BY <1>7, <2>1, <2>5
  <2> QED
    BY <2>6 DEF y2
<1> QED
  BY <1>2, <1>3, <1>5, <1>6, <1>7 DEF u, q

(* The least of a set of numbers, from the minimum of a set of initial     *)
(* segments.                                                               *)
LEMMA LeastNatural ==
  ASSUME NEW S \in SUBSET Nat, S # {}
  PROVE  \E m \in S : \A k \in S : m <= k
<1> DEFINE T == {0..s : s \in S}
           R == StrictSubsetOrdering(Nat)
<1>1. T \subseteq FiniteSubsetsOf(Nat) /\ T # {}
  <2>1. \A s \in S : 0..s \subseteq Nat /\ IsFiniteSet(0..s)
    BY FS_Interval
  <2>2. \A s \in S : 0..s \in FiniteSubsetsOf(Nat)
    BY <2>1 DEF FiniteSubsetsOf
  <2> QED
    BY <2>2
<1>2. IsWellFoundedOn(R, FiniteSubsetsOf(Nat))
  BY FS_StrictSubsetOrderingWellFounded
<1>3. PICK x \in T : \A y \in T : ~ (<<y, x>> \in R)
  BY <1>1, <1>2, WFMin
<1>4. PICK m \in S : x = 0..m
  BY <1>3
<1>5. ASSUME NEW k \in S, k < m PROVE FALSE
  <2>1. 0..k \subseteq 0..m /\ m \in 0..m /\ m \notin 0..k
    BY <1>5
  <2>2. <<0..k, 0..m>> \in R
    BY <2>1 DEF StrictSubsetOrdering
  <2> QED
    BY <1>3, <1>4, <2>2
<1>6. \A k \in S : m <= k
  BY <1>5
<1> QED
  BY <1>6

\* Induction, for a set of numbers.
LEMMA SetInduction ==
  ASSUME NEW S, 0 \in S, \A n \in Nat : n \in S => n + 1 \in S
  PROVE  Nat \subseteq S
<1> DEFINE C == Nat \ S
<1> SUFFICES ASSUME C # {} PROVE FALSE
  OBVIOUS
<1>1. PICK m \in C : \A k \in C : m <= k
  BY LeastNatural
<1>2. m # 0 /\ m \in Nat
  BY <1>1
<1>3. m - 1 \in Nat /\ m - 1 \notin C
  BY <1>1, <1>2
<1>4. (m - 1) + 1 \in S
  BY <1>3
<1> QED
  BY <1>1, <1>2, <1>4

-----------------------------------------------------------------------------
(* Induction and recursion over the turns of a loop.                       *)

LEMMA UpInduction ==
  ASSUME NEW N \in Nat, NEW T, 0 \in T, \A i \in 1..N : i - 1 \in T => i \in T
  PROVE  0..N \subseteq T
<1> DEFINE S == {n \in Nat : n <= N => n \in T}
<1>1. 0 \in S
  OBVIOUS
<1>2. ASSUME NEW n \in Nat, n \in S PROVE n + 1 \in S
  <2>1. n + 1 <= N => n + 1 \in 1..N /\ (n + 1) - 1 = n
    OBVIOUS
  <2> QED
    BY <1>2, <2>1
<1> HIDE DEF S
<1>3. Nat \subseteq S
  BY <1>1, <1>2, SetInduction
<1> QED
  BY <1>3 DEF S

\* A loop with a value of S to start from and steps that stay in S.
LoopRun(N, a, G, w) == w = [i \in 0..N |-> IF i = 0 THEN a ELSE G[i][w[i-1]]]

LEMMA UpRecursion ==
  ASSUME NEW N \in Nat, NEW S, NEW a \in S, NEW G \in [1..N -> [S -> S]]
  PROVE  \E w \in [0..N -> S] : LoopRun(N, a, G, w)
<1> DEFINE Up(n, w) == /\ w \in [0..n -> S] /\ w[0] = a
                       /\ \A i \in 1..n : w[i] = G[i][w[i-1]]
           T == {n \in 0..N : \E w : Up(n, w)}
<1>1. 0 \in T
  <2>1. Up(0, [i \in 0..0 |-> a]) /\ 0 \in 0..N
    OBVIOUS
  <2> HIDE DEF Up
  <2> QED
    BY <2>1
<1>2. ASSUME NEW n \in 1..N, n - 1 \in T PROVE n \in T
  <2>1. PICK w : Up(n - 1, w)
    BY <1>2
  <2> DEFINE v == [i \in 0..n |-> IF i = n THEN G[n][w[n-1]] ELSE w[i]]
  <2>2. n - 1 \in 0..n-1 /\ w[n-1] \in S /\ G[n][w[n-1]] \in S
    BY <2>1
  <2>3. v \in [0..n -> S] /\ v[0] = a
    BY <2>1, <2>2
  <2>4. ASSUME NEW i \in 1..n PROVE v[i] = G[i][v[i-1]]
    <3>1. i - 1 \in 0..n /\ i - 1 # n /\ v[i-1] = w[i-1]
      OBVIOUS
    <3>2. i # n => i \in 1..n-1 /\ v[i] = w[i]
      OBVIOUS
    <3> QED
      BY <2>1, <3>1, <3>2
  <2> HIDE DEF v
  <2>5. Up(n, v)
    BY <2>3, <2>4
  <2>6. n \in 0..N
    OBVIOUS
  <2> HIDE DEF Up
  <2> QED
    BY <2>5, <2>6
<1>3. N \in T
  <2> HIDE DEF T
  <2>1. 0..N \subseteq T
    BY <1>1, <1>2, UpInduction
  <2> QED
    BY <2>1
<1>4. PICK w : Up(N, w)
  BY <1>3
<1>5. w = [i \in 0..N |-> w[i]]
  BY <1>4
<1>6. \A i \in 0..N : w[i] = IF i = 0 THEN a ELSE G[i][w[i-1]]
  BY <1>4
<1>7. LoopRun(N, a, G, w)
  BY <1>5, <1>6 DEF LoopRun
<1> QED
  BY <1>4, <1>7
=============================================================================
