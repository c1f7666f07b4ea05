----------------------------- MODULE SumsProofs -----------------------------
(***************************************************************************)
(* What an update of a function does to the sum of its values.  Induction  *)
(* is over the elements of a set, so that no step has to instantiate a     *)
(* predicate: it follows from the well-foundedness of < on the naturals.   *)
(***************************************************************************)
EXTENDS Sums, WellFoundedInduction, TLAPS

\* Every non-empty set of naturals has a smallest element.
LEMMA LeastNatural ==
    ASSUME NEW T \in SUBSET Nat, T # {}
    PROVE  \E x \in T : \A y \in T : x <= y
<1>1. \E x \in T : \A y \in T : ~(<<y, x>> \in OpToRel(<, Nat))
  BY NatLessThanWellFounded, WFMin, Zenon
<1>2. \A x, y \in T : ~(<<y, x>> \in OpToRel(<, Nat)) => x <= y
  BY DEF OpToRel
<1> QED
  BY <1>1, <1>2, Zenon

\* A set of naturals that has a bound has a largest element.
LEMMA GreatestNatural ==
    ASSUME NEW n \in Nat, NEW T \in SUBSET (1..n), T # {}
    PROVE  \E x \in T : \A y \in T : y <= x
<1> DEFINE R == {n - i : i \in T}
<1>1. R \in SUBSET Nat
  OBVIOUS
<1>2. \A i \in T : n - i \in R
  OBVIOUS
<1>3. \A r \in R : \E i \in T : r = n - i
  OBVIOUS
<1> HIDE DEF R
<1>4. PICK r \in R : \A y \in R : r <= y
  BY <1>1, <1>2, LeastNatural
<1>5. PICK i \in T : r = n - i
  BY <1>3, <1>4
<1>6. \A y \in T : y <= i
  BY <1>2, <1>4, <1>5
<1> QED
  BY <1>6

\* A set that holds 0 and, up to n, the successor of each of its elements, holds
\* all of 0 .. n.
LEMMA SetInduction ==
    ASSUME NEW n \in Nat, NEW S, 0 \in S, \A k \in 1..n : k-1 \in S => k \in S
    PROVE  \A m \in 0..n : m \in S
<1> DEFINE Bad == {m \in 0..n : m \notin S}
<1>1. Bad \in SUBSET Nat
  OBVIOUS
<1>2. \A m \in 0..n : m \notin S <=> m \in Bad
  OBVIOUS
<1>3. \A m \in Bad : m \in 0..n
  OBVIOUS
<1> HIDE DEF Bad
<1>4. ASSUME Bad # {} PROVE FALSE
  <2>1. PICK m \in Bad : \A y \in Bad : m <= y
    BY <1>1, <1>4, LeastNatural
  <2>2. m \in 1..n /\ m-1 \in 0..n
    BY <1>2, <1>3, <2>1
  <2>3. m-1 \notin Bad
    BY <2>1, <2>2
  <2> QED
    BY <1>2, <1>3, <2>2, <2>3
<1> QED
  BY <1>2, <1>4

\* p holds the partial sums of f up to n.
Accumulates(p, f, n) ==
    /\ p \in [0..n -> Int]
    /\ p[0] = 0
    /\ \A k \in 1..n : p[k] = p[k-1] + f[k]

\* Partial sums up to m - 1 extend to partial sums up to m.
LEMMA AccumulateOneMore ==
    ASSUME NEW n \in Nat, NEW f \in [1..n -> Int], NEW m \in 1..n,
           NEW p, Accumulates(p, f, m - 1)
    PROVE  \E q : Accumulates(q, f, m)
<1> DEFINE q == [k \in 0..m |-> IF k = m THEN p[m-1] + f[m] ELSE p[k]]
<1>1. /\ \A k \in 0..m-1 : p[k] \in Int
      /\ p[0] = 0
      /\ \A k \in 1..m-1 : p[k] = p[k-1] + f[k]
  BY DEF Accumulates
<1>2. q \in [0..m -> Int] /\ q[0] = 0
  BY <1>1
<1>3. ASSUME NEW k \in 1..m PROVE q[k] = q[k-1] + f[k]
  <2>1. q[k-1] = p[k-1]
    OBVIOUS
  <2>2. CASE k = m
    BY <2>1, <2>2
  <2>3. CASE k # m
    BY <1>1, <2>1, <2>3
  <2> QED
    BY <2>2, <2>3
<1>4. Accumulates(q, f, m)
  BY <1>2, <1>3, Zenon DEF Accumulates
<1> QED
  BY <1>4

\* Partial sums exist.
LEMMA PartialSumsExist ==
    ASSUME NEW n \in Nat, NEW f \in [1..n -> Int]
    PROVE  \E p : Accumulates(p, f, n)
<1> DEFINE S == {m \in 0..n : \E p : Accumulates(p, f, m)}
<1>1. \A m \in 0..n : m \in S <=> \E p : Accumulates(p, f, m)
  OBVIOUS
<1> HIDE DEF S
<1>2. 0 \in S
  <2>1. Accumulates([k \in 0..0 |-> 0], f, 0)
    BY DEF Accumulates
  <2> QED
    BY <1>1, <2>1
<1>3. \A k \in 1..n : k-1 \in S => k \in S
  BY <1>1, AccumulateOneMore
<1>4. \A m \in 0..n : m \in S
  BY <1>2, <1>3, SetInduction, Zenon
<1>5. n \in 0..n
  OBVIOUS
<1> QED
  BY <1>1, <1>4, <1>5

\* Partial sums are unique.
LEMMA PartialSumsUnique ==
    ASSUME NEW n \in Nat, NEW f \in [1..n -> Int], NEW p, NEW q,
           Accumulates(p, f, n), Accumulates(q, f, n)
    PROVE  p = q
<1> DEFINE S == {m \in 0..n : p[m] = q[m]}
<1>1. 0 \in S
  BY DEF Accumulates
<1>2. \A k \in 1..n : k-1 \in S => k \in S
  BY DEF Accumulates
<1>3. \A m \in 0..n : m \in S
  <2> HIDE DEF S
  <2> QED
    BY <1>1, <1>2, SetInduction, Zenon
<1>4. \A m \in 0..n : p[m] = q[m]
  BY <1>3
<1> QED
  BY <1>4 DEF Accumulates

\* The recursive definition of PartialSums does define the partial sums.
LEMMA PartialSumsAccumulate ==
    ASSUME NEW n \in Nat, NEW f \in [1..n -> Int]
    PROVE  Accumulates(PartialSums(f, n), f, n)
<1> DEFINE Rec(s) == s = [k \in 0..n |-> IF k = 0 THEN 0 ELSE s[k-1] + f[k]]
<1>1. PICK p : Accumulates(p, f, n)
  BY PartialSumsExist
<1>2. Rec(p)
  BY <1>1 DEF Accumulates
<1>3. PartialSums(f, n) = CHOOSE s : Rec(s)
  BY DEF PartialSums
<1>4. Rec(PartialSums(f, n))
  <2> HIDE DEF Rec
  <2> QED
    BY <1>2, <1>3
<1> DEFINE s == PartialSums(f, n)
<1>5. s = [k \in 0..n |-> IF k = 0 THEN 0 ELSE s[k-1] + f[k]]
  BY <1>4, Zenon
<1> HIDE DEF s
<1>6. s[0] = 0 /\ \A k \in 1..n : s[k] = s[k-1] + f[k]
  BY <1>5
<1> DEFINE S == {m \in 0..n : s[m] \in Int}
<1>7. 0 \in S
  BY <1>6
<1>8. \A k \in 1..n : k-1 \in S => k \in S
  BY <1>6
<1>9. \A m \in 0..n : m \in S
  <2> HIDE DEF S
  <2> QED
    BY <1>7, <1>8, SetInduction, Zenon
<1>10. s \in [0..n -> Int]
  BY <1>5, <1>9
<1> QED
  BY <1>6, <1>10 DEF Accumulates, s

\* A sum of integers is an integer.
LEMMA TotalType ==
    ASSUME NEW n \in Nat, NEW f \in [1..n -> Int]
    PROVE  Total(f, n) \in Int
BY PartialSumsAccumulate DEF Accumulates, Total

\* The sum of zeros is zero.
LEMMA TotalZero ==
    ASSUME NEW n \in Nat, NEW f \in [1..n -> Int], \A k \in 1..n : f[k] = 0
    PROVE  Total(f, n) = 0
<1> DEFINE p == [k \in 0..n |-> 0]
<1>1. Accumulates(p, f, n)
  BY DEF Accumulates
<1>2. p = PartialSums(f, n)
  <2> HIDE DEF p
  <2> QED
    BY <1>1, PartialSumsAccumulate, PartialSumsUnique
<1>3. p[n] = 0
  OBVIOUS
<1> QED
  BY <1>2, <1>3 DEF Total

\* Changing one value changes the sum by the difference.
LEMMA TotalUpdate ==
    ASSUME NEW n \in Nat, NEW f \in [1..n -> Int], NEW g \in [1..n -> Int],
           NEW j \in 1..n, \A k \in 1..n : k # j => g[k] = f[k]
    PROVE  Total(g, n) = Total(f, n) + g[j] - f[j]
<1> DEFINE p == PartialSums(f, n)
<1>1. Accumulates(p, f, n)
  BY PartialSumsAccumulate
<1> HIDE DEF p
<1> DEFINE q == [k \in 0..n |-> IF k < j THEN p[k] ELSE p[k] + (g[j] - f[j])]
<1>2. q \in [0..n -> Int] /\ q[0] = 0
  <2>1. g[j] - f[j] \in Int /\ \A k \in 0..n : p[k] \in Int
    BY <1>1 DEF Accumulates
  <2>2. p[0] = 0 /\ 0 \in 0..n /\ 0 < j
    BY <1>1 DEF Accumulates
  <2> QED
    BY <2>1, <2>2
<1>3. ASSUME NEW k \in 1..n PROVE q[k] = q[k-1] + g[k]
  <2>1. /\ p[k] = p[k-1] + f[k] /\ p[k] \in Int /\ p[k-1] \in Int
        /\ k \in 0..n /\ k-1 \in 0..n
    BY <1>1 DEF Accumulates
  <2>2. CASE k < j
    BY <2>1, <2>2
  <2>3. CASE k = j
    BY <2>1, <2>3
  <2>4. CASE k > j
    BY <2>1, <2>4
  <2> QED
    BY <2>2, <2>3, <2>4
<1>4. Accumulates(q, g, n)
  BY <1>2, <1>3, Zenon DEF Accumulates
<1>5. q[n] = p[n] + (g[j] - f[j]) /\ p[n] \in Int
  BY <1>1 DEF Accumulates
<1>6. q = PartialSums(g, n)
  <2> HIDE DEF q
  <2> QED
    BY <1>4, PartialSumsAccumulate, PartialSumsUnique
<1> QED
  BY <1>5, <1>6 DEF Total, p

\* A sum of naturals is a natural.
LEMMA TotalNonNegative ==
    ASSUME NEW n \in Nat, NEW f \in [1..n -> Nat]
    PROVE  Total(f, n) \in Nat
<1> DEFINE p == PartialSums(f, n)
<1>1. Accumulates(p, f, n)
  BY PartialSumsAccumulate
<1> HIDE DEF p
<1> DEFINE S == {m \in 0..n : p[m] \in Nat}
<1>2. 0 \in S
  BY <1>1 DEF Accumulates
<1>3. \A k \in 1..n : k-1 \in S => k \in S
  BY <1>1 DEF Accumulates
<1>4. \A m \in 0..n : m \in S
  <2> HIDE DEF S
  <2> QED
    BY <1>2, <1>3, SetInduction, Zenon
<1> QED
  BY <1>4 DEF Total, p

\* A longer list adds its last value to the sum.
LEMMA TotalAppend ==
    ASSUME NEW n \in Nat, NEW f \in [1..n -> Int], NEW g \in [1..(n+1) -> Int],
           \A k \in 1..n : g[k] = f[k]
    PROVE  Total(g, n + 1) = Total(f, n) + g[n+1]
<1> DEFINE p == PartialSums(g, n + 1)
           q == [k \in 0..n |-> p[k]]
<1>1. Accumulates(p, g, n + 1)
  BY PartialSumsAccumulate
<1> HIDE DEF p
<1>2. Accumulates(q, f, n)
  <2>1. q \in [0..n -> Int] /\ q[0] = 0
    BY <1>1 DEF Accumulates
  <2>2. ASSUME NEW k \in 1..n PROVE q[k] = q[k-1] + f[k]
    <3>1. k \in 1..(n+1) /\ k \in 0..n /\ k-1 \in 0..n
      OBVIOUS
    <3>2. p[k] = p[k-1] + g[k]
      BY <1>1, <3>1 DEF Accumulates
    <3> QED
      BY <3>1, <3>2
  <2> QED
    BY <2>1, <2>2, Zenon DEF Accumulates
<1>3. q[n] = p[n]
  OBVIOUS
<1> HIDE DEF q
<1>4. q = PartialSums(f, n)
  BY <1>2, PartialSumsAccumulate, PartialSumsUnique
<1>5. p[n+1] = p[n] + g[n+1]
  <2>1. n + 1 \in 1..(n+1) /\ (n + 1) - 1 = n
    OBVIOUS
  <2> QED
    BY <1>1, <2>1 DEF Accumulates
<1> QED
  BY <1>3, <1>4, <1>5 DEF Total, p

\* Larger values have a larger sum.
LEMMA TotalMonotone ==
    ASSUME NEW n \in Nat, NEW f \in [1..n -> Int], NEW g \in [1..n -> Int],
           \A k \in 1..n : f[k] <= g[k]
    PROVE  Total(f, n) <= Total(g, n)
<1> DEFINE p == PartialSums(f, n)
           q == PartialSums(g, n)
<1>1. Accumulates(p, f, n) /\ Accumulates(q, g, n)
  BY PartialSumsAccumulate
<1> HIDE DEF p, q
<1> DEFINE S == {m \in 0..n : p[m] <= q[m]}
<1>2. 0 \in S
  BY <1>1 DEF Accumulates
<1>3. ASSUME NEW k \in 1..n, k-1 \in S PROVE k \in S
  <2>1. /\ p[k] = p[k-1] + f[k] /\ q[k] = q[k-1] + g[k]
        /\ p[k-1] \in Int /\ q[k-1] \in Int /\ f[k] \in Int /\ g[k] \in Int
    BY <1>1 DEF Accumulates
  <2>2. p[k-1] <= q[k-1] /\ f[k] <= g[k]
    BY <1>3
  <2> QED
    BY <2>1, <2>2
<1>4. \A m \in 0..n : m \in S
  <2> HIDE DEF S
  <2> QED
    BY <1>2, <1>3, SetInduction, Zenon
<1>5. p[n] <= q[n]
  BY <1>4
<1> QED
  BY <1>5 DEF Total, p, q

\* Leading zeros may be left out of a sum.
LEMMA TotalSuffix ==
    ASSUME NEW n \in Nat, NEW f \in [1..n -> Int], NEW k \in 0..n, NEW g \in [1..(n-k) -> Int],
           \A i \in 1..k : f[i] = 0, \A i \in 1..(n-k) : g[i] = f[k+i]
    PROVE  Total(g, n - k) = Total(f, n)
<1> DEFINE p == PartialSums(f, n)
           q == [i \in 0..(n-k) |-> p[k+i]]
<1>1. Accumulates(p, f, n)
  BY PartialSumsAccumulate
<1> HIDE DEF p
<1>2. p[k] = 0
  <2> DEFINE S == {m \in 0..k : p[m] = 0}
  <2>1. 0 \in S
    BY <1>1 DEF Accumulates
  <2>2. ASSUME NEW i \in 1..k, i-1 \in S PROVE i \in S
    BY <1>1, <2>2 DEF Accumulates
  <2>3. k \in Nat /\ \A i \in 1..k : i-1 \in S => i \in S
    BY <2>2
  <2>4. \A m \in 0..k : m \in S
    <3> HIDE DEF S
    <3> QED
      BY <2>1, <2>3, SetInduction, Zenon
  <2> QED
    BY <2>4
<1>3. Accumulates(q, g, n - k)
  <2>1. q \in [0..(n-k) -> Int] /\ q[0] = 0
    BY <1>1, <1>2 DEF Accumulates
  <2>2. ASSUME NEW i \in 1..(n-k) PROVE q[i] = q[i-1] + g[i]
    <3>1. k + i \in 1..n /\ (k + i) - 1 = k + (i-1) /\ i \in 0..(n-k) /\ i-1 \in 0..(n-k)
      OBVIOUS
    <3>2. p[k+i] = p[k+(i-1)] + f[k+i]
      BY <1>1, <3>1 DEF Accumulates
    <3> QED
      BY <3>1, <3>2
  <2> QED
    BY <2>1, <2>2, Zenon DEF Accumulates
<1>4. n - k \in Nat /\ n - k \in 0..(n-k) /\ k + (n - k) = n
  OBVIOUS
<1>5. q[n-k] = p[n]
  BY <1>4
<1> HIDE DEF q
<1>6. q = PartialSums(g, n - k)
  BY <1>3, <1>4, PartialSumsAccumulate, PartialSumsUnique
<1> QED
  BY <1>5, <1>6 DEF Total, p
=============================================================================
