--------------------------- MODULE TrackerProofs ----------------------------
(***************************************************************************)
(* Proofs about the spend tracker and the risk score, for every lookback,  *)
(* cost and exposure, and any number of requests that record and of costs  *)
(* recorded.                                                               *)
(***************************************************************************)
EXTENDS Tracker, SumsProofs, TLAPS

\* The provers' limits are wall-clock time: a minute instead of the default five
\* seconds, so that a loaded machine does not decide what is proved.
USE SMTT(60), ZenonT(60)

\* The smallest element of a set of naturals.
LEMMA MinOfNaturals ==
    ASSUME NEW S \in SUBSET Nat, S # {}
    PROVE  Min(S) \in S /\ \A y \in S : Min(S) <= y
BY LeastNatural, Zenon DEF Min

\* The smaller and the larger of two numbers.
LEMMA MinMaxOfTwo ==
    ASSUME NEW a \in Int, NEW b \in Int
    PROVE  /\ Min({a, b}) = IF a <= b THEN a ELSE b
           /\ Max({a, b}) = IF a <= b THEN b ELSE a
<1>1. ASSUME NEW m \in Int, m \in {a, b}, m <= a, m <= b PROVE Min({a, b}) = m
  BY <1>1 DEF Min
<1>2. ASSUME NEW m \in Int, m \in {a, b}, m >= a, m >= b PROVE Max({a, b}) = m
  BY <1>2 DEF Max
<1> QED
  BY <1>1, <1>2

\* Dividing a natural number by a positive one gives a natural number, and no more
\* than the bound its multiple gives.
LEMMA Quotient ==
    ASSUME NEW n \in Nat, NEW d \in Nat \ {0}
    PROVE  /\ n \div d \in Nat
           /\ \A c \in Nat : n <= c * d => n \div d <= c
OBVIOUS

\* The values of clamp01, in hundredths of a percent.
Percents == {n \in Nat : n <= 10000}

\* clamp01 clamps.
LEMMA ClampRange ==
    ASSUME NEW n \in Int, NEW d \in Nat \ {0}
    PROVE  Clamp01(n, d) \in Percents
<1>1. CASE n <= 0 \/ n >= d
  BY <1>1 DEF Clamp01, Percents
<1>2. CASE n > 0 /\ n < d
  <2>1. 10000 * n \in Nat /\ 10000 * n <= 10000 * d
    BY <1>2
  <2>2. (10000 * n) \div d \in Nat /\ (10000 * n) \div d <= 10000
    BY <2>1, Quotient
  <2> QED
    BY <1>2, <2>2 DEF Clamp01, Percents
<1> QED
  BY <1>1, <1>2

\* The weighted score of an evaluation that sees no velocity and no acceleration lets
\* the request pass; a score that blocks needs the budget all but committed.
LEMMA Weights ==
    ASSUME NEW x, BudgetSub(x) \in Percents, NEW v \in Percents, NEW a \in Percents
    PROVE  /\ Verdict(Score(x, v, a)) \in {"allow", "throttle", "block"}
           /\ v = 0 /\ a = 0 => Verdict(Score(x, v, a)) = "allow"
           /\ Verdict(Score(x, v, a)) = "block" => BudgetSub(x) >= 9900
<1>1. ConcurrencySub = 200
  BY DEF ConcurrencySub, Clamp01
<1> DEFINE b == BudgetSub(x)
           score == (30 * b + 40 * v + 20 * a + 10 * 200) \div 10000
<1>2. b \in Nat /\ v \in Nat /\ a \in Nat /\ b <= 10000 /\ v <= 10000 /\ a <= 10000
  BY DEF Percents
<1> HIDE DEF b
<1>3. /\ score \in Int
      /\ v = 0 /\ a = 0 => score < 70
      /\ score >= 90 => b >= 9900
  BY <1>2
<1> HIDE DEF score
<1>4. /\ Verdict(score) \in {"allow", "throttle", "block"}
      /\ v = 0 /\ a = 0 => Verdict(score) = "allow"
      /\ Verdict(score) = "block" => b >= 9900
  BY <1>3 DEF Verdict
<1>5. Score(x, v, a) = score
  BY <1>1 DEF Score, score, b
<1> QED
  BY <1>4, <1>5 DEF b
-----------------------------------------------------------------------------
\* What evictLocked leaves: it drops the first d samples, all of them too old, and the
\* next one, if any, is young enough.
LEMMA EvictedShape ==
    ASSUME NEW w \in Windows, windows[w] \in Seq(Samples)
    PROVE  \E d \in 0..Len(windows[w]) :
              /\ Evicted(w) \in Seq(Samples) /\ Len(Evicted(w)) = Len(windows[w]) - d
              /\ \A i \in 1..(Len(windows[w]) - d) : Evicted(w)[i] = windows[w][d+i]
              /\ \A i \in 1..d : ~(windows[w][i].age <= Lookback[w])
              /\ d < Len(windows[w]) => windows[w][d+1].age <= Lookback[w]
<1> DEFINE W == windows[w]
           n == Len(W)
           fresh == {i \in DOMAIN W : W[i].age <= Lookback[w]}
<1>1. n \in Nat /\ DOMAIN W = 1..n
  OBVIOUS
<1>2. Evicted(w) = IF fresh = {} THEN <<>> ELSE SubSeq(W, Min(fresh), n)
  BY DEF Evicted
<1>3. CASE fresh = {}
  <2>1. Evicted(w) = <<>> /\ n \in 0..n /\ n - n = 0 /\ \A i \in 1..n : ~(W[i].age <= Lookback[w])
    BY <1>1, <1>2, <1>3
  <2> QED
    BY <1>1, <2>1
<1>4. CASE fresh # {}
  <2> DEFINE m == Min(fresh)
  <2>1. fresh \in SUBSET Nat
    BY <1>1
  <2>2. m \in fresh /\ \A y \in fresh : m <= y
    BY <1>4, <2>1, MinOfNaturals, Zenon
  <2>3. m \in 1..n /\ W[m].age <= Lookback[w] /\ \A i \in 1..n : W[i].age <= Lookback[w] => m <= i
    BY <1>1, <2>2
  <2>4. Evicted(w) = SubSeq(W, m, n)
    BY <1>2, <1>4, Zenon
  <2> HIDE DEF m, fresh
  <2> DEFINE d == m - 1
  <2>5. d \in 0..n /\ d + 1 = m /\ d < n /\ n - d = n - m + 1
    BY <1>1, <2>3
  <2>6. /\ SubSeq(W, m, n) \in Seq(Samples)
        /\ Len(SubSeq(W, m, n)) = n - m + 1
        /\ \A i \in 1..(n - m + 1) : SubSeq(W, m, n)[i] = W[m + i - 1]
    BY <1>1, <2>3
  <2>7. \A i \in 1..(n - m + 1) : m + i - 1 = d + i
    BY <1>1, <2>3
  <2>8. \A i \in 1..d : ~(W[i].age <= Lookback[w])
    BY <1>1, <2>3
  <2> HIDE DEF d, n
  <2>9. /\ Evicted(w) \in Seq(Samples) /\ Len(Evicted(w)) = n - d
        /\ \A i \in 1..(n - d) : Evicted(w)[i] = W[d+i]
    BY <2>4, <2>5, <2>6, <2>7
  <2> QED
    BY <2>3, <2>5, <2>8, <2>9, Zenon DEF n
<1> QED
  BY <1>3, <1>4
-----------------------------------------------------------------------------
\* The history of a window: the samples it was given, Spent beyond its lookback.
Histories(w) == Seq(Samples \cup {Spent(w)})

\* What window w holds, W, against what it was given, G: the samples it has dropped
\* are Spent, those it still holds are in the history unless they are too old, and it
\* holds them oldest first, so that evictLocked may stop at the first young one.
Aligned(W, G, w) ==
    /\ W \in Seq(Samples) /\ G \in Histories(w)
    /\ Len(W) <= Len(G)
    /\ \A i \in 1..(Len(G) - Len(W)) : G[i] = Spent(w)
    /\ \A i \in 1..Len(W) : G[Len(G) - Len(W) + i] = IF W[i].age <= Lookback[w] THEN W[i] ELSE Spent(w)
    /\ \A i, j \in 1..Len(W) : i < j => W[j].age <= W[i].age

\* The lookbacks are positive.
LEMMA LookbackType == \A w \in Windows : Lookback[w] \in Nat /\ Lookback[w] > 0
BY TrackerAssumptions

\* An entry of a history.
LEMMA HistoryEntry ==
    ASSUME NEW w \in Windows, NEW e \in Samples \cup {Spent(w)}
    PROVE  e.age \in Nat /\ e.cost \in Nat /\ e.cost \in Costs \cup {0}
<1>1. CASE e \in Samples
  BY <1>1, TrackerAssumptions, Zenon DEF Samples
<1>2. CASE e = Spent(w)
  BY <1>2, LookbackType DEF Spent
<1> QED
  BY <1>1, <1>2

\* Lengths and entries of an aligned window and its history.
LEMMA AlignedType ==
    ASSUME NEW w \in Windows, NEW W, NEW G, Aligned(W, G, w)
    PROVE  /\ Len(W) \in Nat /\ Len(G) \in Nat /\ Len(G) - Len(W) \in Nat
           /\ DOMAIN W = 1..Len(W) /\ DOMAIN G = 1..Len(G)
           /\ \A i \in 1..Len(W) : W[i] \in Samples /\ W[i].age \in Nat /\ W[i].cost \in Nat
           /\ \A i \in 1..Len(G) : G[i] \in Samples \cup {Spent(w)}
<1>1. W \in Seq(Samples) /\ G \in Seq(Samples \cup {Spent(w)}) /\ Len(W) <= Len(G)
  BY DEF Aligned, Histories
<1>2. Len(W) \in Nat /\ Len(G) \in Nat /\ DOMAIN W = 1..Len(W) /\ DOMAIN G = 1..Len(G)
  BY <1>1
<1>3. \A i \in 1..Len(W) : W[i] \in Samples
  BY <1>1, <1>2
<1>4. \A i \in 1..Len(G) : G[i] \in Samples \cup {Spent(w)}
  BY <1>1, <1>2
<1>5. \A s \in Samples : s.age \in Nat /\ s.cost \in Nat
  BY TrackerAssumptions, Zenon DEF Samples
<1>6. Len(G) - Len(W) \in Nat
  BY <1>1, <1>2
<1> QED
  BY <1>2, <1>3, <1>4, <1>5, <1>6

\* Eviction keeps a window aligned with its history ...
LEMMA AlignedEvict ==
    ASSUME NEW w \in Windows, NEW G, Aligned(windows[w], G, w)
    PROVE  /\ Aligned(Evicted(w), G, w)
           /\ \A i \in 1..Len(Evicted(w)) : Evicted(w)[i].age <= Lookback[w]
<1> DEFINE W == windows[w]
           V == Evicted(w)
           n == Len(W)
           g == Len(G)
<1>1. W \in Seq(Samples)
  BY DEF Aligned
<1>2. PICK d \in 0..n :
          /\ V \in Seq(Samples) /\ Len(V) = n - d
          /\ \A i \in 1..(n - d) : V[i] = W[d+i]
          /\ \A i \in 1..d : ~(W[i].age <= Lookback[w])
          /\ d < n => W[d+1].age <= Lookback[w]
  BY <1>1, EvictedShape
<1>3. /\ n \in Nat /\ g \in Nat /\ n <= g /\ G \in Histories(w)
      /\ \A i \in 1..n : W[i].age \in Nat
      /\ \A i \in 1..(g - n) : G[i] = Spent(w)
      /\ \A i \in 1..n : G[(g - n) + i] = IF W[i].age <= Lookback[w] THEN W[i] ELSE Spent(w)
      /\ \A i, j \in 1..n : i < j => W[j].age <= W[i].age
  BY AlignedType, Zenon DEF Aligned
<1>4. Lookback[w] \in Nat
  BY LookbackType
<1>5. Len(V) = n - d /\ Len(V) \in Nat /\ Len(V) <= g /\ g - Len(V) = (g - n) + d /\ V \in Seq(Samples)
  BY <1>2, <1>3
<1> HIDE DEF W, V, n, g
<1>6. ASSUME NEW i \in 1..(n - d) PROVE W[d+i].age <= Lookback[w]
  <2>1. d < n /\ d + 1 \in 1..n /\ d + i \in 1..n /\ (i = 1 \/ d + 1 < d + i)
    BY <1>2, <1>3
  <2>2. W[d+1].age <= Lookback[w] /\ W[d+1].age \in Nat /\ W[d+i].age \in Nat
    BY <1>2, <1>3, <2>1
  <2>3. CASE i = 1
    BY <2>2, <2>3
  <2>4. CASE d + 1 < d + i
    <3>1. W[d+i].age <= W[d+1].age
      BY <1>3, <2>1, <2>4
    <3> QED
      BY <1>4, <2>2, <3>1
  <2> QED
    BY <2>1, <2>3, <2>4
<1>7. ASSUME NEW i \in 1..((g - n) + d) PROVE G[i] = Spent(w)
  <2>1. CASE i \in 1..(g - n)
    BY <1>3, <2>1
  <2>2. CASE i \notin 1..(g - n)
    <3> DEFINE k == i - (g - n)
    <3>1. k \in 1..d /\ k \in 1..n /\ (g - n) + k = i
      BY <1>2, <1>3, <2>2
    <3> HIDE DEF k
    <3>2. ~(W[k].age <= Lookback[w])
      BY <1>2, <3>1
    <3>3. G[(g - n) + k] = Spent(w)
      BY <1>3, <3>1, <3>2
    <3> QED
      BY <3>1, <3>3
  <2> QED
    BY <2>1, <2>2
<1>8. ASSUME NEW i \in 1..(n - d)
      PROVE  V[i].age <= Lookback[w] /\ G[((g - n) + d) + i] = V[i]
  <2>1. V[i] = W[d+i] /\ W[d+i].age <= Lookback[w] /\ d + i \in 1..n /\ (g - n) + (d + i) = ((g - n) + d) + i
    BY <1>2, <1>3, <1>6
  <2>2. G[(g - n) + (d + i)] = W[d+i]
    BY <1>3, <2>1
  <2> QED
    BY <2>1, <2>2
<1>9. ASSUME NEW i \in 1..(n - d), NEW j \in 1..(n - d), i < j PROVE V[j].age <= V[i].age
  <2>1. d + i \in 1..n /\ d + j \in 1..n /\ d + i < d + j
    BY <1>3, <1>9
  <2>2. V[i] = W[d+i] /\ V[j] = W[d+j]
    BY <1>2
  <2> QED
    BY <1>3, <2>1, <2>2
<1>10. Aligned(V, G, w)
  BY <1>3, <1>5, <1>7, <1>8, <1>9 DEF Aligned, g
<1> QED
  BY <1>5, <1>8, <1>10 DEF V

\* ... a sample that is recorded is the youngest ...
LEMMA AlignedAppend ==
    ASSUME NEW w \in Windows, NEW W, NEW G, Aligned(W, G, w), NEW c \in Costs
    PROVE  LET s == [age |-> 0, cost |-> c] IN Aligned(Append(W, s), Append(G, s), w)
<1> DEFINE s == [age |-> 0, cost |-> c]
           V == Append(W, s)
           H == Append(G, s)
           n == Len(W)
           g == Len(G)
<1>1. s \in Samples /\ s.age = 0
  BY DEF Samples
<1>2. /\ n \in Nat /\ g \in Nat /\ n <= g /\ g - n \in Nat
      /\ \A i \in 1..n : W[i].age \in Nat
      /\ \A i \in 1..(g - n) : G[i] = Spent(w)
      /\ \A i \in 1..n : G[(g - n) + i] = IF W[i].age <= Lookback[w] THEN W[i] ELSE Spent(w)
      /\ \A i, j \in 1..n : i < j => W[j].age <= W[i].age
  BY AlignedType, Zenon DEF Aligned
<1>3. W \in Seq(Samples) /\ G \in Seq(Samples \cup {Spent(w)})
  BY DEF Aligned, Histories
<1> HIDE DEF s
<1>4. /\ V \in Seq(Samples) /\ Len(V) = n + 1 /\ V[n+1] = s /\ \A i \in 1..n : V[i] = W[i]
  BY <1>1, <1>3
<1>5. /\ H \in Seq(Samples \cup {Spent(w)}) /\ Len(H) = g + 1 /\ H[g+1] = s /\ \A i \in 1..g : H[i] = G[i]
  BY <1>1, <1>3
<1>6. Lookback[w] \in Nat
  BY LookbackType
<1> HIDE DEF V, H, n, g
<1>7. Len(H) - Len(V) = g - n /\ Len(V) <= Len(H) /\ \A i \in 1..(g - n) : i \in 1..g
  BY <1>2, <1>4, <1>5
<1>8. \A i \in 1..(g - n) : H[i] = Spent(w)
  BY <1>2, <1>5, <1>7
<1>9. ASSUME NEW i \in 1..(n+1)
      PROVE  H[(g - n) + i] = IF V[i].age <= Lookback[w] THEN V[i] ELSE Spent(w)
  <2>1. CASE i = n + 1
    <3>1. (g - n) + i = g + 1
      BY <1>2, <2>1
    <3> QED
      BY <1>1, <1>4, <1>5, <1>6, <2>1, <3>1
  <2>2. CASE i \in 1..n
    <3>1. (g - n) + i \in 1..g
      BY <1>2, <2>2
    <3> QED
      BY <1>2, <1>4, <1>5, <2>2, <3>1, Zenon
  <2> QED
    BY <1>2, <2>1, <2>2
<1>10. ASSUME NEW i \in 1..(n+1), NEW j \in 1..(n+1), i < j PROVE V[j].age <= V[i].age
  <2>1. i \in 1..n /\ V[i] = W[i] /\ (j \in 1..n \/ j = n + 1)
    BY <1>2, <1>4, <1>10
  <2>2. CASE j = n + 1
    BY <1>1, <1>2, <1>4, <2>1, <2>2
  <2>3. CASE j \in 1..n
    BY <1>2, <1>4, <1>10, <2>1, <2>3, Zenon
  <2> QED
    BY <2>1, <2>2, <2>3
<1>11. Aligned(V, H, w)
  BY <1>4, <1>5, <1>7, <1>8, <1>9, <1>10 DEF Aligned, Histories
<1> QED
  BY <1>11 DEF V, H, s

\* ... and a tick makes the same samples too old in both.
LEMMA AlignedTick ==
    ASSUME NEW w \in Windows, Aligned(windows[w], recent[w], w)
    PROVE  Aligned(Aged(w), StillRecent(w), w)
<1> DEFINE W == windows[w]
           G == recent[w]
           V == Aged(w)
           H == StillRecent(w)
           n == Len(W)
           g == Len(G)
           L == Lookback[w]
<1>1. /\ n \in Nat /\ g \in Nat /\ n <= g /\ g - n \in Nat
      /\ DOMAIN W = 1..n /\ DOMAIN G = 1..g
      /\ \A i \in 1..n : W[i] \in Samples /\ W[i].age \in Nat
      /\ \A i \in 1..g : G[i] \in Samples \cup {Spent(w)}
      /\ \A i \in 1..(g - n) : G[i] = Spent(w)
      /\ \A i \in 1..n : G[(g - n) + i] = IF W[i].age <= L THEN W[i] ELSE Spent(w)
      /\ \A i, j \in 1..n : i < j => W[j].age <= W[i].age
  BY AlignedType, Zenon DEF Aligned
<1>2. L \in Nat /\ L > 0
  BY LookbackType
<1>3. Spent(w).age = L + 1
  BY DEF Spent
<1>4. V = [i \in 1..n |-> [W[i] EXCEPT !.age = Min({@ + 1, L + 1})]]
  BY <1>1 DEF Aged
<1>5. H = [i \in 1..g |-> IF G[i].age < L THEN [G[i] EXCEPT !.age = @ + 1] ELSE Spent(w)]
  BY <1>1 DEF StillRecent
<1> HIDE DEF W, G, V, H, n, g, L
<1>6. ASSUME NEW i \in 1..n
      PROVE  /\ V[i] = [W[i] EXCEPT !.age = IF W[i].age <= L THEN W[i].age + 1 ELSE L + 1]
             /\ V[i] \in Samples
             /\ V[i].age = IF W[i].age <= L THEN W[i].age + 1 ELSE L + 1
  <2>1. W[i] \in Samples /\ W[i].age \in Nat
    BY <1>1
  <2>2. Min({W[i].age + 1, L + 1}) = IF W[i].age <= L THEN W[i].age + 1 ELSE L + 1
    BY <1>2, <2>1, MinMaxOfTwo
  <2>3. V[i] = [W[i] EXCEPT !.age = IF W[i].age <= L THEN W[i].age + 1 ELSE L + 1]
    BY <1>4, <2>2
  <2> DEFINE a == IF W[i].age <= L THEN W[i].age + 1 ELSE L + 1
  <2>4. a \in Nat
    BY <1>2, <2>1
  <2> HIDE DEF a
  <2>5. [W[i] EXCEPT !.age = a] \in Samples /\ [W[i] EXCEPT !.age = a].age = a
    BY <2>1, <2>4 DEF Samples
  <2> QED
    BY <2>3, <2>5 DEF a
<1>7. ASSUME NEW i \in 1..g
      PROVE  /\ H[i] = IF G[i].age < L THEN [G[i] EXCEPT !.age = @ + 1] ELSE Spent(w)
             /\ H[i] \in Samples \cup {Spent(w)}
  <2>1. G[i] \in Samples \cup {Spent(w)} /\ H[i] = IF G[i].age < L THEN [G[i] EXCEPT !.age = @ + 1] ELSE Spent(w)
    BY <1>1, <1>5
  <2>2. CASE G[i].age < L
    <3>1. G[i] \in Samples /\ G[i].age \in Nat
      BY <1>2, <1>3, <2>1, <2>2 DEF Samples
    <3>2. [G[i] EXCEPT !.age = @ + 1] \in Samples
      BY <3>1 DEF Samples
    <3> QED
      BY <2>1, <2>2, <3>2
  <2> QED
    BY <2>1, <2>2
<1>8. V \in Seq(Samples) /\ Len(V) = n
  <2>1. DOMAIN V = 1..n /\ V = [i \in DOMAIN V |-> V[i]]
    BY <1>4
  <2>2. \A i \in 1..n : V[i] \in Samples
    BY <1>6, Zenon
  <2> QED
    BY <1>1, <2>1, <2>2
<1>9. H \in Seq(Samples \cup {Spent(w)}) /\ Len(H) = g
  <2> DEFINE S == Samples \cup {Spent(w)}
  <2>1. DOMAIN H = 1..g /\ H = [i \in DOMAIN H |-> H[i]]
    BY <1>5
  <2>2. \A i \in 1..g : H[i] \in S
    BY <1>7, Zenon
  <2> HIDE DEF S
  <2>3. H \in Seq(S) /\ Len(H) = g
    BY <1>1, <2>1, <2>2
  <2> QED
    BY <2>3 DEF S
<1>10. ASSUME NEW i \in 1..(g - n) PROVE H[i] = Spent(w)
  <2>1. i \in 1..g /\ G[i] = Spent(w) /\ ~(L + 1 < L)
    BY <1>1, <1>2
  <2> QED
    BY <1>3, <1>7, <2>1, Zenon
<1>11. ASSUME NEW i \in 1..n PROVE H[(g - n) + i] = IF V[i].age <= L THEN V[i] ELSE Spent(w)
  <2>1. /\ (g - n) + i \in 1..g /\ W[i].age \in Nat
        /\ G[(g - n) + i] = IF W[i].age <= L THEN W[i] ELSE Spent(w)
    BY <1>1
  <2> DEFINE e == G[(g - n) + i]
  <2>2. H[(g - n) + i] = IF e.age < L THEN [e EXCEPT !.age = @ + 1] ELSE Spent(w)
    BY <1>7, <2>1
  <2>3. CASE W[i].age < L
    <3>1. e = W[i] /\ V[i].age = W[i].age + 1 /\ V[i] = [W[i] EXCEPT !.age = W[i].age + 1] /\ V[i].age <= L
      BY <1>2, <1>6, <2>1, <2>3
    <3> QED
      BY <2>2, <2>3, <3>1
  <2>4. CASE ~(W[i].age < L)
    <3>1. ~(e.age < L)
      BY <1>2, <1>3, <2>1, <2>4
    <3>2. ~(V[i].age <= L)
      <4>1. V[i].age = IF W[i].age <= L THEN W[i].age + 1 ELSE L + 1
        BY <1>6, Zenon
      <4> QED
        BY <1>2, <2>1, <2>4, <4>1
    <3> QED
      BY <2>2, <3>1, <3>2
  <2> QED
    BY <2>3, <2>4
<1>12. ASSUME NEW i \in 1..n, NEW j \in 1..n, i < j PROVE V[j].age <= V[i].age
  <2>1. W[j].age <= W[i].age /\ W[i].age \in Nat /\ W[j].age \in Nat
    BY <1>1, <1>12
  <2>2. /\ V[i].age = IF W[i].age <= L THEN W[i].age + 1 ELSE L + 1
        /\ V[j].age = IF W[j].age <= L THEN W[j].age + 1 ELSE L + 1
    BY <1>6, Zenon
  <2> QED
    BY <1>2, <2>1, <2>2
<1>13. Aligned(V, H, w)
  BY <1>1, <1>8, <1>9, <1>10, <1>11, <1>12 DEF Aligned, Histories, L
<1> QED
  BY <1>13 DEF V, H
-----------------------------------------------------------------------------
\* Sums of an aligned window: the costs of a sequence of samples.
LEMMA CostOfType ==
    ASSUME NEW S, \A e \in S : e.cost \in Nat, NEW s \in Seq(S)
    PROVE  /\ [i \in DOMAIN s |-> s[i].cost] \in [1..Len(s) -> Nat] /\ Len(s) \in Nat
           /\ CostOf(s) \in Nat
<1>1. Len(s) \in Nat /\ DOMAIN s = 1..Len(s) /\ \A i \in 1..Len(s) : s[i] \in S
  OBVIOUS
<1>2. [i \in DOMAIN s |-> s[i].cost] \in [1..Len(s) -> Nat]
  BY <1>1
<1> QED
  BY <1>1, <1>2, TotalNonNegative, Zenon DEF CostOf

\* A read of a window gives the cost of its history.
LEMMA SumOfAligned ==
    ASSUME NEW w \in Windows, NEW G, Aligned(windows[w], G, w)
    PROVE  Sum(w) = CostOf(G)
<1> DEFINE V == Evicted(w)
           n == Len(V)
           g == Len(G)
           k == g - n
           f == [i \in DOMAIN G |-> G[i].cost]
           h == [i \in DOMAIN V |-> V[i].cost]
<1>1. Aligned(V, G, w) /\ \A i \in 1..n : V[i].age <= Lookback[w]
  BY AlignedEvict
<1>2. /\ n \in Nat /\ g \in Nat /\ k \in 0..g /\ g - k = n
      /\ DOMAIN V = 1..n /\ DOMAIN G = 1..g
      /\ \A i \in 1..k : G[i] = Spent(w)
      /\ \A i \in 1..n : G[k + i] = V[i]
  <2>1. n \in Nat /\ g \in Nat /\ g - n \in Nat /\ DOMAIN V = 1..n /\ DOMAIN G = 1..g
    BY <1>1, AlignedType
  <2>2. \A i \in 1..(g - n) : G[i] = Spent(w)
    BY <1>1 DEF Aligned
  <2>3. \A i \in 1..n : G[(g - n) + i] = V[i]
    BY <1>1 DEF Aligned
  <2>4. k \in 0..g /\ g - k = n
    BY <2>1
  <2> QED
    BY <2>1, <2>2, <2>3, <2>4
<1>3. f \in [1..g -> Int]
  <2>1. G \in Seq(Samples \cup {Spent(w)})
    BY DEF Aligned, Histories
  <2>2. f \in [1..g -> Nat]
    BY <2>1, CostOfType, HistoryEntry
  <2> QED
    BY <2>2
<1>4. h \in [1..(g - k) -> Int]
  <2>1. V \in Seq(Samples) /\ \A e \in Samples : e.cost \in Nat
    BY <1>1, HistoryEntry DEF Aligned
  <2>2. h \in [1..n -> Nat]
    BY <2>1, CostOfType
  <2> QED
    BY <1>2, <2>2
<1>5. \A i \in 1..k : f[i] = 0
  BY <1>2 DEF Spent
<1>6. \A i \in 1..(g - k) : h[i] = f[k + i]
  <2>1. \A i \in 1..n : k + i \in 1..g
    BY <1>2
  <2> QED
    BY <1>2, <2>1
<1>7. Total(h, n) = CostOf(V) /\ Total(f, g) = CostOf(G)
  BY DEF CostOf
<1> HIDE DEF V, n, g, k, f, h
<1>8. Total(h, g - k) = Total(f, g)
  BY <1>2, <1>3, <1>4, <1>5, <1>6, TotalSuffix, Zenon
<1> QED
  BY <1>2, <1>7, <1>8 DEF Sum, V
-----------------------------------------------------------------------------
\* Every window is aligned with its history.
WindowsOK ==
    /\ windows = [w \in Windows |-> windows[w]] /\ recent = [w \in Windows |-> recent[w]]
    /\ \A w \in Windows : Aligned(windows[w], recent[w], w)

\* The requests that record usage carry a cost to the windows.
RecordersOK ==
    /\ recorders \in [1..Recorders -> [pc: Windows \cup {"idle", "baseline"}, cost: Costs \cup {0}]]
    /\ \A r \in 1..Recorders : recorders[r].pc \in Windows => recorders[r].cost \in Costs
    /\ records \in 0..MaxRecords

\* The windows are empty at first, and nobody records.
LEMMA WindowsInit == Init => WindowsOK /\ RecordersOK
<1> SUFFICES ASSUME Init PROVE WindowsOK /\ RecordersOK
  OBVIOUS
<1>1. \A w \in Windows : windows[w] = <<>> /\ recent[w] = <<>>
  BY DEF Init
<1>2. \A w \in Windows : Aligned(<<>>, <<>>, w)
  BY DEF Aligned, Histories
<1>3. WindowsOK
  BY <1>1, <1>2 DEF WindowsOK, Init
<1>4. RecordersOK
  BY TrackerAssumptions DEF RecordersOK, Init, Windows
<1> QED
  BY <1>3, <1>4

\* What a step does to the windows: it leaves one alone, evicts, records or ages.
Recorded(w, c) == /\ windows'[w] = Append(Evicted(w), [age |-> 0, cost |-> c])
                  /\ recent'[w] = Append(recent[w], [age |-> 0, cost |-> c])

\* A window stays aligned with its history whatever is recorded, read or evicted, and
\* as time passes.
LEMMA WindowsStep == WindowsOK /\ RecordersOK /\ [Next]_vars => WindowsOK'
<1> SUFFICES ASSUME WindowsOK, RecordersOK, [Next]_vars PROVE WindowsOK'
  OBVIOUS
<1>a. /\ windows = [w \in Windows |-> windows[w]] /\ recent = [w \in Windows |-> recent[w]]
      /\ \A w \in Windows : Aligned(windows[w], recent[w], w)
  BY DEF WindowsOK
<1>b. {"short", "medium", "long"} = Windows
  BY DEF Windows
<1> DEFINE Shape == windows' = [w \in Windows |-> windows'[w]] /\ recent' = [w \in Windows |-> recent'[w]]
           Fate(w) == \/ windows'[w] \in {windows[w], Evicted(w)} /\ recent'[w] = recent[w]
                      \/ \E c \in Costs : Recorded(w, c)
                      \/ windows'[w] = Aged(w) /\ recent'[w] = StillRecent(w)
<1>1. ASSUME Shape, \A w \in Windows : Fate(w) PROVE WindowsOK'
  <2>1. ASSUME NEW w \in Windows PROVE Aligned(windows'[w], recent'[w], w)
    <3>1. /\ Aligned(windows[w], recent[w], w) /\ Aligned(Evicted(w), recent[w], w)
          /\ Aligned(Aged(w), StillRecent(w), w)
      BY <1>a, AlignedEvict, AlignedTick
    <3>2. ASSUME NEW c \in Costs, Recorded(w, c) PROVE Aligned(windows'[w], recent'[w], w)
      BY <3>1, <3>2, AlignedAppend DEF Recorded
    <3> QED
      BY <1>1, <3>1, <3>2
  <2>2. Shape
    BY <1>1
  <2> QED
    BY <2>1, <2>2 DEF WindowsOK
<1>2. ASSUME NEW r \in 1..Recorders, NEW w \in Windows, RecordIn(r, w) PROVE WindowsOK'
  <2>1. recorders[r].cost \in Costs
    BY <1>2 DEF RecordersOK, RecordIn
  <2>2. /\ windows' = [windows EXCEPT ![w] = Append(Evicted(w), [age |-> 0, cost |-> recorders[r].cost])]
        /\ recent' = [recent EXCEPT ![w] = Append(@, [age |-> 0, cost |-> recorders[r].cost])]
    BY <1>2 DEF RecordIn
  <2>3. Shape /\ Recorded(w, recorders[r].cost)
        /\ \A x \in Windows : x # w => windows'[x] = windows[x] /\ recent'[x] = recent[x]
    BY <1>a, <2>2, Zenon DEF Recorded
  <2> QED
    BY <1>1, <2>1, <2>3
<1>3. ASSUME NEW w \in Windows, Evict(w), UNCHANGED recent PROVE WindowsOK'
  <2>1. Shape /\ windows'[w] = Evicted(w) /\ \A x \in Windows : x # w => windows'[x] = windows[x]
    BY <1>3, <1>a DEF Evict
  <2> QED
    BY <1>1, <1>3, <2>1
<1>4. ASSUME NEW exposure \in Exposures, Decide(exposure) PROVE WindowsOK'
  <2>1. /\ windows' = [windows EXCEPT !["short"] = Evicted("short"), !["medium"] = Evicted("medium")]
        /\ recent' = recent
    BY <1>4 DEF Decide
  <2>2. Shape /\ windows'["short"] = Evicted("short") /\ windows'["medium"] = Evicted("medium")
              /\ windows'["long"] = windows["long"]
    BY <1>a, <1>b, <2>1, Zenon
  <2> QED
    BY <1>1, <2>1, <2>2 DEF Windows
<1>5. CASE Tick
  <2>1. Shape /\ \A w \in Windows : windows'[w] = Aged(w) /\ recent'[w] = StillRecent(w)
    BY <1>5 DEF Tick
  <2> QED
    BY <1>1, <2>1
<1>6. CASE UNCHANGED <<windows, recent>>
  BY <1>6, <1>a DEF WindowsOK
<1>7. ASSUME NEW r \in 1..Recorders, NEW cost \in Costs, BeginRecord(r, cost) PROVE WindowsOK'
  BY <1>6, <1>7 DEF BeginRecord
<1>8. ASSUME NEW r \in 1..Recorders, RecordBaseline(r) PROVE WindowsOK'
  BY <1>3, <1>8, <1>b DEF RecordBaseline
<1>9. CASE ReadBaseline \/ ReadCurrent \/ ReadShort \/ ReadMedium
  BY <1>3, <1>6, <1>9, <1>b DEF ReadBaseline, ReadCurrent, ReadShort, ReadMedium
<1> QED
  BY <1>2, <1>4, <1>5, <1>6, <1>7, <1>8, <1>9 DEF Next, vars

\* Record takes a cost from window to window.
LEMMA RecordersStep == RecordersOK /\ [Next]_vars => RecordersOK'
<1> SUFFICES ASSUME RecordersOK, [Next]_vars PROVE RecordersOK'
  OBVIOUS
<1> USE DEF RecordersOK
<1>1. ASSUME NEW r \in 1..Recorders, NEW cost \in Costs, BeginRecord(r, cost) PROVE RecordersOK'
  <2>1. records' \in 0..MaxRecords
    BY <1>1, TrackerAssumptions DEF BeginRecord
  <2> QED
    BY <1>1, <2>1 DEF BeginRecord, Windows
<1>2. ASSUME NEW r \in 1..Recorders, NEW w \in Windows, RecordIn(r, w) PROVE RecordersOK'
  <2>1. After[w] \in Windows \cup {"idle", "baseline"}
    BY DEF After, Windows
  <2> QED
    BY <1>2, <2>1 DEF RecordIn
<1>3. ASSUME NEW r \in 1..Recorders, RecordBaseline(r) PROVE RecordersOK'
  BY <1>3 DEF RecordBaseline, Windows
<1>4. CASE UNCHANGED <<recorders, records>>
  BY <1>4
<1> QED
  BY <1>1, <1>2, <1>3, <1>4, Zenon DEF Next, vars, ReadBaseline, ReadCurrent, ReadShort, ReadMedium, Decide, Tick

\* Every window is aligned with its history, in every reachable state.
LEMMA WindowsAlways == Spec => [](WindowsOK /\ RecordersOK)
BY WindowsInit, WindowsStep, RecordersStep, PTL DEF Spec

\* "Total spend within the lookback window": whatever the order of records, reads and
\* time, a read of any window gives the cost of the samples recorded within its
\* lookback, although evictLocked runs only when somebody looks and stops at the first
\* young sample.
THEOREM SumAlwaysRecentSpend == Spec => []SumIsRecentSpend
<1>1. WindowsOK => SumIsRecentSpend
  BY SumOfAligned DEF WindowsOK, SumIsRecentSpend
<1> QED
  BY <1>1, WindowsAlways, PTL
-----------------------------------------------------------------------------
\* Sums and velocities are natural numbers, and without spend there is no velocity.
LEMMA VelocityType ==
    ASSUME NEW w \in Windows, Aligned(windows[w], recent[w], w)
    PROVE  /\ Sum(w) \in Nat /\ Velocity(w) \in Nat
           /\ CostOf(recent[w]) = 0 => Velocity(w) = 0
<1>1. recent[w] \in Seq(Samples \cup {Spent(w)})
  BY DEF Aligned, Histories
<1>2. Sum(w) = CostOf(recent[w]) /\ Sum(w) \in Nat
  BY <1>1, SumOfAligned, CostOfType, HistoryEntry
<1>3. Scale \in Nat /\ Lookback[w] \in Nat \ {0}
  BY TrackerAssumptions
<1> DEFINE s == Sum(w)
           L == Lookback[w]
<1> HIDE DEF s, L
<1>4. s \in Nat /\ L \in Nat \ {0}
  BY <1>2, <1>3 DEF s, L
<1>5. s * Scale \in Nat /\ (s = 0 => s * Scale = 0)
  BY <1>3, <1>4
<1>6. (s * Scale) \div L \in Nat
  BY <1>4, <1>5, Quotient
<1>7. s = 0 => (s * Scale) \div L = 0
  BY <1>4, <1>5
<1> QED
  BY <1>2, <1>6, <1>7 DEF s, L, Velocity

\* The learned velocity and the velocities it was learned from.
BaselineOK == baseline \in Nat /\ seeded \in BOOLEAN /\ range \in Nat \X Nat /\ BaselineInRange

\* A weighted mean lies between the values it is a mean of.
LEMMA MeanInRange ==
    ASSUME NEW lo \in Nat, NEW hi \in Nat, NEW b \in Nat, NEW c \in Nat, lo <= b, b <= hi, lo <= c, c <= hi
    PROVE  /\ (c + 49 * b) \div 50 \in Nat
           /\ lo <= (c + 49 * b) \div 50 /\ (c + 49 * b) \div 50 <= hi
OBVIOUS

\* Record feeds the baseline with a velocity and widens the range by the same one.
LEMMA BaselineStep == WindowsOK /\ BaselineOK /\ [Next]_vars => BaselineOK'
<1> SUFFICES ASSUME WindowsOK, BaselineOK, [Next]_vars PROVE BaselineOK'
  OBVIOUS
<1>1. ASSUME NEW r \in 1..Recorders, RecordBaseline(r) PROVE BaselineOK'
  <2> DEFINE current == Velocity("long")
             lo == IF range[1] <= current THEN range[1] ELSE current
             hi == IF range[2] <= current THEN current ELSE range[2]
  <2>1. current \in Nat
    BY VelocityType DEF WindowsOK, Windows
  <2>2. baseline' = Learned(current) /\ seeded' = TRUE
    BY <1>1 DEF RecordBaseline
  <2>3. range' = IF seeded THEN <<Min({range[1], current}), Max({range[2], current})>>
                           ELSE <<current, current>>
    BY <1>1 DEF RecordBaseline
  <2> HIDE DEF current
  <2>4. range[1] \in Nat /\ range[2] \in Nat /\ baseline \in Nat /\ range[1] <= baseline /\ baseline <= range[2]
    BY DEF BaselineOK, BaselineInRange
  <2>5. Min({range[1], current}) = lo /\ Max({range[2], current}) = hi
    <3>1. range[1] \in Int /\ range[2] \in Int /\ current \in Int
      BY <2>1, <2>4
    <3> QED
      BY <3>1, MinMaxOfTwo, Zenon
  <2>6. lo \in Nat /\ hi \in Nat /\ lo <= baseline /\ baseline <= hi /\ lo <= current /\ current <= hi
    BY <2>1, <2>4
  <2> HIDE DEF lo, hi
  <2>7. CASE seeded
    <3>1. baseline' = (current + 49 * baseline) \div 50 /\ range' = <<lo, hi>>
      BY <2>2, <2>3, <2>5, <2>7 DEF Learned
    <3>2. baseline' \in Nat /\ lo <= baseline' /\ baseline' <= hi
      BY <2>1, <2>4, <2>6, <3>1, MeanInRange
    <3> QED
      BY <2>2, <2>6, <3>1, <3>2 DEF BaselineOK, BaselineInRange
  <2>8. CASE ~seeded
    <3>1. baseline' = current /\ range' = <<current, current>>
      BY <2>2, <2>3, <2>8 DEF Learned
    <3> QED
      BY <2>1, <2>2, <3>1 DEF BaselineOK, BaselineInRange
  <2> QED
    BY <2>7, <2>8
<1>2. CASE UNCHANGED <<baseline, seeded, range>>
  BY <1>2 DEF BaselineOK, BaselineInRange
<1> QED
  BY <1>1, <1>2, Zenon DEF Next, vars, BeginRecord, RecordIn, ReadBaseline, ReadCurrent, ReadShort, ReadMedium,
                    Decide, Tick

\* The baseline is in its range, in every reachable state.
LEMMA BaselineAlways == Spec => [](WindowsOK /\ RecordersOK /\ BaselineOK)
<1>1. ASSUME Init PROVE BaselineOK
  <2>1. baseline = 0 /\ seeded = FALSE /\ range = <<0, 0>>
    BY <1>1 DEF Init
  <2>2. range[1] = 0 /\ range[2] = 0 /\ range \in Nat \X Nat
    BY <2>1
  <2>3. seeded \in BOOLEAN
    BY <2>1, Zenon
  <2>4. baseline \in Nat /\ BaselineInRange
    BY <2>1, <2>2 DEF BaselineInRange
  <2> QED
    BY <2>2, <2>3, <2>4 DEF BaselineOK
<1> QED
  BY <1>1, WindowsAlways, BaselineStep, PTL DEF Spec

\* Whatever requests race to seed and to update the baseline, it stays between the
\* lowest and the highest velocity that Record has seen in the long window.
THEOREM BaselineAlwaysInRange == Spec => []BaselineInRange
<1>1. BaselineOK => BaselineInRange
  BY DEF BaselineOK
<1> QED
  BY <1>1, BaselineAlways, PTL
-----------------------------------------------------------------------------
\* The cost of the samples of a history that are no older than a.
UpTo(G, a) == Total([i \in DOMAIN G |-> IF G[i].age <= a THEN G[i].cost ELSE 0], Len(G))

\* A history as a function of its entries' costs.
LEMMA UpToType ==
    ASSUME NEW w \in Windows, NEW G \in Histories(w), NEW a \in Int
    PROVE  /\ Len(G) \in Nat /\ DOMAIN G = 1..Len(G)
           /\ \A i \in 1..Len(G) : G[i] \in Samples \cup {Spent(w)} /\ G[i].age \in Nat /\ G[i].cost \in Nat
           /\ [i \in DOMAIN G |-> IF G[i].age <= a THEN G[i].cost ELSE 0] \in [1..Len(G) -> Int]
           /\ UpTo(G, a) \in Nat
<1>1. G \in Seq(Samples \cup {Spent(w)})
  BY DEF Histories
<1>2. Len(G) \in Nat /\ DOMAIN G = 1..Len(G) /\ \A i \in 1..Len(G) : G[i] \in Samples \cup {Spent(w)}
  BY <1>1
<1>3. \A i \in 1..Len(G) : G[i].age \in Nat /\ G[i].cost \in Nat
  BY <1>2, HistoryEntry
<1>4. [i \in DOMAIN G |-> IF G[i].age <= a THEN G[i].cost ELSE 0] \in [1..Len(G) -> Nat]
  BY <1>2, <1>3
<1>5. UpTo(G, a) \in Nat
  BY <1>2, <1>4, TotalNonNegative DEF UpTo
<1> QED
  BY <1>2, <1>3, <1>4, <1>5

\* An older bound takes in more, and the lookback takes in everything.
LEMMA UpToGrows ==
    ASSUME NEW w \in Windows, NEW G \in Histories(w), NEW a \in Nat, NEW b \in Nat, a <= b
    PROVE  UpTo(G, a) <= UpTo(G, b)
<1> DEFINE n == Len(G)
           f == [i \in DOMAIN G |-> IF G[i].age <= a THEN G[i].cost ELSE 0]
           h == [i \in DOMAIN G |-> IF G[i].age <= b THEN G[i].cost ELSE 0]
<1>a. a \in Int /\ b \in Int
  OBVIOUS
<1>1. /\ n \in Nat /\ DOMAIN G = 1..n /\ f \in [1..n -> Int] /\ h \in [1..n -> Int]
      /\ \A i \in 1..n : G[i].age \in Nat /\ G[i].cost \in Nat
  BY <1>a, UpToType
<1>2. ASSUME NEW i \in 1..n PROVE f[i] <= h[i]
  <2>1. /\ f[i] = IF G[i].age <= a THEN G[i].cost ELSE 0
        /\ h[i] = IF G[i].age <= b THEN G[i].cost ELSE 0
    BY <1>1
  <2> QED
    BY <1>1, <2>1
<1> HIDE DEF f, h, n
<1>3. Total(f, n) <= Total(h, n)
  BY <1>1, <1>2, TotalMonotone, Zenon
<1> QED
  BY <1>3 DEF UpTo, f, h, n

\* The lookback takes in all that is left.
LEMMA UpToLookback ==
    ASSUME NEW w \in Windows, NEW G, NEW W, Aligned(W, G, w)
    PROVE  G \in Histories(w) /\ CostOf(G) = UpTo(G, Lookback[w])
<1> DEFINE L == Lookback[w]
           n == Len(G)
           k == n - Len(W)
<1>1. G \in Histories(w) /\ L \in Nat
  BY LookbackType DEF Aligned
<1>2. DOMAIN G = 1..n
  BY <1>1, UpToType
<1>3. /\ n \in Nat /\ Len(W) \in Nat /\ k \in Nat
      /\ \A i \in 1..k : G[i] = Spent(w)
      /\ \A i \in 1..Len(W) : G[k + i] = IF W[i].age <= L THEN W[i] ELSE Spent(w)
  BY AlignedType DEF Aligned
<1>4. ASSUME NEW i \in 1..n PROVE G[i].age <= L \/ G[i].cost = 0
  <2>1. Spent(w).cost = 0
    BY DEF Spent
  <2>2. CASE i \in 1..k
    BY <1>3, <2>1, <2>2
  <2>3. CASE i \notin 1..k
    <3> DEFINE j == i - k
    <3>1. j \in 1..Len(W) /\ k + j = i
      BY <1>3, <2>3
    <3> HIDE DEF j, k
    <3>2. G[k + j] = IF W[j].age <= L THEN W[j] ELSE Spent(w)
      BY <1>3, <3>1
    <3> QED
      BY <2>1, <3>1, <3>2
  <2> QED
    BY <2>2, <2>3
<1>5. [i \in DOMAIN G |-> G[i].cost] = [i \in DOMAIN G |-> IF G[i].age <= L THEN G[i].cost ELSE 0]
  BY <1>2, <1>4
<1> QED
  BY <1>1, <1>5 DEF CostOf, UpTo

\* Recording a sample adds its cost at every age.
LEMMA UpToAppend ==
    ASSUME NEW w \in Windows, NEW G \in Histories(w), NEW c \in Costs, NEW a \in Nat
    PROVE  UpTo(Append(G, [age |-> 0, cost |-> c]), a) = UpTo(G, a) + c
<1> DEFINE s == [age |-> 0, cost |-> c]
           H == Append(G, s)
           n == Len(G)
           f == [i \in DOMAIN G |-> IF G[i].age <= a THEN G[i].cost ELSE 0]
           h == [i \in DOMAIN H |-> IF H[i].age <= a THEN H[i].cost ELSE 0]
<1>1. s \in Samples /\ s.age = 0 /\ s.cost = c /\ c \in Nat
  BY TrackerAssumptions DEF Samples
<1>2. n \in Nat /\ DOMAIN G = 1..n /\ f \in [1..n -> Int]
  BY UpToType
<1> HIDE DEF s
<1>3. /\ H \in Seq(Samples \cup {Spent(w)}) /\ Len(H) = n + 1 /\ H[n+1] = s
      /\ \A i \in 1..n : H[i] = G[i]
  BY <1>1 DEF Histories
<1>4. DOMAIN H = 1..(n+1) /\ h \in [1..(n+1) -> Int]
  <2>1. a \in Int /\ H \in Histories(w)
    BY <1>3 DEF Histories
  <2>2. DOMAIN H = 1..Len(H) /\ h \in [1..Len(H) -> Int]
    BY <2>1, UpToType, Zenon
  <2> QED
    BY <1>3, <2>2
<1>5. \A i \in 1..n : i \in 1..(n+1)
  BY <1>2
<1>6. \A i \in 1..n : h[i] = f[i]
  BY <1>2, <1>3, <1>4, <1>5
<1>7. n + 1 \in 1..(n+1)
  BY <1>2
<1>8. h[n+1] = c
  BY <1>1, <1>3, <1>4, <1>7
<1> HIDE DEF f, h, n, H
<1>9. Total(h, n + 1) = Total(f, n) + c
  BY <1>2, <1>4, <1>6, <1>8, TotalAppend
<1> QED
  BY <1>3, <1>9, Zenon DEF UpTo, f, h, H, s, n

\* A tick makes every sample one older, and drops those that leave the lookback.
LEMMA UpToTick ==
    ASSUME NEW w \in Windows, recent[w] \in Histories(w), NEW a \in Nat, a <= Lookback[w]
    PROVE  UpTo(StillRecent(w), a) = UpTo(recent[w], a - 1)
<1> DEFINE G == recent[w]
           H == StillRecent(w)
           n == Len(G)
           L == Lookback[w]
<1>1. /\ n \in Nat /\ DOMAIN G = 1..n
      /\ \A i \in 1..n : G[i] \in Samples \cup {Spent(w)} /\ G[i].age \in Nat /\ G[i].cost \in Nat
  BY UpToType
<1>2. L \in Nat /\ Spent(w).age = L + 1
  BY LookbackType DEF Spent
<1>3. H = [i \in 1..n |-> IF G[i].age < L THEN [G[i] EXCEPT !.age = @ + 1] ELSE Spent(w)]
  BY <1>1 DEF StillRecent
<1>4. DOMAIN H = 1..n /\ Len(H) = n
  BY <1>1, <1>3
<1> HIDE DEF G, H, n, L
<1>5. ASSUME NEW i \in 1..n
      PROVE  (IF H[i].age <= a THEN H[i].cost ELSE 0) = IF G[i].age <= a - 1 THEN G[i].cost ELSE 0
  <2>1. H[i] = IF G[i].age < L THEN [G[i] EXCEPT !.age = @ + 1] ELSE Spent(w)
    BY <1>3
  <2>2. G[i] \in Samples \cup {Spent(w)} /\ G[i].age \in Nat
    BY <1>1
  <2>3. CASE G[i].age < L
    <3>1. [G[i] EXCEPT !.age = @ + 1].age = G[i].age + 1 /\ [G[i] EXCEPT !.age = @ + 1].cost = G[i].cost
      BY <2>2 DEF Samples, Spent
    <3>2. H[i].age = G[i].age + 1 /\ H[i].cost = G[i].cost
      BY <2>1, <2>3, <3>1
    <3> QED
      BY <2>2, <3>2
  <2>4. CASE ~(G[i].age < L)
    <3>1. H[i].age = L + 1
      BY <1>2, <2>1, <2>4
    <3>2. ~(H[i].age <= a) /\ ~(G[i].age <= a - 1)
      BY <1>2, <2>2, <2>4, <3>1 DEF L
    <3> QED
      BY <3>2
  <2> QED
    BY <2>3, <2>4
<1>6. [i \in DOMAIN H |-> IF H[i].age <= a THEN H[i].cost ELSE 0]
         = [i \in DOMAIN G |-> IF G[i].age <= a - 1 THEN G[i].cost ELSE 0]
  BY <1>1, <1>4, <1>5
<1> QED
  BY <1>4, <1>6 DEF UpTo, G, H, n
-----------------------------------------------------------------------------
\* The costs that a recorder is about to give to window w.
Carried(q, w) == IF q.pc = w THEN q.cost ELSE 0

\* A step of one recorder changes what is on its way to a window by what it carries.
LEMMA InFlightStep ==
    ASSUME RecordersOK, RecordersOK', NEW r \in 1..Recorders, NEW w \in Windows,
           \A k \in 1..Recorders : k # r => recorders'[k] = recorders[k]
    PROVE  /\ InFlight(w) \in Nat /\ Carried(recorders[r], w) \in Nat /\ Carried(recorders'[r], w) \in Nat
           /\ InFlight(w)' = InFlight(w) + Carried(recorders'[r], w) - Carried(recorders[r], w)
<1> DEFINE n == Recorders
           f == [k \in 1..n |-> IF recorders[k].pc = w THEN recorders[k].cost ELSE 0]
           h == [k \in 1..n |-> IF recorders'[k].pc = w THEN recorders'[k].cost ELSE 0]
<1>1. n \in Nat /\ Costs \cup {0} \subseteq Nat
  BY TrackerAssumptions
<1>2. \A k \in 1..n : recorders[k].cost \in Nat /\ recorders'[k].cost \in Nat
  BY <1>1 DEF RecordersOK
<1>3. f \in [1..n -> Nat] /\ h \in [1..n -> Nat]
  BY <1>2
<1>4. f \in [1..n -> Int] /\ h \in [1..n -> Int]
  BY <1>3
<1>5. \A k \in 1..n : k # r => h[k] = f[k]
  OBVIOUS
<1>6. f[r] = Carried(recorders[r], w) /\ h[r] = Carried(recorders'[r], w)
  BY DEF Carried
<1>7. InFlight(w) = Total(f, n) /\ InFlight(w)' = Total(h, n)
  BY DEF InFlight
<1>8. f[r] \in Nat /\ h[r] \in Nat
  BY <1>3
<1> HIDE DEF f, h
<1>9. Total(f, n) \in Nat
  BY <1>1, <1>3, TotalNonNegative
<1>10. Total(h, n) = Total(f, n) + h[r] - f[r]
  BY <1>1, <1>4, <1>5, TotalUpdate, Zenon
<1> QED
  BY <1>6, <1>7, <1>8, <1>9, <1>10

\* Nothing is younger than zero.
LEMMA UpToBefore ==
    ASSUME NEW w \in Windows, NEW G \in Histories(w)
    PROVE  UpTo(G, 0 - 1) = 0
<1> DEFINE n == Len(G)
           f == [i \in DOMAIN G |-> IF G[i].age <= 0 - 1 THEN G[i].cost ELSE 0]
<1>1. 0 - 1 \in Int
  OBVIOUS
<1>2. /\ n \in Nat /\ DOMAIN G = 1..n /\ f \in [1..n -> Int]
      /\ \A i \in 1..n : G[i].age \in Nat
  BY <1>1, UpToType, Zenon
<1>3. \A i \in 1..n : ~(G[i].age <= 0 - 1)
  BY <1>2
<1>4. \A i \in 1..n : f[i] = 0
  BY <1>2, <1>3
<1> HIDE DEF f, n
<1>5. Total(f, n) = 0
  BY <1>2, <1>4, TotalZero
<1> QED
  BY <1>5 DEF UpTo, f, n

\* What is on its way to a window is a natural number.
LEMMA InFlightType ==
    ASSUME RecordersOK, NEW w \in Windows
    PROVE  InFlight(w) \in Nat
<1> DEFINE f == [k \in 1..Recorders |-> IF recorders[k].pc = w THEN recorders[k].cost ELSE 0]
<1>1. Recorders \in Nat /\ Costs \cup {0} \subseteq Nat
  BY TrackerAssumptions
<1>2. f \in [1..Recorders -> Nat]
  BY <1>1 DEF RecordersOK
<1> HIDE DEF f
<1>3. Total(f, Recorders) \in Nat
  BY <1>1, <1>2, TotalNonNegative
<1> QED
  BY <1>3 DEF InFlight, f

\* A longer window lags a shorter one by what is on its way, at every age.
Lags(u, w) == \A a \in 0..Lookback[u] : UpTo(recent[u], a) <= UpTo(recent[w], a) + InFlight(w)

Nested == Lags("short", "medium") /\ Lags("medium", "long")

\* An amount that reaches either of two windows as it leaves, or joins, what is on its way
\* to the longer one.
LEMMA LagKept ==
    ASSUME NEW u \in Windows, NEW w \in Windows, NEW F \in Histories(u), NEW G \in Histories(w),
           NEW c \in Costs, c \in Nat, NEW a \in Nat, NEW i \in Nat, UpTo(F, a) <= UpTo(G, a) + i
    PROVE  /\ UpTo(Append(F, [age |-> 0, cost |-> c]), a) <= UpTo(G, a) + (i + c - 0)
           /\ UpTo(F, a) <= UpTo(Append(G, [age |-> 0, cost |-> c]), a) + (i + 0 - c)
<1>a. a \in Int
  OBVIOUS
<1>1. UpTo(F, a) \in Nat /\ UpTo(G, a) \in Nat
  BY <1>a, UpToType, Zenon
<1>2. /\ UpTo(Append(F, [age |-> 0, cost |-> c]), a) = UpTo(F, a) + c
      /\ UpTo(Append(G, [age |-> 0, cost |-> c]), a) = UpTo(G, a) + c
  BY UpToAppend, Zenon
<1> QED
  BY <1>1, <1>2

\* One pair of windows, u before w: what a step may do to what they were given.
LEMMA LagsStep ==
    ASSUME WindowsOK, RecordersOK, RecordersOK', NEW u \in Windows, NEW w \in Windows, u # w,
           After[u] = w, Lookback[u] <= Lookback[w], Lags(u, w), [Next]_vars
    PROVE  Lags(u, w)'
<1>a. Lookback[u] \in Nat /\ Lookback[w] \in Nat
  BY LookbackType
<1>b. recent[u] \in Histories(u) /\ recent[w] \in Histories(w)
  BY DEF WindowsOK, Aligned
<1>c. recent = [x \in Windows |-> recent[x]]
  BY DEF WindowsOK
<1>1. ASSUME NEW r \in 1..Recorders, NEW x \in Windows, RecordIn(r, x) PROVE Lags(u, w)'
  <2> DEFINE c == recorders[r].cost
             s == [age |-> 0, cost |-> c]
  <2>1. c \in Costs /\ c \in Nat
    BY <1>1, TrackerAssumptions DEF RecordersOK, RecordIn
  <2>2. /\ recorders[r].pc = x /\ recorders'[r].pc = After[x] /\ recorders'[r].cost = c
        /\ \A k \in 1..Recorders : k # r => recorders'[k] = recorders[k]
    BY <1>1 DEF RecordersOK, RecordIn
  <2>3. recent' = [recent EXCEPT ![x] = Append(recent[x], s)]
    BY <1>1 DEF RecordIn
  <2>4. /\ InFlight(w) \in Nat
        /\ InFlight(w)' = InFlight(w) + Carried(recorders'[r], w) - Carried(recorders[r], w)
    BY <2>2, InFlightStep
  <2>5. ASSUME NEW a \in 0..Lookback[u] PROVE UpTo(recent'[u], a) <= UpTo(recent'[w], a) + InFlight(w)'
    <3>1. a \in Nat /\ a \in Int
      BY <1>a
    <3>2. UpTo(recent[u], a) <= UpTo(recent[w], a) + InFlight(w)
      BY DEF Lags
    <3>3. /\ UpTo(Append(recent[u], s), a) <= UpTo(recent[w], a) + (InFlight(w) + c - 0)
          /\ UpTo(recent[u], a) <= UpTo(Append(recent[w], s), a) + (InFlight(w) + 0 - c)
      BY <1>b, <2>1, <2>4, <3>1, <3>2, LagKept, ZenonT(60)
    <3>4. CASE x = u
      <4>1. recent'[u] = Append(recent[u], s) /\ recent'[w] = recent[w]
        BY <1>c, <2>3, <3>4
      <4>2. InFlight(w)' = InFlight(w) + c - 0
        BY <2>2, <2>4, <3>4 DEF Carried
      <4> QED
        BY <3>3, <4>1, <4>2, Zenon
    <3>5. CASE x = w
      <4>1. recent'[u] = recent[u] /\ recent'[w] = Append(recent[w], s)
        BY <1>c, <2>3, <3>5
      <4>2. InFlight(w)' = InFlight(w) + 0 - c
        <5>1. After[w] # w
          BY DEF After, Windows
        <5> QED
          BY <2>2, <2>4, <3>5, <5>1 DEF Carried
      <4> QED
        BY <3>3, <4>1, <4>2, Zenon
    <3>6. CASE x # u /\ x # w
      <4>1. recent'[u] = recent[u] /\ recent'[w] = recent[w]
        BY <1>c, <2>3, <3>6
      <4>2. InFlight(w)' = InFlight(w) + 0 - 0
        <5>1. After[x] # w
          BY <3>6 DEF After, Windows
        <5> QED
          BY <2>2, <2>4, <3>6, <5>1 DEF Carried
      <4> QED
        BY <2>4, <3>2, <4>1, <4>2
    <3> QED
      BY <3>4, <3>5, <3>6
  <2> QED
    BY <2>5 DEF Lags
<1>2. ASSUME NEW r \in 1..Recorders, UNCHANGED recent,
             \A k \in 1..Recorders : k # r => recorders'[k] = recorders[k],
             recorders[r].pc \notin Windows \/ recorders[r].pc # w, recorders'[r].pc # w
      PROVE  Lags(u, w)'
  <2>1. InFlight(w) \in Nat /\ InFlight(w)' = InFlight(w) + 0 - 0
    BY <1>2, InFlightStep, Zenon DEF Carried
  <2>2. InFlight(w)' = InFlight(w)
    BY <2>1
  <2> QED
    BY <1>2, <2>2 DEF Lags
<1>3. CASE Tick
  <2>1. recent'[u] = StillRecent(u) /\ recent'[w] = StillRecent(w)
    BY <1>3 DEF Tick
  <2>2. InFlight(w)' = InFlight(w)
    BY <1>3 DEF Tick, InFlight
  <2>3. ASSUME NEW a \in 0..Lookback[u] PROVE UpTo(recent'[u], a) <= UpTo(recent'[w], a) + InFlight(w)'
    <3>1. a \in Nat /\ a <= Lookback[u] /\ a <= Lookback[w]
      BY <1>a
    <3>2. UpTo(recent'[u], a) = UpTo(recent[u], a - 1) /\ UpTo(recent'[w], a) = UpTo(recent[w], a - 1)
      BY <1>b, <2>1, <3>1, UpToTick
    <3>3. UpTo(recent[u], a - 1) <= UpTo(recent[w], a - 1) + InFlight(w)
      <4>1. CASE a = 0
        <5>1. UpTo(recent[u], 0 - 1) = 0 /\ UpTo(recent[w], 0 - 1) = 0
          BY <1>b, UpToBefore
        <5>2. InFlight(w) \in Nat
          BY InFlightType
        <5> QED
          BY <4>1, <5>1, <5>2
      <4>2. CASE a # 0
        <5>1. a - 1 \in 0..Lookback[u]
          BY <1>a, <3>1, <4>2
        <5> QED
          BY <5>1 DEF Lags
      <4> QED
        BY <4>1, <4>2
    <3> QED
      BY <2>2, <3>2, <3>3
  <2> QED
    BY <2>3 DEF Lags
<1>4. CASE UNCHANGED <<recent, recorders>>
  BY <1>4 DEF Lags, InFlight
<1>5. ASSUME NEW r \in 1..Recorders, NEW cost \in Costs, BeginRecord(r, cost) PROVE Lags(u, w)'
  <2>1. w # "short"
    BY DEF After, Windows
  <2>2. /\ recorders[r].pc = "idle" /\ recorders'[r].pc = "short" /\ UNCHANGED recent
        /\ \A k \in 1..Recorders : k # r => recorders'[k] = recorders[k]
    BY <1>5 DEF BeginRecord, RecordersOK
  <2>3. "idle" \notin Windows
    BY DEF Windows
  <2> QED
    BY <1>2, <2>1, <2>2, <2>3
<1>6. ASSUME NEW r \in 1..Recorders, RecordBaseline(r) PROVE Lags(u, w)'
  <2>1. /\ recorders[r].pc = "baseline" /\ recorders'[r].pc = "idle" /\ UNCHANGED recent
        /\ \A k \in 1..Recorders : k # r => recorders'[k] = recorders[k]
    BY <1>6 DEF RecordBaseline, RecordersOK
  <2>2. "idle" \notin Windows /\ "baseline" \notin Windows
    BY DEF Windows
  <2> QED
    BY <1>2, <2>1, <2>2
<1> QED
  BY <1>1, <1>3, <1>4, <1>5, <1>6, Zenon DEF Next, vars, ReadBaseline, ReadCurrent, ReadShort, ReadMedium, Decide

\* The windows are nested at every age, in every reachable state.
LEMMA NestedAlways == Spec => [](WindowsOK /\ RecordersOK /\ Nested)
<1>1. Init => Nested
  <2> SUFFICES ASSUME Init PROVE Nested
    OBVIOUS
  <2>1. \A w \in Windows : recent[w] = <<>>
    BY DEF Init
  <2>2. RecordersOK
    BY WindowsInit
  <2>3. ASSUME NEW u \in Windows, NEW w \in Windows PROVE Lags(u, w)
    <3>1. InFlight(w) \in Nat
      BY <2>2, InFlightType
    <3>2. ASSUME NEW a \in 0..Lookback[u]
          PROVE  UpTo(recent[u], a) <= UpTo(recent[w], a) + InFlight(w)
      <4>1. a \in Int
        BY LookbackType
      <4>2. recent[u] = recent[w] /\ recent[u] = <<>>
        BY <2>1
      <4>3. recent[u] \in Histories(u)
        BY <4>2 DEF Histories
      <4>4. UpTo(recent[u], a) \in Nat
        BY <4>1, <4>3, UpToType
      <4> QED
        BY <3>1, <4>2, <4>4
    <3> QED
      BY <3>2 DEF Lags
  <2> QED
    BY <2>3 DEF Nested, Windows
<1>2. WindowsOK /\ RecordersOK /\ RecordersOK' /\ Nested /\ [Next]_vars => Nested'
  <2> SUFFICES ASSUME WindowsOK, RecordersOK, RecordersOK', Nested, [Next]_vars PROVE Nested'
    OBVIOUS
  <2>1. After["short"] = "medium" /\ After["medium"] = "long"
    BY DEF After
  <2>2. Lookback["short"] <= Lookback["medium"] /\ Lookback["medium"] <= Lookback["long"]
    BY TrackerAssumptions
  <2>3. {"short", "medium", "long"} = Windows
    BY DEF Windows
  <2> QED
    BY <2>1, <2>2, <2>3, LagsStep DEF Nested
<1> QED
  BY <1>1, <1>2, WindowsAlways, PTL DEF Spec

\* Record updates the windows one after the other, each under its own lock, so that a
\* reader may find a cost in a shorter window that a longer one does not have yet: the
\* longer one lags by no more than the costs that are being recorded.
THEOREM WindowsAlwaysNested == Spec => []WindowsNested
<1>1. ASSUME WindowsOK, RecordersOK, Nested PROVE WindowsNested
  <2>1. ASSUME NEW u \in Windows, NEW w \in Windows, Lookback[u] <= Lookback[w], Lags(u, w)
        PROVE  Sum(u) <= Sum(w) + InFlight(w)
    <3>1. Aligned(windows[u], recent[u], u) /\ Aligned(windows[w], recent[w], w)
      BY <1>1 DEF WindowsOK
    <3>2. Sum(u) = UpTo(recent[u], Lookback[u]) /\ Sum(w) = UpTo(recent[w], Lookback[w])
      BY <3>1, SumOfAligned, UpToLookback
    <3>3. Lookback[u] \in Nat /\ Lookback[w] \in Nat /\ Lookback[u] \in Int /\ Lookback[w] \in Int
      BY LookbackType
    <3>4. recent[u] \in Histories(u) /\ recent[w] \in Histories(w)
      BY <3>1 DEF Aligned
    <3>5. UpTo(recent[w], Lookback[u]) <= UpTo(recent[w], Lookback[w])
      BY <2>1, <3>3, <3>4, UpToGrows
    <3>6. /\ UpTo(recent[u], Lookback[u]) \in Nat /\ UpTo(recent[w], Lookback[u]) \in Nat
          /\ UpTo(recent[w], Lookback[w]) \in Nat /\ InFlight(w) \in Nat
      BY <1>1, <3>3, <3>4, UpToType, InFlightType, Zenon
    <3>7. UpTo(recent[u], Lookback[u]) <= UpTo(recent[w], Lookback[u]) + InFlight(w)
      <4>1. Lookback[u] \in 0..Lookback[u]
        BY <3>3
      <4> QED
        BY <2>1, <4>1 DEF Lags
    <3> QED
      BY <3>2, <3>5, <3>6, <3>7
  <2>2. Lookback["short"] <= Lookback["medium"] /\ Lookback["medium"] <= Lookback["long"]
    BY TrackerAssumptions
  <2>3. {"short", "medium", "long"} = Windows
    BY DEF Windows
  <2> QED
    BY <1>1, <2>1, <2>2, <2>3 DEF WindowsNested, Nested
<1> QED
  BY <1>1, NestedAlways, PTL
-----------------------------------------------------------------------------
Evaluations == [pc: {"idle", "current", "short", "medium", "score"}, base: Nat, now: Nat,
                velocity: Percents, accel: Nat, calm: BOOLEAN, exposure: Nat \X Nat,
                verdict: {"none", "allow", "throttle", "block"}]

\* An evaluation that began in calm and met no spend has read nothing but zeros.
StaysCalm(e) == /\ e.verdict \in {"none", "allow"}
                /\ e.pc # "idle" => CostOf(recent["short"]) = 0
                /\ e.pc \in {"short", "medium", "score"} => e.velocity = 0
                /\ e.pc = "medium" => e.now = 0
                /\ e.pc = "score" => e.accel = 0

NearLimit(exposure) == BudgetSub(exposure) >= 9900

EvaluationOK == /\ evaluation \in Evaluations
                /\ evaluation.verdict = "block" => NearLimit(evaluation.exposure)
                /\ evaluation.calm => StaysCalm(evaluation)

\* The subscores are percentages, and zero without velocity or acceleration.
LEMMA VelocitySubType ==
    ASSUME NEW base \in Nat, NEW short \in Nat
    PROVE  VelocitySub(base, short) \in Percents /\ (short = 0 => VelocitySub(base, short) = 0)
<1>1. Clamp01(1, 20) \in Percents
  BY ClampRange
<1>2. base > 0 => 20 * base \in Nat \ {0}
  OBVIOUS
<1>3. base > 0 => Clamp01(short, 20 * base) \in Percents
  BY <1>2, ClampRange
<1>4. VelocitySub(base, short) \in Percents
  BY <1>1, <1>3 DEF VelocitySub, Percents
<1>5. short = 0 => VelocitySub(base, short) = 0
  BY DEF VelocitySub, Clamp01
<1> QED
  BY <1>4, <1>5

\* The acceleration subscore is a percentage, zero without acceleration.
LEMMA AccelSubType ==
    ASSUME NEW base \in Nat, NEW accel \in Nat
    PROVE  AccelSub(base, accel) \in Percents /\ (accel = 0 => AccelSub(base, accel) = 0)
<1>1. (IF base > 0 THEN base ELSE Scale) \in Nat \ {0} /\ accel \in Int
  BY TrackerAssumptions
<1>2. AccelSub(base, accel) \in Percents
  BY <1>1, ClampRange DEF AccelSub
<1>3. accel = 0 => AccelSub(base, accel) = 0
  BY DEF AccelSub, Clamp01
<1> QED
  BY <1>2, <1>3

\* The budget subscore is a percentage.
LEMMA BudgetSubType ==
    ASSUME NEW x \in Nat \X Nat
    PROVE  BudgetSub(x) \in Percents
<1> DEFINE n == x[1]
           d == x[2]
<1>1. n \in Int /\ d \in Nat
  OBVIOUS
<1> HIDE DEF n, d
<1>2. CASE d > 0
  <2>1. d \in Nat \ {0}
    BY <1>1, <1>2
  <2>2. Clamp01(n, d) \in Percents
    BY <1>1, <2>1, ClampRange
  <2> QED
    BY <1>2, <2>2 DEF BudgetSub, n, d
<1>3. CASE ~(d > 0)
  BY <1>3 DEF BudgetSub, Percents, d
<1> QED
  BY <1>2, <1>3

\* A window without recent spend has none after a tick.
LEMMA CalmTick ==
    ASSUME NEW w \in Windows, Aligned(windows[w], recent[w], w), CostOf(recent[w]) = 0
    PROVE  CostOf(StillRecent(w)) = 0
<1> DEFINE L == Lookback[w]
<1>1. L \in Nat /\ L - 1 \in Nat /\ L <= L /\ L - 1 <= L /\ L - 1 \in Int
  BY LookbackType
<1>2. recent[w] \in Histories(w) /\ CostOf(recent[w]) = UpTo(recent[w], L)
  BY UpToLookback
<1>3. CostOf(StillRecent(w)) = UpTo(StillRecent(w), L)
  BY AlignedTick, UpToLookback
<1>4. UpTo(StillRecent(w), L) = UpTo(recent[w], L - 1)
  BY <1>1, <1>2, UpToTick
<1>5. UpTo(recent[w], L - 1) \in Nat /\ UpTo(recent[w], L - 1) <= UpTo(recent[w], L)
  BY <1>1, <1>2, UpToType, UpToGrows, ZenonT(60)
<1> QED
  BY <1>2, <1>3, <1>4, <1>5

\* An action that leaves the evaluation and the short window's history alone.
LEMMA EvaluationKept ==
    ASSUME EvaluationOK, UNCHANGED evaluation, recent'["short"] = recent["short"]
    PROVE  EvaluationOK'
BY DEF EvaluationOK, StaysCalm, NearLimit, BudgetSub, Clamp01, CostOf

\* An evaluation, field by field.
Snapshot(pc, base, now, velocity, accel, calm, exposure, verdict) ==
    [pc |-> pc, base |-> base, now |-> now, velocity |-> velocity, accel |-> accel,
     calm |-> calm, exposure |-> exposure, verdict |-> verdict]

\* What the assignments of Evaluate make of it.
LEMMA SnapshotUpdates ==
    ASSUME NEW e \in Evaluations, NEW x
    PROVE  /\ [e EXCEPT !.pc = "short", !.base = 0, !.velocity = x]
                 = Snapshot("short", 0, e.now, x, e.accel, e.calm, e.exposure, e.verdict)
           /\ [e EXCEPT !.pc = "medium", !.now = x]
                 = Snapshot("medium", e.base, x, e.velocity, e.accel, e.calm, e.exposure, e.verdict)
           /\ [e EXCEPT !.pc = "score", !.now = 0, !.accel = x]
                 = Snapshot("score", e.base, 0, e.velocity, x, e.calm, e.exposure, e.verdict)
           /\ [e EXCEPT !.calm = FALSE]
                 = Snapshot(e.pc, e.base, e.now, e.velocity, e.accel, FALSE, e.exposure, e.verdict)
<1> DEFINE At(pc) == [e EXCEPT !.pc = pc]
           Now(pc, now) == [At(pc) EXCEPT !.now = now]
           Used == [At("short") EXCEPT !.base = 0]
<1>1. \A pc : At(pc) = Snapshot(pc, e.base, e.now, e.velocity, e.accel, e.calm, e.exposure, e.verdict)
  BY DEF Snapshot, Evaluations
<1> HIDE DEF At
<1>2. Used = Snapshot("short", 0, e.now, e.velocity, e.accel, e.calm, e.exposure, e.verdict)
  BY <1>1 DEF Snapshot
<1> HIDE DEF Used
<1>3. [Used EXCEPT !.velocity = x]
         = Snapshot("short", 0, e.now, x, e.accel, e.calm, e.exposure, e.verdict)
  BY <1>2 DEF Snapshot
<1>4. \A pc, now : Now(pc, now)
         = Snapshot(pc, e.base, now, e.velocity, e.accel, e.calm, e.exposure, e.verdict)
  BY <1>1 DEF Snapshot
<1> HIDE DEF Now
<1>5. [Now("score", 0) EXCEPT !.accel = x]
         = Snapshot("score", e.base, 0, e.velocity, x, e.calm, e.exposure, e.verdict)
  BY <1>4 DEF Snapshot
<1>6. \A calm : [e EXCEPT !.calm = calm]
         = Snapshot(e.pc, e.base, e.now, e.velocity, e.accel, calm, e.exposure, e.verdict)
  BY DEF Snapshot, Evaluations
<1> QED
  BY <1>3, <1>4, <1>5, <1>6, Zenon DEF At, Now, Used

\* ... and of the evaluation's zero value.
LEMMA SnapshotStarts ==
    ASSUME NEW x, NEW y
    PROVE  [NoEvaluation EXCEPT !.pc = "current", !.base = x, !.calm = y]
              = Snapshot("current", x, 0, 0, 0, y, <<0, 0>>, "none")
<1> DEFINE n == NoEvaluation
           b == FALSE
           c == <<0, 0>>
           p == [n EXCEPT !.pc = "current"]
           q == [p EXCEPT !.base = x]
<1>a. n = Snapshot("idle", 0, 0, 0, 0, b, c, "none")
  BY DEF Snapshot, NoEvaluation
<1> HIDE DEF b, c, n
<1>1. p = Snapshot("current", 0, 0, 0, 0, b, c, "none")
  BY <1>a DEF Snapshot
<1> HIDE DEF p
<1>2. q = Snapshot("current", x, 0, 0, 0, b, c, "none")
  BY <1>1 DEF Snapshot
<1> HIDE DEF q
<1>3. [q EXCEPT !.calm = y] = Snapshot("current", x, 0, 0, 0, y, c, "none")
  BY <1>2 DEF Snapshot
<1> QED
  BY <1>3 DEF n, c, p, q

\* Its end: Evaluate keeps the exposure and the verdict.
LEMMA SnapshotEnds ==
    ASSUME NEW x, NEW y, NEW z
    PROVE  [NoEvaluation EXCEPT !.calm = x, !.exposure = y, !.verdict = z]
              = Snapshot("idle", 0, 0, 0, 0, x, y, z)
<1> DEFINE n == NoEvaluation
           b == FALSE
           c == <<0, 0>>
           s == [n EXCEPT !.calm = x]
           t == [s EXCEPT !.exposure = y]
<1>a. n = Snapshot("idle", 0, 0, 0, 0, b, c, "none")
  BY DEF Snapshot, NoEvaluation
<1> HIDE DEF b, c, n
<1>1. s = Snapshot("idle", 0, 0, 0, 0, x, c, "none")
  BY <1>a DEF Snapshot
<1> HIDE DEF s
<1>2. t = Snapshot("idle", 0, 0, 0, 0, x, y, "none")
  BY <1>1 DEF Snapshot
<1> HIDE DEF t
<1>3. [t EXCEPT !.verdict = z] = Snapshot("idle", 0, 0, 0, 0, x, y, z)
  BY <1>2 DEF Snapshot
<1> QED
  BY <1>3 DEF n, s, t

\* What a step that sets the evaluation has to establish.
LEMMA EvaluationSet ==
    ASSUME NEW pc \in {"idle", "current", "short", "medium", "score"}, NEW base \in Nat, NEW now \in Nat,
           NEW velocity \in Percents, NEW accel \in Nat, NEW calm \in BOOLEAN,
           NEW exposure \in Nat \X Nat, NEW verdict \in {"none", "allow", "throttle", "block"},
           evaluation' = Snapshot(pc, base, now, velocity, accel, calm, exposure, verdict),
           verdict = "block" => NearLimit(exposure),
           calm => /\ verdict \in {"none", "allow"}
                   /\ pc # "idle" => CostOf(recent'["short"]) = 0
                   /\ pc \in {"short", "medium", "score"} => velocity = 0
                   /\ pc = "medium" => now = 0
                   /\ pc = "score" => accel = 0
    PROVE  EvaluationOK'
<1>1. /\ evaluation'.pc = pc /\ evaluation'.now = now /\ evaluation'.velocity = velocity
      /\ evaluation'.accel = accel /\ evaluation'.calm = calm /\ evaluation'.exposure = exposure
      /\ evaluation'.verdict = verdict
  BY DEF Snapshot
<1>2. evaluation' \in Evaluations
  BY DEF Snapshot, Evaluations
<1>3. evaluation'.verdict = "block" => NearLimit(evaluation'.exposure)
  BY <1>1
<1>4. evaluation'.calm => StaysCalm(evaluation)'
  BY <1>1 DEF StaysCalm, CostOf
<1> QED
  BY <1>1, <1>2, <1>3, <1>4 DEF EvaluationOK

\* The reads of Evaluate.
LEMMA EvaluationReads ==
    ASSUME WindowsOK, BaselineOK, EvaluationOK, ReadBaseline \/ ReadCurrent \/ ReadShort \/ ReadMedium
    PROVE  EvaluationOK'
<1> DEFINE e == evaluation
           v == Velocity("short")
           m == Velocity("medium")
           spend == CostOf(recent["short"])
           base == e.base
           now == e.now
           velocity == e.velocity
           accel == e.accel
           calm == e.calm
           exposure == e.exposure
           verdict == e.verdict
<1>a. baseline \in Nat /\ e \in Evaluations
  BY DEF EvaluationOK, BaselineOK
<1>b. "short" \in Windows /\ "medium" \in Windows
  BY DEF Windows
<1>c. v \in Nat /\ m \in Nat /\ (spend = 0 => v = 0)
  BY <1>b, VelocityType DEF WindowsOK
<1>d. CostOf(recent'["short"]) = spend
  BY DEF ReadBaseline, ReadCurrent, ReadShort, ReadMedium
<1>e. verdict = "block" => NearLimit(exposure)
  BY DEF EvaluationOK
<1>f. /\ base \in Nat /\ now \in Nat /\ velocity \in Percents /\ accel \in Nat
      /\ calm \in BOOLEAN /\ exposure \in Nat \X Nat /\ verdict \in {"none", "allow", "throttle", "block"}
  BY <1>a DEF Evaluations
<1>g. 0 \in Nat /\ 0 \in Percents /\ <<0, 0>> \in Nat \X Nat
  BY DEF Percents
<1>h. ASSUME calm, e.pc # "idle" PROVE verdict \in {"none", "allow"} /\ spend = 0
  BY <1>h DEF EvaluationOK, StaysCalm
<1>i. ASSUME calm, e.pc \in {"short", "medium"} PROVE velocity = 0
  BY <1>i DEF EvaluationOK, StaysCalm
<1>j. ASSUME calm, e.pc = "medium" PROVE now = 0
  BY <1>j DEF EvaluationOK, StaysCalm
<1> HIDE DEF v, m, spend, base, now, velocity, accel, calm, exposure, verdict
<1>1. CASE ReadBaseline
  <2> DEFINE quiet == spend = 0
  <2>1. evaluation' = [NoEvaluation EXCEPT !.pc = "current", !.base = baseline, !.calm = quiet]
    BY <1>1 DEF ReadBaseline, spend
  <2>2. quiet \in BOOLEAN
    OBVIOUS
  <2>3. quiet => spend = 0
    OBVIOUS
  <2> HIDE DEF quiet
  <2>4. evaluation' = Snapshot("current", baseline, 0, 0, 0, quiet, <<0, 0>>, "none")
    BY <2>1, SnapshotStarts, Zenon
  <2> QED
    BY <1>a, <1>d, <1>g, <2>2, <2>3, <2>4, EvaluationSet
<1>2. CASE ReadCurrent
  <2> DEFINE sub == VelocitySub(base, v)
  <2>1. evaluation' = [e EXCEPT !.pc = "short", !.base = 0, !.velocity = sub] /\ e.pc = "current"
    BY <1>2 DEF ReadCurrent, v, base
  <2>2. sub \in Percents /\ (v = 0 => sub = 0)
    BY <1>c, <1>f, VelocitySubType
  <2> HIDE DEF sub
  <2>3. evaluation' = Snapshot("short", 0, now, sub, accel, calm, exposure, verdict)
    BY <1>a, <2>1, SnapshotUpdates, Zenon DEF base, now, velocity, accel, calm, exposure, verdict
  <2>4. calm => verdict \in {"none", "allow"} /\ spend = 0 /\ sub = 0
    BY <1>c, <1>h, <2>1, <2>2
  <2> QED
    BY <1>d, <1>e, <1>f, <1>g, <2>2, <2>3, <2>4, EvaluationSet, Zenon
<1>3. CASE ReadShort
  <2>1. evaluation' = [e EXCEPT !.pc = "medium", !.now = v] /\ e.pc = "short"
    BY <1>3 DEF ReadShort, v
  <2>2. evaluation' = Snapshot("medium", base, v, velocity, accel, calm, exposure, verdict)
    BY <1>a, <2>1, SnapshotUpdates, Zenon DEF base, now, velocity, accel, calm, exposure, verdict
  <2>3. calm => verdict \in {"none", "allow"} /\ spend = 0 /\ velocity = 0 /\ v = 0
    BY <1>c, <1>h, <1>i, <2>1
  <2> QED
    BY <1>c, <1>d, <1>e, <1>f, <2>2, <2>3, EvaluationSet
<1>4. CASE ReadMedium
  <2> DEFINE a == Max({0, now - m})
  <2>1. evaluation' = [e EXCEPT !.pc = "score", !.now = 0, !.accel = a] /\ e.pc = "medium"
    BY <1>4 DEF ReadMedium, m, now
  <2>2. a \in Nat /\ (now = 0 => a = 0)
    <3> DEFINE d == now - m
    <3>1. 0 \in Int /\ d \in Int /\ (now = 0 => d <= 0)
      BY <1>c, <1>f
    <3> HIDE DEF d
    <3>2. Max({0, d}) = IF 0 <= d THEN d ELSE 0
      BY <3>1, MinMaxOfTwo
    <3>3. Max({0, d}) \in Nat /\ (now = 0 => Max({0, d}) = 0)
      BY <3>1, <3>2
    <3> QED
      BY <3>3 DEF d
  <2> HIDE DEF a
  <2>3. evaluation' = Snapshot("score", base, 0, velocity, a, calm, exposure, verdict)
    BY <1>a, <2>1, SnapshotUpdates, Zenon DEF base, now, velocity, accel, calm, exposure, verdict
  <2>4. calm => verdict \in {"none", "allow"} /\ spend = 0 /\ velocity = 0 /\ a = 0
    BY <1>h, <1>i, <1>j, <2>1, <2>2
  <2> QED
    BY <1>d, <1>e, <1>f, <1>g, <2>2, <2>3, <2>4, EvaluationSet
<1> QED
  BY <1>1, <1>2, <1>3, <1>4

\* The verdict: a score without velocity and acceleration allows, and one that blocks
\* needs the budget.
LEMMA EvaluationDecides ==
    ASSUME BaselineOK, EvaluationOK, NEW exposure \in Exposures, Decide(exposure)
    PROVE  EvaluationOK'
<1> DEFINE e == evaluation
           calm == e.calm
           sub == AccelSub(baseline, e.accel)
           verdict == Verdict(Score(exposure, e.velocity, sub))
<1>1. /\ baseline \in Nat /\ e.velocity \in Percents /\ e.accel \in Nat
      /\ calm \in BOOLEAN /\ exposure \in Nat \X Nat
  BY TrackerAssumptions DEF EvaluationOK, BaselineOK, Evaluations
<1>2. sub \in Percents /\ (e.accel = 0 => sub = 0)
  BY <1>1, AccelSubType
<1>3. BudgetSub(exposure) \in Percents
  BY <1>1, BudgetSubType
<1>4. e.pc = "score" /\ (calm => e.velocity = 0 /\ e.accel = 0)
  BY DEF Decide, EvaluationOK, StaysCalm
<1>5. evaluation' = [NoEvaluation EXCEPT !.calm = calm, !.exposure = exposure, !.verdict = verdict]
  BY DEF Decide
<1> HIDE DEF sub
<1>6. /\ verdict \in {"allow", "throttle", "block"}
      /\ e.velocity = 0 /\ sub = 0 => verdict = "allow"
      /\ verdict = "block" => NearLimit(exposure)
  BY <1>1, <1>2, <1>3, Weights DEF NearLimit
<1> HIDE DEF calm, verdict
<1>7. evaluation' = Snapshot("idle", 0, 0, 0, 0, calm, exposure, verdict)
  BY <1>5, SnapshotEnds, Zenon
<1>8. 0 \in Nat /\ 0 \in Percents /\ verdict \in {"none", "allow", "throttle", "block"}
  BY <1>6 DEF Percents
<1>9. calm => verdict \in {"none", "allow"}
  BY <1>2, <1>4, <1>6
<1> QED
  BY <1>1, <1>6, <1>7, <1>8, <1>9, EvaluationSet

\* Evaluations read windows that time and other requests change.
LEMMA EvaluationStep ==
    ASSUME WindowsOK, BaselineOK, EvaluationOK, [Next]_vars
    PROVE  EvaluationOK'
<1>a. recent = [w \in Windows |-> recent[w]]
  BY DEF WindowsOK
<1>b. "short" \in Windows
  BY DEF Windows
<1>1. ASSUME NEW r \in 1..Recorders, NEW w \in Windows, RecordIn(r, w) PROVE EvaluationOK'
  <2>1. CASE w = "short"
    <3> DEFINE e == evaluation
    <3>1. e \in Evaluations /\ (e.verdict = "block" => NearLimit(e.exposure))
      BY DEF EvaluationOK
    <3>2. evaluation' = [e EXCEPT !.calm = FALSE]
      BY <1>1, <2>1 DEF RecordIn
    <3>3. evaluation' = Snapshot(e.pc, e.base, e.now, e.velocity, e.accel, FALSE, e.exposure, e.verdict)
      BY <3>1, <3>2, SnapshotUpdates, Zenon
    <3>4. /\ e.pc \in {"idle", "current", "short", "medium", "score"} /\ e.base \in Nat /\ e.now \in Nat
          /\ e.velocity \in Percents /\ e.accel \in Nat /\ e.exposure \in Nat \X Nat
          /\ e.verdict \in {"none", "allow", "throttle", "block"}
      BY <3>1 DEF Evaluations
    <3> QED
      BY <3>1, <3>3, <3>4, EvaluationSet, ZenonT(60)
  <2>2. CASE w # "short"
    <3>1. UNCHANGED evaluation /\ recent'["short"] = recent["short"]
      BY <1>1, <1>a, <1>b, <2>2 DEF RecordIn
    <3> QED
      BY <3>1, EvaluationKept
  <2> QED
    BY <2>1, <2>2
<1>2. CASE Tick
  <2>1. UNCHANGED evaluation /\ recent'["short"] = StillRecent("short")
    BY <1>2, <1>b DEF Tick
  <2>2. CostOf(recent["short"]) = 0 => CostOf(recent'["short"]) = 0
    BY <1>b, <2>1, CalmTick DEF WindowsOK
  <2>3. evaluation.calm => StaysCalm(evaluation)'
    BY <2>1, <2>2 DEF EvaluationOK, StaysCalm
  <2>4. evaluation.verdict = "block" => NearLimit(evaluation.exposure)'
    BY <2>1 DEF EvaluationOK, NearLimit, BudgetSub, Clamp01
  <2> QED
    BY <2>1, <2>3, <2>4 DEF EvaluationOK
<1>3. CASE ReadBaseline \/ ReadCurrent \/ ReadShort \/ ReadMedium
  BY <1>3, EvaluationReads
<1>4. ASSUME NEW exposure \in Exposures, Decide(exposure) PROVE EvaluationOK'
  BY <1>4, EvaluationDecides
<1>5. CASE UNCHANGED <<evaluation, recent>>
  BY <1>5, EvaluationKept
<1> QED
  BY <1>1, <1>2, <1>3, <1>4, <1>5 DEF Next, vars, BeginRecord, RecordBaseline

\* What an evaluation has read is consistent with its windows, in every reachable state.
LEMMA EvaluationAlways == Spec => [](WindowsOK /\ RecordersOK /\ BaselineOK /\ EvaluationOK)
<1>1. Init => EvaluationOK
  <2> SUFFICES ASSUME Init PROVE EvaluationOK
    OBVIOUS
  <2>1. evaluation = NoEvaluation
    BY DEF Init
  <2>2. /\ evaluation.verdict = "none" /\ ~evaluation.calm
    BY <2>1 DEF NoEvaluation
  <2>3. evaluation \in Evaluations
    BY <2>1 DEF NoEvaluation, Evaluations, Percents
  <2> QED
    BY <2>2, <2>3 DEF EvaluationOK
<1> QED
  BY <1>1, BaselineAlways, EvaluationStep, PTL DEF Spec

\* Recovery: an evaluation that starts with no spend in the short lookback, and during
\* which none is recorded there, is never throttled or blocked by its score, however
\* its separate reads of the baseline and of the windows interleave with records of
\* other windows, baseline updates and time.
THEOREM CalmAlwaysAllowed == Spec => []CalmIsAllowed
<1>1. EvaluationOK => CalmIsAllowed
  BY DEF EvaluationOK, StaysCalm, CalmIsAllowed
<1> QED
  BY <1>1, EvaluationAlways, PTL

\* The default weights: with one request in flight, velocity and acceleration at their
\* worst do not block; a blocked request's budget is committed to 99% of its limit.
THEOREM BlockAlwaysNeedsBudget == Spec => []BlockNeedsBudget
<1>1. EvaluationOK => BlockNeedsBudget
  BY DEF EvaluationOK, NearLimit, BlockNeedsBudget
<1> QED
  BY <1>1, EvaluationAlways, PTL

\* The windows hold samples, the baseline is a velocity, and each request is at a point
\* of Record or of Evaluate.
THEOREM TrackerAlwaysTyped == Spec => []TypeOK
<1>1. ASSUME WindowsOK, RecordersOK, BaselineOK, EvaluationOK PROVE TypeOK
  <2>1. \A w \in Windows : windows[w] \in Seq(Samples) /\ recent[w] \in Seq(Samples \cup {Spent(w)})
    BY <1>1 DEF WindowsOK, Aligned, Histories
  <2>2. /\ evaluation.pc \in {"idle", "current", "short", "medium", "score"}
        /\ evaluation.verdict \in {"none", "allow", "throttle", "block"}
    BY <1>1 DEF EvaluationOK, Evaluations
  <2> QED
    BY <1>1, <2>1, <2>2 DEF TypeOK, RecordersOK, BaselineOK
<1> QED
  BY <1>1, EvaluationAlways, PTL
=============================================================================
