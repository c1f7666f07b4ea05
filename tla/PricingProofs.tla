--------------------------- MODULE PricingProofs ----------------------------
(***************************************************************************)
(* Proofs about the pricing registry and a request priced by it, for any   *)
(* number of versions, any times, price lists and width of an amount.      *)
(***************************************************************************)
EXTENDS Pricing, SumsProofs, TLAPS

\* A version added with an end keeps it, one without gets an end of a later version.
RatesOK ==
    /\ rates \in Seq(Rates)
    /\ \A i \in DOMAIN rates : rates[i].ended => ~IsZero(rates[i].until)

\* The registry starts empty.
LEMMA RatesInit == Init => RatesOK
BY DEF Init, RatesOK

\* What AddRate leaves: the older versions, some of them ended, and the new one.
LEMMA AddRateShape ==
    ASSUME RatesOK, NEW rate \in Rates, AddRate(rate)
    PROVE  /\ rates' \in Seq(Rates) /\ Len(rates') = Len(rates) + 1
           /\ Len(rates) \in Nat /\ DOMAIN rates = 1..Len(rates) /\ DOMAIN rates' = 1..(Len(rates) + 1)
           /\ rates'[Len(rates) + 1] = rate
           /\ \A i \in 1..Len(rates) : rates[i] \in Rates /\ rates'[i] = Closed(rates[i], rate)
<1> DEFINE old == [i \in DOMAIN rates |-> Closed(rates[i], rate)]
<1>1. rates \in Seq(Rates) /\ Len(rates) \in Nat /\ DOMAIN rates = 1..Len(rates)
  BY DEF RatesOK
<1>2. \A i \in 1..Len(rates) : rates[i] \in Rates
  BY <1>1
<1>3. \A r \in Rates : Closed(r, rate) \in Rates
  BY DEF Closed, Rates
<1>4. old \in Seq(Rates) /\ Len(old) = Len(rates) /\ \A i \in 1..Len(rates) : old[i] = Closed(rates[i], rate)
  BY <1>1, <1>2, <1>3
<1> HIDE DEF old
<1>5. rates' = Append(old, rate)
  BY DEF AddRate, old
<1>6. /\ rates' \in Seq(Rates) /\ Len(rates') = Len(rates) + 1
      /\ rates'[Len(rates) + 1] = rate /\ \A i \in 1..Len(rates) : rates'[i] = old[i]
  BY <1>1, <1>4, <1>5
<1> QED
  BY <1>1, <1>2, <1>4, <1>6

\* Only AddRate writes the list, and only with versions as Rates has them.
LEMMA RatesWritten ==
    ASSUME [Next]_vars, rates' # rates
    PROVE  \E rate \in Rates : AddRate(rate) /\ (rate.ended <=> ~IsZero(rate.until))
<1>1. PICK f \in 0..MaxTime, u \in Untils, p \in Prices :
          AddRate([from |-> f, until |-> u, ended |-> ~IsZero(u), price |-> p])
  BY Zenon DEF Next, vars, Arrive, Charge, Finish
<1>2. [from |-> f, until |-> u, ended |-> ~IsZero(u), price |-> p] \in Rates
  BY PricingAssumptions DEF Rates
<1> QED
  BY <1>1, <1>2, Zenon

\* AddRate keeps the versions well-formed: one that has ended has an end.
LEMMA RatesStep == RatesOK /\ [Next]_vars => RatesOK'
<1> SUFFICES ASSUME RatesOK, [Next]_vars PROVE RatesOK'
  OBVIOUS
<1>1. CASE rates' = rates
  BY <1>1 DEF RatesOK
<1>2. ASSUME NEW rate \in Rates, AddRate(rate), rate.ended <=> ~IsZero(rate.until) PROVE RatesOK'
  <2>1. /\ rates' \in Seq(Rates) /\ Len(rates) \in Nat /\ DOMAIN rates = 1..Len(rates)
        /\ DOMAIN rates' = 1..(Len(rates) + 1) /\ rates'[Len(rates) + 1] = rate
        /\ \A i \in 1..Len(rates) : rates[i] \in Rates /\ rates'[i] = Closed(rates[i], rate)
    BY <1>2, AddRateShape
  <2>2. \A r \in Rates : (r.ended => ~IsZero(r.until))
                            => (Closed(r, rate).ended => ~IsZero(Closed(r, rate).until))
    BY DEF Closed, Rates, IsZero
  <2> QED
    BY <1>2, <2>1, <2>2 DEF RatesOK
<1> QED
  BY <1>1, <1>2, RatesWritten

\* "A pricing change must never silently rewrite past accounting": no AddRate changes
\* what RateAt returns for a time before the new version's EffectiveFrom, in whatever
\* order versions are added.
THEOREM HistoryAlwaysStable == Spec => HistoryStable
<1>1. ASSUME RatesOK, [Next]_vars
      PROVE  [\A t \in Times : (\A i \in DOMAIN rates' \ DOMAIN rates : t < rates'[i].from)
                                  => RateAt(t)' = RateAt(t)]_rates
  <2>1. ASSUME NEW rate \in Rates, AddRate(rate), NEW t \in Times,
               \A i \in DOMAIN rates' \ DOMAIN rates : t < rates'[i].from
        PROVE  RateAt(t)' = RateAt(t)
    <3>1. /\ Len(rates') = Len(rates) + 1 /\ Len(rates) \in Nat /\ DOMAIN rates = 1..Len(rates)
          /\ DOMAIN rates' = 1..(Len(rates) + 1) /\ rates'[Len(rates) + 1] = rate
          /\ \A i \in 1..Len(rates) : rates[i] \in Rates /\ rates'[i] = Closed(rates[i], rate)
      BY <1>1, <2>1, AddRateShape
    <3>2. t < rate.from
      BY <2>1, <3>1
    <3>3. \A r \in Rates : ActiveAt(Closed(r, rate), t) <=> ActiveAt(r, t)
      BY <3>2 DEF ActiveAt, Closed, IsZero, Rates, Times
    <3>4. ~ActiveAt(rate, t)
      BY <3>2 DEF ActiveAt
    <3>5. Active(t)' = {i \in DOMAIN rates' : ActiveAt(rates'[i], t)}
      BY DEF Active, ActiveAt, IsZero
    <3>6. \A i : i \in Active(t)' <=> i \in Active(t)
      BY <3>1, <3>3, <3>4, <3>5 DEF Active
    <3>7. Active(t)' = Active(t)
      BY <3>6
    <3> QED
      BY <3>7 DEF RateAt
  <2> QED
    BY <1>1, <2>1, RatesWritten
<1> QED
  BY <1>1, RatesInit, RatesStep, PTL DEF Spec, HistoryStable
-----------------------------------------------------------------------------
\* Versions added in order form a chain: each ends when the next one with a start
\* other than the zero time starts, and is open if there is none.
Chained ==
    InOrder => \A i \in DOMAIN rates :
        \/ /\ rates[i].until = 0
           /\ \A j \in DOMAIN rates : i < j => rates[j].from = 0
        \/ \E j \in DOMAIN rates : /\ i < j /\ rates[j].from # 0 /\ rates[i].until = rates[j].from
                                   /\ \A k \in DOMAIN rates : i < k /\ rates[k].from # 0 => j <= k

\* AddRate in order ends the versions that are open, or none if it starts at the zero
\* time; those that have ended keep their end.
LEMMA ChainedStep == RatesOK /\ Chained /\ [Next]_vars => Chained'
<1> SUFFICES ASSUME RatesOK, Chained, [Next]_vars, InOrder'
             PROVE  \A i \in DOMAIN rates' :
                        \/ /\ rates'[i].until = 0
                           /\ \A j \in DOMAIN rates' : i < j => rates'[j].from = 0
                        \/ \E j \in DOMAIN rates' :
                               /\ i < j /\ rates'[j].from # 0 /\ rates'[i].until = rates'[j].from
                               /\ \A k \in DOMAIN rates' : i < k /\ rates'[k].from # 0 => j <= k
  BY DEF Chained
<1>1. CASE rates' = rates
  BY <1>1, Zenon DEF Chained, InOrder
<1>2. ASSUME NEW rate \in Rates, AddRate(rate), rate.ended <=> ~IsZero(rate.until),
             NEW i \in DOMAIN rates'
      PROVE  \/ /\ rates'[i].until = 0
                /\ \A j \in DOMAIN rates' : i < j => rates'[j].from = 0
             \/ \E j \in DOMAIN rates' :
                    /\ i < j /\ rates'[j].from # 0 /\ rates'[i].until = rates'[j].from
                    /\ \A k \in DOMAIN rates' : i < k /\ rates'[k].from # 0 => j <= k
  <2> DEFINE n == Len(rates)
  <2>1. /\ Len(rates') = n + 1 /\ n \in Nat /\ DOMAIN rates = 1..n
        /\ DOMAIN rates' = 1..(n + 1) /\ rates'[n + 1] = rate
        /\ \A k \in 1..n : rates[k] \in Rates /\ rates'[k] = Closed(rates[k], rate)
    BY <1>2, AddRateShape
  <2>2. /\ \A k \in 1..(n + 1) : ~rates'[k].ended
        /\ \A j, k \in 1..(n + 1) : j < k => rates'[j].from <= rates'[k].from
    BY <2>1 DEF InOrder
  <2>3. \A k \in 1..n : /\ rates[k].from = rates'[k].from /\ rates[k].ended = rates'[k].ended
                        /\ rates[k].from \in 0..MaxTime
    BY <2>1, Zenon DEF Closed, Rates
  <2>4. InOrder
    BY <2>1, <2>2, <2>3 DEF InOrder
  <2>5. \A h \in 1..n :
            \/ rates[h].until = 0 /\ \A j \in 1..n : h < j => rates[j].from = 0
            \/ \E j \in 1..n : /\ h < j /\ rates[j].from # 0 /\ rates[h].until = rates[j].from
                              /\ \A k \in 1..n : h < k /\ rates[k].from # 0 => j <= k
    BY <2>1, <2>4, Zenon DEF Chained
  <2> HIDE DEF n
  <2>6. CASE i = n + 1
    BY <1>2, <2>1, <2>2, <2>6 DEF IsZero
  <2>7. CASE i \in 1..n /\ rates[i].until = 0 /\ \A j \in 1..n : i < j => rates[j].from = 0
    <3>1. rates[i].from <= rate.from
      BY <2>1, <2>2, <2>3, <2>7
    <3>2. rates[i] \in Rates /\ rate.from \in 0..MaxTime /\ rates[i].from \in 0..MaxTime
      BY <2>1, <2>7 DEF Rates
    <3>3. Closed(rates[i], rate).until = rate.from
      BY <2>7, <3>1, <3>2 DEF Closed, IsZero, Rates
    <3>4. /\ rates'[i].until = rate.from /\ i < n + 1 /\ n + 1 \in DOMAIN rates'
          /\ \A j \in 1..(n + 1) : i < j => rates'[j].from = 0 \/ j = n + 1
      BY <2>1, <2>3, <2>7, <3>3
    <3> QED
      BY <2>1, <3>2, <3>4
  <2>8. CASE i \in 1..n /\ \E j \in 1..n : /\ i < j /\ rates[j].from # 0 /\ rates[i].until = rates[j].from
                                          /\ \A k \in 1..n : i < k /\ rates[k].from # 0 => j <= k
    <3>1. PICK j \in 1..n : /\ i < j /\ rates[j].from # 0 /\ rates[i].until = rates[j].from
                            /\ \A k \in 1..n : i < k /\ rates[k].from # 0 => j <= k
      BY <2>8
    <3>2. rates'[i].until = rates[i].until
      BY <2>1, <2>8, <3>1, Zenon DEF Closed, IsZero
    <3>3. j \in DOMAIN rates' /\ rates'[j].from # 0 /\ rates'[i].until = rates'[j].from
      BY <2>1, <2>3, <3>1, <3>2
    <3>4. \A k \in DOMAIN rates' : i < k /\ rates'[k].from # 0 => j <= k
      BY <2>1, <2>3, <3>1
    <3> QED
      BY <3>1, <3>3, <3>4
  <2>9. i = n + 1 \/ i \in 1..n
    BY <1>2, <2>1
  <2> QED
    BY <2>5, <2>6, <2>7, <2>8, <2>9, Zenon
<1> QED
  BY <1>1, <1>2, RatesWritten

\* The rates of a model form a chain, in every reachable state.
LEMMA ChainedAlways == Spec => [](RatesOK /\ Chained)
<1>1. Init => Chained
  BY DEF Init, Chained
<1> QED
  BY <1>1, RatesInit, RatesStep, ChainedStep, PTL DEF Spec

\* In a chain, what has begun last by time t and has not been replaced is in effect,
\* and nothing else.
LEMMA LatestIsActive ==
    ASSUME RatesOK, Chained, InOrder, NEW t \in Times
    PROVE  Active(t) = {i \in Latest(t) : IsZero(rates[i].from) \/ \A j \in Latest(t) : j <= i}
<1> DEFINE n == Len(rates)
           L(i) == i \in 1..n /\ rates[i].from <= t
                   /\ \A j \in 1..n : rates[j].from <= t => rates[j].from <= rates[i].from
<1>1. n \in Nat /\ DOMAIN rates = 1..n /\ \A i \in 1..n : rates[i].from \in Nat /\ rates[i].until \in Nat
  <2>1. rates \in Seq(Rates) /\ n \in Nat /\ DOMAIN rates = 1..n
    BY DEF RatesOK
  <2>2. \A i \in 1..n : rates[i] \in Rates
    BY <2>1
  <2> QED
    BY <2>1, <2>2 DEF Rates
<1>2. \A i \in 1..n :
          \/ rates[i].until = 0 /\ \A j \in 1..n : i < j => rates[j].from = 0
          \/ \E j \in 1..n : /\ i < j /\ rates[j].from # 0 /\ rates[i].until = rates[j].from
                            /\ \A k \in 1..n : i < k /\ rates[k].from # 0 => j <= k
  BY <1>1, Zenon DEF Chained
<1>3. \A i, j \in 1..n : i < j => rates[i].from <= rates[j].from
  BY <1>1 DEF InOrder
<1>4. \A i : i \in Latest(t) <=> L(i)
  BY <1>1 DEF Latest
<1>5. t \in Nat
  BY DEF Times
<1> HIDE DEF n
<1>6. ASSUME NEW i \in 1..n, ActiveAt(rates[i], t)
      PROVE  L(i) /\ (rates[i].from = 0 \/ \A j : L(j) => j <= i)
  <2>1. rates[i].from <= t /\ (rates[i].until = 0 \/ t < rates[i].until)
    BY <1>1, <1>5, <1>6 DEF ActiveAt, IsZero
  <2>2. ASSUME NEW k \in 1..n, i < k, rates[k].from <= t PROVE rates[k].from = 0
    <3>1. CASE rates[i].until = 0 /\ \A j \in 1..n : i < j => rates[j].from = 0
      BY <2>2, <3>1
    <3>2. ASSUME NEW j \in 1..n, i < j, rates[j].from # 0, rates[i].until = rates[j].from,
                 \A h \in 1..n : i < h /\ rates[h].from # 0 => j <= h
          PROVE  rates[k].from = 0
      <4>1. t < rates[j].from
        BY <2>1, <3>2
      <4>2. rates[k].from # 0 => rates[j].from <= rates[k].from
        BY <1>1, <1>3, <2>2, <3>2
      <4> QED
        BY <1>1, <1>5, <2>2, <4>1, <4>2
    <3> QED
      BY <1>2, <3>1, <3>2
  <2>3. L(i)
    BY <1>1, <1>3, <2>1, <2>2
  <2>4. ASSUME NEW j, L(j), rates[i].from # 0 PROVE j <= i
    <3>1. CASE i < j
      BY <1>1, <1>3, <2>2, <2>4, <3>1
    <3> QED
      BY <1>1, <2>4, <3>1
  <2> HIDE DEF L
  <2> QED
    BY <2>3, <2>4, Zenon
<1>7. ASSUME NEW i \in 1..n, L(i), rates[i].from = 0 \/ \A j : L(j) => j <= i
      PROVE  ActiveAt(rates[i], t)
  <2>1. CASE rates[i].until = 0
    BY <1>1, <1>5, <1>7, <2>1 DEF ActiveAt, IsZero
  <2>2. ASSUME NEW j \in 1..n, i < j, rates[j].from # 0, rates[i].until = rates[j].from
        PROVE  ActiveAt(rates[i], t)
    <3>1. CASE rates[j].from <= t
      <4>1. rates[j].from <= rates[i].from
        BY <1>7, <2>2, <3>1
      <4>2. rates[j].from = rates[i].from /\ rates[i].from # 0
        BY <1>1, <1>3, <2>2, <4>1
      <4>3. L(j)
        BY <1>7, <2>2, <3>1, <4>2
      <4>4. j <= i
        BY <1>7, <4>2, <4>3
      <4> QED
        BY <2>2, <4>4
    <3>2. CASE ~(rates[j].from <= t)
      <4>1. t < rates[i].until /\ ~(t < rates[i].from)
        BY <1>1, <1>5, <1>7, <2>2, <3>2
      <4> QED
        BY <4>1 DEF ActiveAt
    <3> QED
      BY <3>1, <3>2
  <2> QED
    BY <1>2, <2>1, <2>2
<1>8. \A i : L(i) => i \in 1..n
  OBVIOUS
<1> HIDE DEF L
<1>9. \A i : i \in Active(t) <=> i \in 1..n /\ ActiveAt(rates[i], t)
  BY <1>1 DEF Active
<1>10. \A i : i \in Active(t) <=> L(i) /\ (rates[i].from = 0 \/ \A j : L(j) => j <= i)
  BY <1>6, <1>7, <1>8, <1>9, Zenon
<1> QED
  BY <1>4, <1>10 DEF IsZero

\* "History stays gapless and non-overlapping": of versions added in order exactly the
\* one that took effect last is in effect, or all that start at the zero time.
THEOREM AlwaysGapless == Spec => []Gapless
<1>1. RatesOK /\ Chained => Gapless
  BY LatestIsActive DEF Gapless
<1> QED
  BY <1>1, ChainedAlways, PTL

\* Of the versions that have begun last there is one that was added last.
LEMMA LatestHasLast ==
    ASSUME RatesOK, NEW t \in Times, Latest(t) # {}
    PROVE  \E m \in Latest(t) : \A i \in Latest(t) : i <= m
<1> DEFINE n == Len(rates)
           T == {k \in 0..n : n - k \in Latest(t)}
<1>1. n \in Nat /\ \A i \in Latest(t) : i \in 1..n
  BY DEF RatesOK, Latest
<1> HIDE DEF n
<1>2. \A i \in Latest(t) : n - i \in T
  <2> SUFFICES ASSUME NEW i \in Latest(t) PROVE n - i \in T
    OBVIOUS
  <2>1. i \in 1..n /\ n - i \in 0..n /\ n - (n - i) = i
    BY <1>1
  <2> QED
    BY <2>1
<1>3. T \in SUBSET Nat /\ T # {}
  <2>1. \A k \in T : k \in 0..n
    OBVIOUS
  <2> HIDE DEF T
  <2> QED
    BY <1>1, <1>2, <2>1
<1>4. PICK k \in T : \A y \in T : k <= y
  BY <1>3, LeastNatural, Zenon
<1>5. k \in 0..n /\ n - k \in Latest(t)
  BY <1>4
<1>6. \A i \in Latest(t) : k <= n - i
  BY <1>2, <1>4
<1>7. \A i \in Latest(t) : i <= n - k
  BY <1>1, <1>5, <1>6
<1> QED
  BY <1>5, <1>7

\* RateAt, which returns the first match of the list, returns a version that took
\* effect last, when versions are added in order: the one that was added last, or the
\* first of those that start at the zero time.
THEOREM RateAtAlwaysLatest == Spec => []RateAtIsLatest
<1>1. RatesOK /\ Chained => RateAtIsLatest
  <2> SUFFICES ASSUME RatesOK, Chained, InOrder, NEW t \in Times, Latest(t) # {}
               PROVE  /\ RateAt(t) \in Latest(t)
                      /\ \A i \in Latest(t) : IF IsZero(rates[i].from) THEN RateAt(t) <= i
                                                                       ELSE i <= RateAt(t)
    BY DEF RateAtIsLatest
  <2>1. Active(t) = {i \in Latest(t) : IsZero(rates[i].from) \/ \A j \in Latest(t) : j <= i}
    BY LatestIsActive
  <2>2. PICK m \in Latest(t) : \A i \in Latest(t) : i <= m
    BY LatestHasLast
  <2>3. m \in Active(t)
    BY <2>1, <2>2
  <2>4. Active(t) \in SUBSET Nat
    BY DEF Active, RatesOK
  <2>5. \E i \in Active(t) : \A j \in Active(t) : i <= j
    BY <2>3, <2>4, LeastNatural
  <2>6. RateAt(t) \in Active(t) /\ \A j \in Active(t) : RateAt(t) <= j
    BY <2>3, <2>5 DEF RateAt
  <2>7. \A i, j \in Latest(t) : IsZero(rates[i].from) <=> IsZero(rates[j].from)
    <3>1. rates \in Seq(Rates)
      BY DEF RatesOK
    <3>2. \A i \in DOMAIN rates : rates[i] \in Rates
      BY <3>1
    <3>3. \A i \in DOMAIN rates : rates[i].from \in Nat
      BY <3>2 DEF Rates
    <3> QED
      BY <3>3 DEF Latest, IsZero
  <2>8. ASSUME NEW i \in Latest(t), IsZero(rates[i].from) PROVE RateAt(t) <= i
    BY <2>1, <2>6, <2>8
  <2>9. ASSUME NEW i \in Latest(t), ~IsZero(rates[i].from) PROVE i <= RateAt(t)
    BY <2>1, <2>6, <2>7, <2>9
  <2> QED
    BY <2>1, <2>6, <2>8, <2>9
<1> QED
  BY <1>1, ChainedAlways, PTL
-----------------------------------------------------------------------------
\* What the request carries: one copy of a price, and what was computed from it.
PricedBy(q, price) ==
    /\ q.price = {price}
    /\ q.estimate = Estimate(price, Expected)
    /\ q.pc = "charged" => q.cost \in {Estimate(price, MockUsage), Estimate(price, GenericUsage)}

RequestOK ==
    request.pc \in {"estimated", "charged"} => \E price \in Prices : PricedBy(request, price)

\* Charge works with the copy the estimate was made from, whatever AddRate does.
LEMMA RequestStep == RatesOK /\ RequestOK /\ [Next]_vars => RequestOK'
<1> SUFFICES ASSUME RatesOK, RequestOK, [Next]_vars PROVE RequestOK'
  OBVIOUS
<1>1. ASSUME NEW t \in Times, Arrive(t) PROVE RequestOK'
  <2> DEFINE price == rates[RateAt(t)].price
  <2>1. RateAt(t) \in Active(t)
    <3>1. Active(t) # {} /\ Active(t) \in SUBSET Nat
      BY <1>1 DEF Arrive, RateAt, Active, RatesOK
    <3>2. \E i \in Active(t) : \A j \in Active(t) : i <= j
      BY <3>1, LeastNatural
    <3> QED
      BY <3>1, <3>2 DEF RateAt
  <2>2. RateAt(t) \in DOMAIN rates /\ rates \in Seq(Rates)
    BY <2>1 DEF Active, RatesOK
  <2>3. rates[RateAt(t)] \in Rates
    BY <2>2
  <2>4. price \in Prices
    BY <2>3 DEF Rates
  <2>5. request' = [pc |-> "estimated", price |-> {price}, estimate |-> Estimate(price, Expected), cost |-> 0]
    BY <1>1 DEF Arrive
  <2> HIDE DEF price
  <2>6. PricedBy(request', price)
    BY <2>5 DEF PricedBy
  <2> QED
    BY <2>4, <2>6 DEF RequestOK, PricedBy
<1>2. ASSUME NEW usage \in {MockUsage, GenericUsage}, Charge(usage) PROVE RequestOK'
  <2>1. PICK price \in Prices : PricedBy(request, price)
    BY <1>2 DEF Charge, RequestOK
  <2>2. request' = [request EXCEPT !.pc = "charged", !.cost = Estimate(price, usage)]
    BY <1>2, <2>1 DEF Charge, PricedBy
  <2>3. PricedBy(request', price)
    BY <1>2, <2>1, <2>2 DEF PricedBy
  <2> QED
    BY <2>3 DEF RequestOK, PricedBy
<1>3. CASE Finish
  BY <1>3 DEF Finish, NoRequest, RequestOK
<1>4. CASE UNCHANGED request
  BY <1>4 DEF RequestOK, PricedBy
<1> QED
  BY <1>1, <1>2, <1>3, <1>4, Zenon DEF Next, vars, AddRate

\* An amount that fits is what it is after every operation on amounts.
LEMMA WrapFits ==
    ASSUME NEW n \in Nat, n < Half
    PROVE  Wrap(n) = n
<1>1. Half \in Nat \ {0}
  BY PricingAssumptions DEF Half
<1>2. \A h \in Nat \ {0} : n < h => (n + h) % (2 * h) = n + h
  OBVIOUS
<1> HIDE DEF Half
<1> QED
  BY <1>1, <1>2 DEF Wrap

\* The estimate of every request covers what it is charged in the end, by either
\* provider and whatever versions were added in between, and no cost is negative, for
\* every price list that fits in an amount.
THEOREM EstimateAlwaysCovers == Spec => []EstimateCoversCost
<1>1. ASSUME NEW price \in Prices, Fits(price)
      PROVE  /\ Estimate(price, Expected) = price.fee + 100 * price.input + 100 * price.output
             /\ Estimate(price, MockUsage) = price.fee + 100 * price.input + 100 * price.output
             /\ Estimate(price, GenericUsage) = price.fee + price.input
             /\ price.fee \in Nat /\ price.input \in Nat /\ price.output \in Nat
  <2>1. price.fee \in Nat /\ price.input \in Nat /\ price.output \in Nat
    BY PricingAssumptions
  <2>2. Half \in Nat
    BY PricingAssumptions DEF Half
  <2>3. price.fee + 100 * price.input + 100 * price.output < Half
    BY <1>1 DEF Fits
  <2> HIDE DEF Half
  <2>4. /\ Wrap(100 * price.input) = 100 * price.input /\ Wrap(100 * price.output) = 100 * price.output
        /\ Wrap(1 * price.input) = price.input /\ Wrap(0 * price.output) = 0
        /\ Wrap(price.fee + 100 * price.input) = price.fee + 100 * price.input
        /\ Wrap(price.fee + price.input) = price.fee + price.input
        /\ Wrap(price.fee + 100 * price.input + 100 * price.output)
              = price.fee + 100 * price.input + 100 * price.output
        /\ Wrap(price.fee + price.input + 0) = price.fee + price.input
    BY <2>1, <2>2, <2>3, WrapFits
  <2> QED
    BY <2>1, <2>4 DEF Estimate, Expected, MockUsage, GenericUsage
<1>2. RequestOK => EstimateCoversCost
  <2> SUFFICES ASSUME RequestOK, request.pc = "charged", \A price \in request.price : Fits(price)
               PROVE  0 <= request.cost /\ request.cost <= request.estimate
    BY DEF EstimateCoversCost
  <2>1. PICK price \in Prices : PricedBy(request, price)
    BY DEF RequestOK
  <2>2. Fits(price)
    BY <2>1 DEF PricedBy
  <2> QED
    BY <1>1, <2>1, <2>2 DEF PricedBy
<1>3. Init => RequestOK
  BY DEF Init, NoRequest, RequestOK
<1> QED
  BY <1>2, <1>3, RatesInit, RatesStep, RequestStep, PTL DEF Spec
=============================================================================
