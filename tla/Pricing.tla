------------------------------ MODULE Pricing ------------------------------
(***************************************************************************)
(* The versions of one provider and model in the pricing registry          *)
(* (internal/pricing), and a request that is priced while versions are     *)
(* added: the gateway looks its rate up once, estimates with it, and       *)
(* charges the usage the provider reports by the same copy of the rate.    *)
(* Times are 1 .. MaxTime and 0 is Go's zero time.  Amounts are integers   *)
(* of Width bits and wrap around, as money.Micros does at 64.              *)
(***************************************************************************)
EXTENDS Integers, Sequences

CONSTANTS
    MaxTime,    \* bound on the times
    MaxRates,   \* bound on the versions added
    Untils,     \* the EffectiveUntil values versions are added with
    Width,      \* bits of an amount
    Prices      \* price lists: per input unit, per output unit, per request

ASSUME PricingAssumptions ==
    /\ MaxTime \in Nat /\ MaxRates \in Nat /\ Untils \subseteq 0..MaxTime
    /\ 2^(Width-1) \in Nat \ {0}
    /\ Prices \subseteq [input: Nat, output: Nat, fee: Nat]

VARIABLES
    rates,      \* the versions, in the order in which they were added
    request     \* one request: its copy of the price, the estimate and the cost

vars == <<rates, request>>

Times == 1..MaxTime
\* A version may start at the zero time, before every other; ended says that it was
\* added with an end of its own.
Rates == [from: 0..MaxTime, until: 0..MaxTime, ended: BOOLEAN, price: Prices]

\* No request is being priced; the copy of the price is a set, empty for none.
NoRequest == [pc |-> "new", price |-> {}, estimate |-> 0, cost |-> 0]

Init == rates = <<>> /\ request = NoRequest

IsZero(t) == t = 0

\* Faulty variant of ActiveAt: a version is still in effect when it ends.
ActiveAtEnd(rate, t) ==
    /\ ~(t < rate.from)
    /\ IsZero(rate.until) \/ t <= rate.until

ActiveAt(rate, t) ==
    /\ ~(t < rate.from)
    /\ IsZero(rate.until) \/ t < rate.until

\* Faulty variant of Closed: ends the old version one instant early.
ClosedEarly(old, rate) ==
    IF IsZero(old.until) /\ ~(old.from > rate.from)
    THEN [old EXCEPT !.until = rate.from - 1] ELSE old

\* Faulty variant of Closed: leaves the old version open.
ClosedNever(old, rate) == old

\* What AddRate makes of an older version.
Closed(old, rate) ==
    IF IsZero(old.until) /\ ~(old.from > rate.from)
    THEN [old EXCEPT !.until = rate.from] ELSE old

AddRate(rate) ==
    /\ Len(rates) < MaxRates
    /\ rates' = Append([i \in DOMAIN rates |-> Closed(rates[i], rate)], rate)
    /\ UNCHANGED request

Active(t) == {i \in DOMAIN rates : ActiveAt(rates[i], t)}

\* The version RateAt returns, by its place in the list; 0 for
\* ErrNoPricingInEffect.
RateAt(t) ==
    IF Active(t) = {} THEN 0 ELSE CHOOSE i \in Active(t) : \A j \in Active(t) : i <= j
-----------------------------------------------------------------------------
\* The amount of Width bits that stands for n, one of -Half .. Half - 1.
Half == 2^(Width-1)
Wrap(n) == ((n + Half) % (2 * Half)) - Half

\* Rate.Estimate: every sum and product is one of amounts.
Estimate(price, usage) ==
    Wrap(Wrap(price.fee + Wrap(usage.input * price.input)) + Wrap(usage.output * price.output))

\* What handleProxy expects of every request.
Expected == [input |-> 100, output |-> 100]
\* What the two providers report: the mock as main makes it, without a UsageFn, and
\* the generic HTTP one.
MockUsage == [input |-> 100, output |-> 100]
GenericUsage == [input |-> 1, output |-> 0]

\* HandleRequest at time t; without a rate in effect it fails.
Arrive(t) ==
    /\ request.pc = "new"
    /\ RateAt(t) # 0
    /\ LET price == rates[RateAt(t)].price
       IN  request' = [pc |-> "estimated", price |-> {price},
                       estimate |-> Estimate(price, Expected), cost |-> 0]
    /\ UNCHANGED rates

\* Faulty variant of Charge: the rate is looked up again.
ChargeAnew(usage) ==
    /\ request.pc = "estimated"
    /\ \E t \in Times :
           /\ RateAt(t) # 0
           /\ request' = [request EXCEPT !.pc = "charged",
                                         !.cost = Estimate(rates[RateAt(t)].price, usage)]
    /\ UNCHANGED rates

\* The provider has reported its usage.
Charge(usage) ==
    /\ request.pc = "estimated"
    /\ \E price \in request.price :
           request' = [request EXCEPT !.pc = "charged", !.cost = Estimate(price, usage)]
    /\ UNCHANGED rates

\* The request is over.
Finish ==
    /\ request.pc = "charged"
    /\ request' = NoRequest
    /\ UNCHANGED rates

Next ==
    \/ \E f \in 0..MaxTime, u \in Untils, p \in Prices :
           /\ IsZero(u) \/ f < u
           /\ AddRate([from |-> f, until |-> u, ended |-> ~IsZero(u), price |-> p])
    \/ \E t \in Times : Arrive(t)
    \/ \E usage \in {MockUsage, GenericUsage} : Charge(usage)
    \/ Finish

Spec == Init /\ [][Next]_vars
-----------------------------------------------------------------------------
\* Every version was added open-ended and in the order of EffectiveFrom.
InOrder ==
    /\ \A i \in DOMAIN rates : ~rates[i].ended
    /\ \A i, j \in DOMAIN rates : i < j => rates[i].from <= rates[j].from

\* The versions that took effect last by time t.
Latest(t) ==
    LET begun == {i \in DOMAIN rates : rates[i].from <= t}
    IN  {i \in begun : \A j \in begun : rates[j].from <= rates[i].from}

\* The comment on AddRate, "history stays gapless and non-overlapping", for versions
\* added in order: from the first version on exactly one is in effect at any time,
\* the one that took effect last, and of several with one EffectiveFrom the one added
\* last.  The exception is the zero EffectiveFrom: as the end of an older version it
\* means that there is none, so versions that start at it stay in effect together
\* until a version with a later start ends them all.
Gapless ==
    InOrder => \A t \in Times :
        Active(t) = {i \in Latest(t) : \/ IsZero(rates[i].from)
                                       \/ \A j \in Latest(t) : j <= i}

\* For versions added in order, RateAt, which returns the first match of the list,
\* returns a version that took effect last: of several with one EffectiveFrom the one
\* added last, which replaces the others, but of several with the zero EffectiveFrom
\* the one added first, which the others never replace.
RateAtIsLatest ==
    InOrder => \A t \in Times : Latest(t) # {} =>
        /\ RateAt(t) \in Latest(t)
        /\ \A i \in Latest(t) : IF IsZero(rates[i].from) THEN RateAt(t) <= i ELSE i <= RateAt(t)

\* A new version changes no price before its EffectiveFrom, in whatever order
\* versions are added and whether or not they have an end: "a pricing change must
\* never silently rewrite past accounting".
HistoryStable ==
    [][\A t \in Times : (\A i \in DOMAIN rates' \ DOMAIN rates : t < rates'[i].from)
                             => RateAt(t)' = RateAt(t)]_rates

\* The price list leaves room for the estimate in an amount.
Fits(price) == price.fee + 100 * price.input + 100 * price.output < Half

\* As the program is wired, the estimate the budget is reserved at covers the cost
\* that is reconciled, whichever of its two providers answers and whatever versions
\* are added in between, backdated ones included: no request overruns its
\* reservation and none has a negative cost.  For prices whose estimate fits in an
\* amount; beyond them the arithmetic wraps around.
EstimateCoversCost ==
    request.pc = "charged" /\ (\A price \in request.price : Fits(price))
        => 0 <= request.cost /\ request.cost <= request.estimate
=============================================================================
