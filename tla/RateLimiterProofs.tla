------------------------- MODULE RateLimiterProofs -------------------------
(***************************************************************************)
(* The lazily refilled, evicting limiter implements the token bucket of    *)
(* TokenBucket for every rate, burst and idleTTL, and the textbook bucket, *)
(* which is never forgotten, if rate * idleTTL >= burst.  The refinement   *)
(* maps a bucket to what it is worth now, an absent one to a full one;     *)
(* beside the type invariant no invariant is needed.                       *)
(***************************************************************************)
EXTENDS RateLimiter, TLAPS

\* What allow adds for elapsed time: it grows by rate per tick, and with the time.
LEMMA Products ==
    ASSUME NEW a \in Nat, NEW b \in Nat, NEW r \in Nat
    PROVE  /\ a * r \in Nat
           /\ 0 * r = 0
           /\ (a + 1) * r = a * r + r
           /\ a >= b => a * r >= b * r
<1>1. a * r \in Nat /\ 0 * r = 0 /\ (a + 1) * r = a * r + r
  BY SMT
<1>2. ASSUME a >= b PROVE a * r >= b * r
  <2> DEFINE d == a - b
  <2>1. d \in Nat /\ a = b + d
    BY <1>2
  <2>2. d * r \in Nat /\ (b + d) * r = b * r + d * r
    BY <2>1, SMT
  <2>3. b * r \in Nat
    BY SMT
  <2> HIDE DEF d
  <2> QED
    BY <2>1, <2>2, <2>3
<1> QED
  BY <1>1, <1>2

\* What allow and the sweep work with are natural numbers.
LEMMA LimitsType ==
    ASSUME LimiterTypeOK
    PROVE  limits.rate \in Nat /\ limits.burst \in Nat /\ Cost \in Nat /\ IdleTTL \in Nat /\ MaxIdle \in Nat
<1>1. limits \in [rate: Nat, burst: Nat] /\ Cost \in Nat /\ IdleTTL \in Nat
  BY LimiterAssumptions DEF LimiterTypeOK
<1> QED
  BY <1>1 DEF MaxIdle

\* The refill of allow never leaves 0 .. burst.
LEMMA RefilledType ==
    ASSUME LimiterTypeOK, NEW b \in Buckets
    PROVE  Refilled(b) \in 0..limits.burst
<1>1. b.tokens \in 0..limits.burst /\ b.idle \in Nat
  BY LimitsType DEF Buckets
<1>2. b.idle * limits.rate \in Nat
  BY <1>1, Products, LimitsType
<1> QED
  BY <1>1, <1>2, LimitsType DEF Refilled

\* A bucket that allow has just seen is worth the tokens it holds.
LEMMA JustSeen ==
    ASSUME LimiterTypeOK, NEW n \in 0..limits.burst
    PROVE  Seen(n) \in Buckets /\ Refilled(Seen(n)) = n
<1>1. 0 * limits.rate = 0
  BY Products, LimitsType
<1>2. 0 \in 0..MaxIdle
  BY LimitsType
<1>3. Seen(n) \in Buckets
  BY <1>2 DEF Seen, Buckets
<1>4. Seen(n).tokens + Seen(n).idle * limits.rate = n
  BY <1>1, LimitsType DEF Seen
<1> QED
  BY <1>3, <1>4, LimitsType DEF Refilled

\* The bucket allow makes for a key it has not seen is full.
LEMMA FreshIsFull ==
    ASSUME LimiterTypeOK
    PROVE  Fresh \in Buckets /\ Refilled(Fresh) = limits.burst
<1>1. limits.burst \in 0..limits.burst
  BY LimitsType
<1> QED
  BY <1>1, JustSeen DEF Fresh

\* After n ticks that are worth a burst a bucket is full.
LEMMA FullAfter ==
    ASSUME LimiterTypeOK, NEW b \in Buckets, NEW n \in Nat, b.idle >= n, n * limits.rate >= limits.burst
    PROVE  Refilled(b) = limits.burst
<1>1. b.tokens \in 0..limits.burst /\ b.idle \in Nat /\ limits.rate \in Nat /\ limits.burst \in Nat
  BY LimitsType DEF Buckets
<1>2. b.idle * limits.rate >= n * limits.rate /\ b.idle * limits.rate \in Nat /\ n * limits.rate \in Nat
  BY <1>1, Products
<1> QED
  BY <1>1, <1>2 DEF Refilled

\* A bucket whose ticks are not counted any further is full, at any rate.
LEMMA UncountedIsFull ==
    ASSUME LimiterTypeOK, Enabled, NEW b \in Buckets, ~(b.idle < MaxIdle)
    PROVE  Refilled(b) = limits.burst /\ b.idle > IdleTTL
<1>1. limits.rate \in Nat /\ limits.burst \in Nat /\ IdleTTL \in Nat /\ limits.rate >= 1 /\ limits.burst >= 1
  BY LimitsType DEF Enabled
<1>2. b.idle \in Nat /\ b.idle >= limits.burst /\ b.idle > IdleTTL
  BY <1>1, LimitsType DEF Buckets, MaxIdle
<1>3. limits.rate * limits.burst >= 1 * limits.burst /\ limits.rate * limits.burst = limits.burst * limits.rate
  BY <1>1, Products
<1>4. limits.burst * limits.rate >= limits.burst
  BY <1>1, <1>3
<1> QED
  BY <1>1, <1>2, <1>4, FullAfter

\* Every bucket that Allow works on is a bucket.
LEMMA FoundType ==
    ASSUME LimiterTypeOK, NEW k \in Keys
    PROVE  Found(k) \in Buckets
  BY FreshIsFull DEF Found, LimiterTypeOK

\* The type invariant is inductive: allow caps what it adds and takes a token only
\* if there is one.
LEMMA TypeInductive == LimiterTypeOK /\ [LimiterNext]_limiterVars => LimiterTypeOK'
<1> SUFFICES ASSUME LimiterTypeOK, [LimiterNext]_limiterVars PROVE LimiterTypeOK'
  OBVIOUS
<1>1. limits' = limits
  BY DEF LimiterNext, limiterVars, Allow, Sweep, LimiterTick
<1>2. Buckets' = Buckets /\ (Enabled' <=> Enabled) /\ limits' \in RateLimits
  BY <1>1 DEF Buckets, MaxIdle, Enabled, LimiterTypeOK
<1>3. ASSUME NEW k \in Keys, Allow(k) PROVE LimiterTypeOK'
  <2> DEFINE n == Refilled(Found(k))
  <2>1. n \in 0..limits.burst
    BY FoundType, RefilledType
  <2>2. n >= Cost => n - Cost \in 0..limits.burst
    BY <2>1, LimitsType
  <2> HIDE DEF n
  <2>3. CASE ~Enabled
    BY <1>2, <1>3, <2>3 DEF Allow, LimiterTypeOK
  <2>4. CASE Enabled /\ n < Cost
    <3>1. Seen(n) \in Buckets
      BY <2>1, JustSeen
    <3>2. buckets' = [buckets EXCEPT ![k] = Seen(n)] /\ passed' = [passed EXCEPT ![k] = "no"]
      BY <1>3, <2>4 DEF Allow, n
    <3> QED
      BY <1>2, <2>4, <3>1, <3>2 DEF LimiterTypeOK
  <2>5. CASE Enabled /\ ~(n < Cost)
    <3>1. Seen(n - Cost) \in Buckets
      BY <2>1, <2>2, <2>5, LimitsType, JustSeen
    <3>2. buckets' = [buckets EXCEPT ![k] = Seen(n - Cost)] /\ passed' = [passed EXCEPT ![k] = "yes"]
      BY <1>3, <2>5 DEF Allow, n
    <3> QED
      BY <1>2, <2>5, <3>1, <3>2 DEF LimiterTypeOK
  <2> QED
    BY <2>3, <2>4, <2>5
<1>4. CASE Sweep
  <2>1. Absent \in Buckets
    BY LimitsType DEF Absent, Buckets
  <2> QED
    BY <1>2, <1>4, <2>1 DEF Sweep, LimiterTypeOK
<1>5. CASE LimiterTick
  <2>1. ASSUME NEW k \in Keys, buckets[k].idle < MaxIdle
        PROVE  [buckets[k] EXCEPT !.idle = @ + 1] \in Buckets
    <3>1. buckets[k] \in Buckets
      BY DEF LimiterTypeOK
    <3>2. buckets[k].idle + 1 \in 0..MaxIdle
      BY <2>1, <3>1, LimitsType DEF Buckets
    <3> QED
      BY <3>1, <3>2 DEF Buckets
  <2>2. buckets' \in [Keys -> Buckets]
    BY <1>5, <2>1 DEF LimiterTick, LimiterTypeOK
  <2>3. ASSUME ~Enabled, NEW k \in Keys PROVE buckets'[k] = Absent
    <3>1. buckets[k] = Absent /\ ~buckets[k].here
      BY <2>3 DEF LimiterTypeOK, Absent
    <3> QED
      BY <1>5, <3>1 DEF LimiterTick
  <2> QED
    BY <1>2, <1>5, <2>2, <2>3 DEF LimiterTick, LimiterTypeOK
<1>6. CASE UNCHANGED limiterVars
  BY <1>2, <1>6 DEF limiterVars, LimiterTypeOK
<1> QED
  BY <1>3, <1>4, <1>5, <1>6 DEF LimiterNext

\* The limiter starts without buckets.
LEMMA InitType == LimiterInit => LimiterTypeOK
<1> SUFFICES ASSUME LimiterInit PROVE LimiterTypeOK
  OBVIOUS
<1>1. limits \in [rate: Nat, burst: Nat] /\ IdleTTL \in Nat
  BY LimiterAssumptions DEF LimiterInit
<1>2. Absent \in Buckets
  BY <1>1 DEF Absent, Buckets, MaxIdle
<1> QED
  BY <1>2 DEF LimiterInit, LimiterTypeOK

\* No bucket of the limiter ever holds more than burst or less than nothing.
THEOREM LimiterTypeCorrect == LimiterSpec => []LimiterTypeOK
  BY InitType, TypeInductive, PTL DEF LimiterSpec
-----------------------------------------------------------------------------
\* What is seen of a step that leaves one bucket as just seen: its level, and that its
\* key has asked.
LEMMA SeenSimulates ==
    ASSUME LimiterTypeOK, NEW k \in Keys, NEW m \in 0..limits.burst, limits' = limits,
           buckets' = [buckets EXCEPT ![k] = Seen(m)]
    PROVE  Level' = [Level EXCEPT ![k] = m] /\ Quiet' = [Quiet EXCEPT ![k] = 0]
<1>1. buckets'[k] = Seen(m) /\ \A j \in Keys : j # k => buckets'[j] = buckets[j]
  BY DEF LimiterTypeOK
<1>2. Found(k)' = Seen(m) /\ \A j \in Keys : j # k => Found(j)' = Found(j)
  BY <1>1 DEF Found, Seen, Fresh
<1>3. Refilled(Found(k))' = m /\ \A j \in Keys : j # k => Refilled(Found(j))' = Refilled(Found(j))
  BY <1>2, JustSeen DEF Refilled
<1>4. Level' = [Level EXCEPT ![k] = m]
  BY <1>3, Zenon DEF Level
<1>5. QuietFor(Seen(m)) = 0
  BY LimitsType DEF Seen, QuietFor
<1>6. Quiet' = [Quiet EXCEPT ![k] = 0]
  <2>1. Quiet' = [j \in Keys |-> QuietFor(buckets'[j])]
    BY DEF Quiet, QuietFor
  <2>2. QuietFor(buckets'[k]) = 0 /\ \A j \in Keys : j # k => QuietFor(buckets'[j]) = QuietFor(buckets[j])
    BY <1>1, <1>5, Zenon
  <2>3. Quiet = [j \in Keys |-> QuietFor(buckets[j])]
    BY DEF Quiet
  <2> QED
    BY ONLY <2>1, <2>2, <2>3, k \in Keys, Zenon
<1> QED
  BY <1>4, <1>6

\* An allow that finds a token is a Pass of the ideal bucket, one that does not is a
\* Refuse, and the nil limiter waves every request through.
LEMMA AllowSimulates ==
    ASSUME LimiterTypeOK, NEW k \in Keys, Allow(k)
    PROVE  Ideal!Pass(k) \/ Ideal!Refuse(k) \/ Ideal!WaveThrough(k)
<1> DEFINE n == Refilled(Found(k))
<1>1. n \in 0..limits.burst /\ limits' = limits
  BY FoundType, RefilledType DEF Allow
<1>2. Level[k] = n
  BY DEF Level
<1> HIDE DEF n
<1>3. CASE ~Enabled
  <2>1. buckets' = buckets /\ passed' = [passed EXCEPT ![k] = "yes"]
    BY <1>3 DEF Allow
  <2>2. Level' = Level /\ Quiet' = Quiet
    BY <1>1, <2>1 DEF Level, Quiet, QuietFor, Refilled, Found, Fresh
  <2> QED
    BY <1>1, <1>3, <2>1, <2>2 DEF Ideal!WaveThrough, Ideal!Answer, Ideal!Limited, Enabled
<1>4. CASE Enabled /\ n < Cost
  <2>1. buckets' = [buckets EXCEPT ![k] = Seen(n)] /\ passed' = [passed EXCEPT ![k] = "no"]
    BY <1>4 DEF Allow, n
  <2>2. Level' = [Level EXCEPT ![k] = n] /\ Quiet' = [Quiet EXCEPT ![k] = 0]
    BY <1>1, <2>1, SeenSimulates, Zenon
  <2>3. Level' = Level
    BY <1>2, <2>2, Zenon DEF Level
  <2> QED
    BY <1>1, <1>2, <1>4, <2>1, <2>2, <2>3 DEF Ideal!Refuse, Ideal!Answer, Ideal!Limited, Enabled
<1>5. CASE Enabled /\ ~(n < Cost)
  <2>1. n - Cost \in 0..limits.burst /\ n >= Cost
    BY <1>1, <1>5, LimitsType
  <2>2. /\ buckets' = [buckets EXCEPT ![k] = Seen(n - Cost)]
        /\ passed' = [passed EXCEPT ![k] = "yes"]
    BY <1>5 DEF Allow, n
  <2>3. Level' = [Level EXCEPT ![k] = n - Cost] /\ Quiet' = [Quiet EXCEPT ![k] = 0]
    BY <1>1, <2>1, <2>2, SeenSimulates, Zenon
  <2> QED
    BY <1>1, <1>2, <1>5, <2>1, <2>2, <2>3 DEF Ideal!Pass, Ideal!Answer, Ideal!Limited, Enabled
<1> QED
  BY <1>3, <1>4, <1>5

\* A round of sweepLoop refills what it evicts, and nobody asks: it is a Forget.  If
\* the rate fills a bucket within idleTTL the evicted ones are full like new ones, and
\* the round is invisible.
LEMMA SweepSimulates ==
    ASSUME LimiterTypeOK, Sweep
    PROVE  /\ limits.rate * IdleTTL >= limits.burst => UNCHANGED Ideal!vars
           /\ Ideal!Forget \/ UNCHANGED Ideal!vars
<1> DEFINE S == {k \in Keys : Stale(buckets[k])}
<1>1. /\ limits' = limits /\ passed' = passed
      /\ \A k \in Keys : buckets'[k] = IF k \in S THEN Absent ELSE buckets[k]
  BY DEF Sweep
<1>2. \A k \in S : k \in Keys /\ buckets[k] \in Buckets /\ buckets[k].here /\ buckets[k].idle > IdleTTL
  BY Zenon DEF Stale, LimiterTypeOK
<1> HIDE DEF S
<1>3. Level' = [k \in Keys |-> IF k \in S THEN limits.burst ELSE Level[k]]
  <2>1. ASSUME NEW k \in Keys PROVE Refilled(Found(k))' = IF k \in S THEN limits.burst ELSE Refilled(Found(k))
    <3>1. CASE k \in S
      <4>1. Found(k)' = Fresh
        BY <1>1, <3>1 DEF Found, Absent, Fresh
      <4>2. Refilled(Found(k))' = Refilled(Fresh)
        BY <1>1, <4>1 DEF Refilled
      <4> QED
        BY <3>1, <4>2, FreshIsFull
    <3>2. CASE k \notin S
      BY <1>1, <3>2 DEF Found, Fresh, Refilled
    <3> QED
      BY <3>1, <3>2
  <2> QED
    BY <2>1 DEF Level
<1>4. Quiet' = Quiet
  <2>1. ASSUME NEW k \in S PROVE QuietFor(buckets'[k]) = QuietFor(buckets[k])
    <3>1. ~(buckets[k].idle <= IdleTTL) /\ ~buckets'[k].here
      BY <1>1, <1>2, <2>1, LimitsType DEF Absent, Buckets
    <3> QED
      BY <3>1 DEF QuietFor
  <2>2. \A k \in Keys : QuietFor(buckets'[k]) = QuietFor(buckets[k])
    BY <1>1, <2>1, Zenon
  <2> QED
    BY <2>2 DEF Quiet, QuietFor
<1>5. ASSUME limits.rate * IdleTTL >= limits.burst PROVE UNCHANGED Ideal!vars
  <2>1. ASSUME NEW k \in S PROVE Level[k] = limits.burst
    <3>1. IdleTTL * limits.rate >= limits.burst /\ buckets[k].idle >= IdleTTL /\ IdleTTL \in Nat
      BY <1>2, <1>5, <2>1, LimitsType DEF Buckets
    <3>2. Refilled(buckets[k]) = limits.burst
      BY <1>2, <2>1, <3>1, FullAfter
    <3> QED
      BY <1>2, <2>1, <3>2 DEF Level, Found
  <2>2. Level' = Level
    BY <1>3, <2>1, Zenon DEF Level
  <2> QED
    BY <1>1, <1>4, <2>2 DEF Ideal!vars
<1>6. ASSUME ~(limits.rate * IdleTTL >= limits.burst) PROVE Ideal!Forget
  <2>1. limits.rate * IdleTTL < limits.burst
    BY <1>6, LimitsType
  <2>2. S \in SUBSET {k \in Keys : Quiet[k] > IdleTTL}
    <3>1. ASSUME NEW k \in S PROVE Quiet[k] > IdleTTL
      BY <1>2, <3>1, LimitsType DEF Quiet, QuietFor, Buckets
    <3> QED
      BY <1>2, <3>1
  <2> QED
    BY <1>1, <1>3, <1>4, <2>1, <2>2 DEF Ideal!Forget
<1> QED
  BY <1>5, <1>6

\* A tick is a Refill of every ideal bucket, whether the limiter has the bucket, has
\* evicted it, or has stopped counting because it is full.
LEMMA TickSimulates ==
    ASSUME LimiterTypeOK, LimiterTick
    PROVE  Ideal!Refill
<1>1. limits' = limits /\ passed' = passed
  BY DEF LimiterTick
<1>2. ASSUME NEW k \in Keys
      PROVE  /\ Refilled(Found(k))' = Ideal!Min(limits.burst, Refilled(Found(k)) + limits.rate)
             /\ QuietFor(buckets'[k]) = Ideal!Min(IdleTTL + 1, QuietFor(buckets[k]) + 1)
  <2> DEFINE b == buckets[k]
  <2>1. b \in Buckets /\ b.tokens \in 0..limits.burst /\ b.idle \in Nat
    BY LimitsType DEF LimiterTypeOK, Buckets
  <2>2. CASE ~b.here
    <3>1. Found(k) = Fresh /\ Found(k)' = Fresh /\ buckets'[k] = b
      BY <1>1, <2>2 DEF Found, Fresh, LimiterTick
    <3>2. Refilled(Fresh) = limits.burst /\ Refilled(Found(k))' = limits.burst
      BY <1>1, <3>1, FreshIsFull DEF Refilled
    <3>3. QuietFor(b) = IdleTTL + 1
      BY <2>2 DEF QuietFor
    <3> QED
      BY <3>1, <3>2, <3>3, LimitsType DEF Ideal!Min
  <2>3. CASE b.here /\ ~(b.idle < MaxIdle)
    <3>1. Found(k) = b /\ Found(k)' = b /\ buckets'[k] = b
      BY <2>3 DEF Found, LimiterTick
    <3>2. Enabled
      BY <2>3 DEF LimiterTypeOK, Absent
    <3>3. Refilled(b) = limits.burst /\ b.idle > IdleTTL
      BY <2>1, <2>3, <3>2, UncountedIsFull
    <3>4. Refilled(Found(k))' = Refilled(b)
      BY <1>1, <3>1 DEF Refilled
    <3>5. QuietFor(b) = IdleTTL + 1
      BY <2>1, <3>3, LimitsType DEF QuietFor
    <3> QED
      BY <3>1, <3>3, <3>4, <3>5, LimitsType DEF Ideal!Min
  <2>4. CASE b.here /\ b.idle < MaxIdle
    <3> DEFINE c == [b EXCEPT !.idle = @ + 1]
    <3>1. c.tokens = b.tokens /\ c.idle = b.idle + 1 /\ c.here = b.here
      BY <2>1 DEF Buckets
    <3>2. buckets'[k] = c
      BY <2>4 DEF LimiterTick
    <3> HIDE DEF c, b
    <3>3. Found(k) = b /\ Found(k)' = c
      BY <2>4, <3>1, <3>2, Zenon DEF Found, b
    <3>4. (b.idle + 1) * limits.rate = b.idle * limits.rate + limits.rate /\ b.idle * limits.rate \in Nat
      BY <2>1, Products, LimitsType
    <3>5. Refilled(Found(k))' = Ideal!Min(limits.burst, Refilled(Found(k)) + limits.rate)
      BY <1>1, <2>1, <3>1, <3>3, <3>4, LimitsType DEF Ideal!Min, Refilled
    <3>6. QuietFor(c) = Ideal!Min(IdleTTL + 1, QuietFor(b) + 1)
      BY <2>1, <2>4, <3>1, LimitsType DEF Ideal!Min, QuietFor
    <3> QED
      BY <3>2, <3>5, <3>6 DEF b
  <2> QED
    BY <2>2, <2>3, <2>4
<1>3. Level' = [k \in Keys |-> Ideal!Min(limits.burst, Level[k] + limits.rate)]
  BY <1>2 DEF Level
<1>4. Quiet' = [k \in Keys |-> Ideal!Min(IdleTTL + 1, Quiet[k] + 1)]
  BY <1>2, Zenon DEF Quiet, QuietFor
<1> QED
  BY <1>1, <1>3, <1>4 DEF Ideal!Refill

\* The limiter starts as the ideal bucket does: every key has a full one.
LEMMA InitSimulates == LimiterInit => Ideal!Init
<1> SUFFICES ASSUME LimiterInit PROVE Ideal!Init
  OBVIOUS
<1>1. LimiterTypeOK
  BY InitType
<1>2. \A k \in Keys : Found(k) = Fresh /\ QuietFor(buckets[k]) = IdleTTL + 1
  BY Zenon DEF LimiterInit, Found, Absent, QuietFor
<1>3. Refilled(Fresh) = limits.burst
  BY <1>1, FreshIsFull
<1> QED
  BY <1>2, <1>3 DEF LimiterInit, Ideal!Init, Level, Quiet

\* Every step of the limiter is one of the textbook bucket or a round of sweepLoop.
LEMMA StepSimulates ==
    ASSUME LimiterTypeOK, [LimiterNext]_limiterVars
    PROVE  Ideal!Textbook \/ Sweep \/ UNCHANGED Ideal!vars
<1>1. ASSUME NEW k \in Keys, Allow(k) PROVE Ideal!Textbook
  BY <1>1, AllowSimulates DEF Ideal!Textbook
<1>2. CASE LimiterTick
  BY <1>2, TickSimulates DEF Ideal!Textbook
<1>3. CASE UNCHANGED limiterVars
  BY <1>3 DEF limiterVars, Ideal!vars, Level, Quiet, QuietFor, Refilled, Found, Fresh
<1> QED
  BY <1>1, <1>2, <1>3 DEF LimiterNext

\* The limiter, with its lazy refill and its eviction, implements a token bucket for
\* every rate, burst and idleTTL: the textbook one, but for keys that a rate too slow to
\* fill a bucket within idleTTL lets it forget.
THEOREM LimiterImplementsTokenBucket == LimiterSpec => ImplementsTokenBucket
<1>1. LimiterTypeOK /\ [LimiterNext]_limiterVars => [Ideal!Next]_(Ideal!vars)
  BY StepSimulates, SweepSimulates DEF Ideal!Next
<1> QED
  BY <1>1, InitSimulates, LimiterTypeCorrect, PTL DEF LimiterSpec, ImplementsTokenBucket, Ideal!Spec

\* If every rate that may be configured fills a bucket within idleTTL, as those of
\* cmd/gateway do, eviction cannot be observed and the limiter is "the standard textbook
\* token bucket".
THEOREM LimiterIsTextbook ==
    ASSUME \A l \in RateLimits : l.rate * IdleTTL >= l.burst
    PROVE  LimiterSpec => Ideal!TextbookSpec
<1>1. LimiterTypeOK /\ [LimiterNext]_limiterVars => [Ideal!Textbook]_(Ideal!vars)
  <2> SUFFICES ASSUME LimiterTypeOK, [LimiterNext]_limiterVars
               PROVE  [Ideal!Textbook]_(Ideal!vars)
    OBVIOUS
  <2>1. limits.rate * IdleTTL >= limits.burst
    BY DEF LimiterTypeOK
  <2> QED
    BY <2>1, StepSimulates, SweepSimulates
<1> QED
  BY <1>1, InitSimulates, LimiterTypeCorrect, PTL DEF LimiterSpec, Ideal!TextbookSpec
=============================================================================
