---------------------------- MODULE RateLimiter ----------------------------
(***************************************************************************)
(* The token-bucket limiter of internal/httpapi: buckets made on demand,   *)
(* refilled lazily by allow, and evicted by sweepLoop when idle.           *)
(*                                                                         *)
(* Tokens are counted in fractions of a token: a request costs Cost, and   *)
(* a clock tick is worth the rate.  A bucket keeps the ticks since         *)
(* lastSeen, up to a number at which it is full and stale, beyond which    *)
(* neither allow nor the sweep can tell them apart.  The limiter's mutex   *)
(* makes allow and one round of sweepLoop single steps.                    *)
(***************************************************************************)
EXTENDS Naturals

CONSTANTS
    Keys,        \* tenant IDs or client addresses
    RateLimits,  \* the limits VG_RATE_LIMIT_... may set: tokens per tick, and burst
    Cost,        \* one token
    IdleTTL      \* l.idleTTL, in ticks

\* Validate asks of a rate and a burst only that they are not negative.
ASSUME LimiterAssumptions ==
    RateLimits \subseteq [rate: Nat, burst: Nat] /\ Cost \in Nat /\ IdleTTL \in Nat

VARIABLES
    limits,    \* l.rate and l.burst
    buckets,   \* for each key its bucket; absent if it has none
    passed     \* what allow answered last, per key

limiterVars == <<limits, buckets, passed>>

\* A bucket gains at least one unit a tick, so it is full by then, and stale.
MaxIdle == IdleTTL + limits.burst

Buckets == [here: BOOLEAN, tokens: 0..limits.burst, idle: 0..MaxIdle]
Absent == [here |-> FALSE, tokens |-> 0, idle |-> 0]
Seen(tokens) == [here |-> TRUE, tokens |-> tokens, idle |-> 0]
Fresh == Seen(limits.burst)

\* SetRateLimits builds a limiter only for a positive rate and burst; the nil
\* limiter it leaves otherwise always allows.
Enabled == limits.rate > 0 /\ limits.burst > 0

\* No bucket ever holds more than the burst or less than nothing, although allow
\* adds what accumulated over an arbitrarily long absence, and a limiter that is
\* switched off keeps no buckets.
LimiterTypeOK ==
    /\ limits \in RateLimits
    /\ buckets \in [Keys -> Buckets]
    /\ passed \in [Keys -> {"none", "yes", "no"}]
    /\ ~Enabled => \A k \in Keys : buckets[k] = Absent

LimiterInit ==
    /\ limits \in RateLimits
    /\ buckets = [k \in Keys |-> Absent]
    /\ passed = [k \in Keys |-> "none"]

\* Faulty variant of Refilled: the cap is forgotten.
RefilledUncapped(b) == b.tokens + b.idle * limits.rate

\* tokens += elapsed * rate, capped at burst.
Refilled(b) ==
    LET tokens == b.tokens + b.idle * limits.rate
    IN  IF tokens > limits.burst THEN limits.burst ELSE tokens

Found(k) == IF buckets[k].here THEN buckets[k] ELSE Fresh

\* A request of key k: what is left in its bucket, and the answer.
Allow(k) ==
    LET tokens == Refilled(Found(k))
    IN  /\ \/ /\ ~Enabled
              /\ passed' = [passed EXCEPT ![k] = "yes"]
              /\ UNCHANGED buckets
           \/ /\ Enabled /\ tokens < Cost
              /\ buckets' = [buckets EXCEPT ![k] = Seen(tokens)]
              /\ passed' = [passed EXCEPT ![k] = "no"]
           \/ /\ Enabled /\ ~(tokens < Cost)
              /\ buckets' = [buckets EXCEPT ![k] = Seen(tokens - Cost)]
              /\ passed' = [passed EXCEPT ![k] = "yes"]
        /\ UNCHANGED limits

\* Faulty variant of Stale: evicts what has been idle for half the time.
StaleTooSoon(b) == b.here /\ 2 * b.idle > IdleTTL

\* lastSeen.Before(now - idleTTL).
Stale(b) == b.here /\ b.idle > IdleTTL

\* One round of sweepLoop.
Sweep ==
    /\ \E k \in Keys : Stale(buckets[k])
    /\ buckets' = [k \in Keys |-> IF Stale(buckets[k]) THEN Absent ELSE buckets[k]]
    /\ UNCHANGED <<limits, passed>>

LimiterTick ==
    /\ buckets' = [k \in Keys |-> IF buckets[k].here /\ buckets[k].idle < MaxIdle
                                  THEN [buckets[k] EXCEPT !.idle = @ + 1]
                                  ELSE buckets[k]]
    /\ UNCHANGED <<limits, passed>>

LimiterNext == (\E k \in Keys : Allow(k)) \/ Sweep \/ LimiterTick

LimiterSpec == LimiterInit /\ [][LimiterNext]_limiterVars
-----------------------------------------------------------------------------
\* What a key's bucket is worth now, and for how long the key has not asked.
Level == [k \in Keys |-> Refilled(Found(k))]
QuietFor(b) == IF b.here /\ b.idle <= IdleTTL THEN b.idle ELSE IdleTTL + 1
Quiet == [k \in Keys |-> QuietFor(buckets[k])]

Ideal == INSTANCE TokenBucket WITH level <- Level, quiet <- Quiet

\* "The standard textbook token bucket": lazy refill cannot be observed, and neither
\* can eviction if the rate fills a bucket within idleTTL; the limiter answers every
\* request the way a bucket that is refilled every tick and never evicted would.  With
\* a slower rate it differs in one way only: a key that has not asked for longer than
\* idleTTL may find its bucket full.
ImplementsTokenBucket == Ideal!Spec
=============================================================================
