------------------------------ MODULE Circuit ------------------------------
(***************************************************************************)
(* One circuit breaker and the goroutines that use it the way              *)
(* Engine.Evaluate does: ask Allow, work for a while, report one success   *)
(* or one failure, and trip the breaker after a critical failure.  A kill  *)
(* switch trips it at any time.                                            *)
(***************************************************************************)
EXTENDS Breaker

CONSTANT Callers   \* goroutines that evaluate requests of one tenant

VARIABLES
    breaker,    \* the breaker
    calls,      \* where each caller is between Allow and its last report
    sinceTrip   \* history: ticks since the last Trip, counted up to Cooldown

vars == <<breaker, calls, sinceTrip>>

\* idle: no call under way.  through: let pass while CLOSED.  trial: let pass as
\* the test of a HALF_OPEN breaker.  stale: a trial overtaken by a Trip.
\* critical: has reported a failure and is about to trip the breaker.
InFlight == {"through", "trial", "stale"}

\* The type of the variables; a cooldown never runs longer than CircuitCooldown.
TypeOK ==
    /\ breaker \in Breakers
    /\ calls \in [Callers -> InFlight \cup {"idle", "critical"}]
    /\ sinceTrip \in 0..Cooldown

Init ==
    /\ breaker = NewBreaker
    /\ calls = [c \in Callers |-> "idle"]
    /\ sinceTrip = Cooldown

\* Evaluate asks Allow; a refused caller goes home.  Evaluate then calls State,
\* whose only effect on the breaker is the advance that Allow has made already.
Allow(c) ==
    /\ calls[c] = "idle"
    /\ breaker' = AfterAllow(breaker)
    /\ calls' = [calls EXCEPT ![c] =
                   CASE ~Allows(breaker) -> "idle"
                     [] breaker.state = "CLOSED" -> "through"
                     [] OTHER -> "trial"]
    /\ UNCHANGED sinceTrip

ReportSuccess(c) ==
    /\ calls[c] \in InFlight
    /\ breaker' = AfterSuccess(breaker)
    /\ calls' = [calls EXCEPT ![c] = "idle"]
    /\ UNCHANGED sinceTrip

\* A failure report, after which a critical score still trips the breaker.
ReportFailure(c) ==
    /\ calls[c] \in InFlight
    /\ breaker' = AfterFailure(breaker)
    /\ \E next \in {"idle", "critical"} : calls' = [calls EXCEPT ![c] = next]
    /\ UNCHANGED sinceTrip

\* Trip, and what it makes of the trials under way.
Overtaken(f) == [c \in Callers |-> IF f[c] = "trial" THEN "stale" ELSE f[c]]

TripAfterFailure(c) ==
    /\ calls[c] = "critical"
    /\ breaker' = Tripped
    /\ calls' = Overtaken([calls EXCEPT ![c] = "idle"])
    /\ sinceTrip' = 0

\* A request that finds a kill switch on trips the breaker and is refused.
KillSwitchTrip(c) ==
    /\ calls[c] = "idle"
    /\ breaker' = Tripped
    /\ calls' = Overtaken(calls)
    /\ sinceTrip' = 0

Tick ==
    /\ breaker.cooling > 0 \/ sinceTrip < Cooldown
    /\ breaker' = Elapse(breaker)
    /\ sinceTrip' = IF sinceTrip < Cooldown THEN sinceTrip + 1 ELSE sinceTrip
    /\ UNCHANGED calls

KillSwitch == \E c \in Callers : KillSwitchTrip(c)

Next ==
    \/ \E c \in Callers : \/ Allow(c)
                          \/ ReportSuccess(c)
                          \/ ReportFailure(c)
                          \/ TripAfterFailure(c)
    \/ KillSwitch
    \/ Tick

Spec == Init /\ [][Next]_vars

\* Requests keep arriving, Evaluate runs to its end (it blocks on nothing but
\* mutexes that are held for a few instructions), and the clock runs.
FairSpec ==
    /\ Spec
    /\ WF_vars(Tick)
    /\ \A c \in Callers : /\ WF_vars(Allow(c))
                          /\ WF_vars(ReportSuccess(c) \/ ReportFailure(c))
                          /\ WF_vars(TripAfterFailure(c))
-----------------------------------------------------------------------------
\* The trial slot is never lost: while the breaker is testing, some caller that
\* took the slot since the last Trip still owes its report.  Otherwise Allow
\* would refuse everybody for ever.
TestingIsHeld ==
    breaker.state = "HALF_OPEN_TESTING" => \E c \in Callers : calls[c] = "trial"

\* A Trip keeps the breaker OPEN, so that Allow refuses everybody, until its whole
\* cooldown has passed, whatever reports of earlier requests still come in.
TripHolds ==
    sinceTrip < Cooldown => breaker.state = "OPEN" /\ breaker.cooling >= Cooldown - sinceTrip

\* Every trial comes to a verdict.
TrialResolves ==
    breaker.state = "HALF_OPEN_TESTING" ~> breaker.state # "HALF_OPEN_TESTING"

\* Unless kill switches go on tripping it, a breaker that is OPEN does not stay
\* so: the failures and trips of requests let in before run out, the cooldown
\* passes, and some Allow takes the trial slot.
OpenRecovers ==
    []<><<KillSwitch>>_vars \/ (breaker.state = "OPEN" ~> breaker.state # "OPEN")

\* The comment on halfOpenGen: it "guards against a stale half-open test result
\* racing a new trip", so a trial that a Trip has overtaken closes no breaker.
StaleTrialNeverCloses ==
    [][\A c \in Callers : calls[c] = "stale" /\ calls'[c] = "idle"
          => ~(breaker.state # "CLOSED" /\ breaker'.state = "CLOSED")]_vars
=============================================================================
