------------------------------ MODULE Breaker ------------------------------
(***************************************************************************)
(* The methods of the circuit breaker (internal/circuit) as functions from *)
(* a breaker to a breaker.  Each method holds the breaker's mutex from     *)
(* start to end, so a call is one step of whoever makes it.                *)
(*                                                                         *)
(* A breaker is its state and the time that is left of its cooldown:       *)
(* cooling = 0 says that now - openedAt >= cooldown.  halfOpenGen is left  *)
(* out: Trip increments it and nothing reads it.                           *)
(***************************************************************************)
EXTENDS Integers

CONSTANT Cooldown   \* CircuitCooldown, in clock ticks

ASSUME CooldownAssumption == Cooldown \in Nat

CircuitStates == {"CLOSED", "OPEN", "HALF_OPEN", "HALF_OPEN_TESTING"}
Breakers == [state: CircuitStates, cooling: 0..Cooldown]

NewBreaker == [state |-> "CLOSED", cooling |-> 0]

\* Faulty variant of MaybeAdvance: the cooldown is never looked at.
MaybeAdvanceNever(b) == b

MaybeAdvance(b) ==
    IF b.state = "OPEN" /\ b.cooling = 0 THEN [b EXCEPT !.state = "HALF_OPEN"] ELSE b

\* Faulty variant of Tripped: the cooldown is one tick too long.
TrippedTooLong == [state |-> "OPEN", cooling |-> Cooldown + 1]

Tripped == [state |-> "OPEN", cooling |-> Cooldown]

\* Allow: may the caller proceed, and the breaker it leaves behind.
Allows(b) == MaybeAdvance(b).state \in {"CLOSED", "HALF_OPEN"}

AfterAllow(b) ==
    IF MaybeAdvance(b).state = "HALF_OPEN"
    THEN [b EXCEPT !.state = "HALF_OPEN_TESTING"]
    ELSE MaybeAdvance(b)

\* Faulty variant of AfterSuccess: closes the breaker whatever its state is.
AfterSuccessUntested(b) == [b EXCEPT !.state = "CLOSED"]

\* Faulty variant of AfterSuccess: a trial that succeeded stays a trial.
AfterSuccessIgnored(b) == b

AfterSuccess(b) ==
    IF b.state = "HALF_OPEN_TESTING" THEN [b EXCEPT !.state = "CLOSED"] ELSE b

AfterFailure(b) ==
    IF b.state \in {"HALF_OPEN_TESTING", "CLOSED"} THEN Tripped ELSE b

\* One tick of the clock.
Elapse(b) == IF b.cooling > 0 THEN [b EXCEPT !.cooling = @ - 1] ELSE b
=============================================================================
