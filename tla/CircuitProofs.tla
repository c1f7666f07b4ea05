--------------------------- MODULE CircuitProofs ---------------------------
(***************************************************************************)
(* Safety of the circuit breaker for any cooldown and any set of callers.  *)
(* TypeOK, TestingIsHeld and TripHolds are inductive together.             *)
(***************************************************************************)
EXTENDS Circuit, TLAPS

IInv == TypeOK /\ TestingIsHeld /\ TripHolds

\* Every method of the breaker (maybeAdvanceLocked, Allow, ReportSuccess,
\* ReportFailure, Trip, and the clock) takes a breaker to a breaker.
LEMMA MethodTypes ==
    ASSUME NEW b \in Breakers
    PROVE  /\ MaybeAdvance(b) \in Breakers
           /\ AfterAllow(b) \in Breakers
           /\ AfterSuccess(b) \in Breakers
           /\ AfterFailure(b) \in Breakers
           /\ Tripped \in Breakers
           /\ Elapse(b) \in Breakers
<1>1. Tripped \in Breakers
  BY CooldownAssumption DEF Tripped, Breakers, CircuitStates
<1>2. MaybeAdvance(b) \in Breakers
  BY DEF MaybeAdvance, Breakers, CircuitStates
<1>3. AfterAllow(b) \in Breakers
  BY <1>2 DEF AfterAllow, Breakers, CircuitStates
<1>4. AfterSuccess(b) \in Breakers
  BY DEF AfterSuccess, Breakers, CircuitStates
<1>5. AfterFailure(b) \in Breakers
  BY <1>1 DEF AfterFailure
<1>6. Elapse(b) \in Breakers
  <2>1. CASE b.cooling > 0
    <3>1. b.cooling - 1 \in 0..Cooldown
      BY <2>1, CooldownAssumption DEF Breakers
    <3> QED
      BY <2>1, <3>1 DEF Elapse, Breakers
  <2>2. CASE ~(b.cooling > 0)
    BY <2>2 DEF Elapse
  <2> QED
    BY <2>1, <2>2
<1> QED
  BY <1>1, <1>2, <1>3, <1>4, <1>5, <1>6

\* The new breaker has no trial under way and no Trip behind it.
LEMMA InitEstablishes == Init => IInv
<1> SUFFICES ASSUME Init PROVE IInv
  OBVIOUS
<1>1. TypeOK
  BY CooldownAssumption DEF Init, TypeOK, NewBreaker, Breakers, CircuitStates
<1>2. TestingIsHeld
  BY DEF Init, TestingIsHeld, NewBreaker
<1>3. TripHolds
  BY CooldownAssumption DEF Init, TripHolds
<1> QED
  BY <1>1, <1>2, <1>3 DEF IInv

\* Allow keeps the invariant: the caller that takes the slot becomes its holder, and
\* within the cooldown of a Trip Allow changes nothing.
LEMMA AllowPreserves ==
    ASSUME IInv, NEW c \in Callers, Allow(c)
    PROVE  IInv'
<1> USE DEF IInv
<1>1. TypeOK'
  <2>1. breaker' \in Breakers
    BY MethodTypes DEF TypeOK, Allow
  <2>2. calls' \in [Callers -> InFlight \cup {"idle", "critical"}]
    BY DEF TypeOK, Allow, InFlight
  <2> QED
    BY <2>1, <2>2 DEF TypeOK, Allow
<1>2. TestingIsHeld'
  <2> SUFFICES ASSUME breaker'.state = "HALF_OPEN_TESTING"
               PROVE  \E d \in Callers : calls'[d] = "trial"
    BY DEF TestingIsHeld
  <2>1. CASE breaker.state = "HALF_OPEN_TESTING"
    <3>1. PICK d \in Callers : calls[d] = "trial"
      BY <2>1 DEF TestingIsHeld
    <3>2. calls'[d] = "trial"
      BY <3>1 DEF Allow, TypeOK
    <3> QED
      BY <3>2
  <2>2. CASE breaker.state # "HALF_OPEN_TESTING"
    <3>1. MaybeAdvance(breaker).state = "HALF_OPEN"
      BY <2>2 DEF Allow, AfterAllow, MaybeAdvance, TypeOK, Breakers
    <3>2. breaker.state # "CLOSED"
      BY <3>1 DEF MaybeAdvance, TypeOK, Breakers
    <3>3. calls'[c] = "trial"
      BY <3>1, <3>2 DEF Allow, Allows, TypeOK
    <3> QED
      BY <3>3
  <2> QED
    BY <2>1, <2>2
<1>3. TripHolds'
  <2> SUFFICES ASSUME sinceTrip < Cooldown
               PROVE  breaker' = breaker
    BY DEF TripHolds, Allow
  <2>1. breaker.state = "OPEN" /\ breaker.cooling # 0
    BY CooldownAssumption DEF TripHolds, TypeOK, Breakers
  <2> QED
    BY <2>1 DEF Allow, AfterAllow, MaybeAdvance
<1> QED
  BY <1>1, <1>2, <1>3

\* A report keeps the invariant: it ends the test, if there is one, and does nothing
\* to a breaker that a Trip has opened.
LEMMA ReportPreserves ==
    ASSUME IInv, NEW c \in Callers, ReportSuccess(c) \/ ReportFailure(c)
    PROVE  IInv'
<1> USE DEF IInv
<1>0. /\ breaker' = AfterSuccess(breaker) \/ breaker' = AfterFailure(breaker)
      /\ sinceTrip' = sinceTrip
      /\ \E next \in {"idle", "critical"} : calls' = [calls EXCEPT ![c] = next]
  BY DEF ReportSuccess, ReportFailure
<1>1. TypeOK'
  BY <1>0, MethodTypes DEF TypeOK
<1>2. TestingIsHeld'
  <2>1. breaker'.state # "HALF_OPEN_TESTING"
    BY <1>0 DEF AfterSuccess, AfterFailure, Tripped, TypeOK, Breakers
  <2> QED
    BY <2>1 DEF TestingIsHeld
<1>3. TripHolds'
  <2> SUFFICES ASSUME sinceTrip < Cooldown
               PROVE  breaker' = breaker
    BY <1>0 DEF TripHolds
  <2>1. breaker.state = "OPEN"
    BY DEF TripHolds
  <2> QED
    BY <1>0, <2>1 DEF AfterSuccess, AfterFailure
<1> QED
  BY <1>1, <1>2, <1>3

\* Trip keeps the invariant: it leaves no test and starts a whole cooldown.
LEMMA TripPreserves ==
    ASSUME IInv, NEW c \in Callers, TripAfterFailure(c) \/ KillSwitchTrip(c)
    PROVE  IInv'
<1> USE DEF IInv
<1>0. breaker' = Tripped /\ sinceTrip' = 0
  BY DEF TripAfterFailure, KillSwitchTrip
<1>1. TypeOK'
  <2>1. calls' \in [Callers -> InFlight \cup {"idle", "critical"}]
    BY DEF TripAfterFailure, KillSwitchTrip, Overtaken, TypeOK, InFlight
  <2> QED
    BY <1>0, <2>1, MethodTypes, CooldownAssumption DEF TypeOK
<1>2. TestingIsHeld'
  BY <1>0 DEF Tripped, TestingIsHeld
<1>3. TripHolds'
  BY <1>0, CooldownAssumption DEF Tripped, TripHolds
<1> QED
  BY <1>1, <1>2, <1>3

\* The clock keeps the invariant: it takes one tick off both sides of TripHolds.
LEMMA TickPreserves ==
    ASSUME IInv, Tick
    PROVE  IInv'
<1> USE DEF IInv
<1>1. TypeOK'
  BY MethodTypes, CooldownAssumption DEF TypeOK, Tick
<1>2. breaker'.state = breaker.state
  BY DEF Tick, Elapse, TypeOK, Breakers
<1>3. TestingIsHeld'
  BY <1>2 DEF TestingIsHeld, Tick
<1>4. TripHolds'
  <2> SUFFICES ASSUME sinceTrip' < Cooldown
               PROVE  breaker'.state = "OPEN" /\ breaker'.cooling >= Cooldown - sinceTrip'
    BY DEF TripHolds
  <2>1. sinceTrip < Cooldown /\ sinceTrip' = sinceTrip + 1
    BY CooldownAssumption DEF Tick, TypeOK
  <2>2. /\ breaker.state = "OPEN" /\ breaker.cooling >= Cooldown - sinceTrip
        /\ breaker.cooling \in 0..Cooldown /\ sinceTrip \in 0..Cooldown
    BY <2>1 DEF TripHolds, TypeOK, Breakers
  <2>3. breaker'.cooling = breaker.cooling - 1
    BY <2>1, <2>2, CooldownAssumption DEF Tick, Elapse, TypeOK, Breakers
  <2> QED
    BY <1>2, <2>1, <2>2, <2>3, CooldownAssumption
<1> QED
  BY <1>1, <1>3, <1>4

\* The three invariants hold in every reachable state of the breaker, for any number
\* of callers of Allow, ReportSuccess, ReportFailure and Trip.
THEOREM InductiveInvariant == Spec => []IInv
<1>1. IInv /\ [Next]_vars => IInv'
  <2> SUFFICES ASSUME IInv, [Next]_vars PROVE IInv'
    OBVIOUS
  <2>1. ASSUME NEW c \in Callers, Allow(c) PROVE IInv'
    BY <2>1, AllowPreserves
  <2>2. ASSUME NEW c \in Callers, ReportSuccess(c) \/ ReportFailure(c) PROVE IInv'
    BY <2>2, ReportPreserves
  <2>3. ASSUME NEW c \in Callers, TripAfterFailure(c) \/ KillSwitchTrip(c) PROVE IInv'
    BY <2>3, TripPreserves
  <2>4. CASE Tick
    BY <2>4, TickPreserves
  <2>5. CASE UNCHANGED vars
    BY <2>5 DEF vars, IInv, TypeOK, TestingIsHeld, TripHolds
  <2> QED
    BY <2>1, <2>2, <2>3, <2>4, <2>5 DEF Next, KillSwitch
<1> QED
  BY <1>1, InitEstablishes, PTL DEF Spec

\* The breaker and its callers are always of their types: no cooldown runs longer
\* than CircuitCooldown.
THEOREM BreakerTypeCorrect == Spec => []TypeOK
<1>1. IInv => TypeOK
  BY DEF IInv
<1> QED
  BY <1>1, InductiveInvariant, PTL

\* The trial slot of a HALF_OPEN breaker is never lost, for any number of callers.
THEOREM TrialSlotNeverLost == Spec => []TestingIsHeld
<1>1. IInv => TestingIsHeld
  BY DEF IInv
<1> QED
  BY <1>1, InductiveInvariant, PTL

\* A Trip holds for its whole cooldown, whatever late reports arrive, for any number
\* of callers and any cooldown.
THEOREM TripHoldsItsCooldown == Spec => []TripHolds
<1>1. IInv => TripHolds
  BY DEF IInv
<1> QED
  BY <1>1, InductiveInvariant, PTL
=============================================================================
