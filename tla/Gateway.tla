------------------------------ MODULE Gateway ------------------------------
(***************************************************************************)
(* Requests on their way through Gateway.HandleRequest and                 *)
(* Engine.Evaluate: estimate, kill switch, circuit breaker, risk verdict,  *)
(* reservation, upstream call, reconciliation.  One step is one call that  *)
(* takes a lock (of the manager, a breaker, the kill switches, the         *)
(* tracker), together with the ledger entries the same goroutine appends   *)
(* right after it where no property can tell the two apart.                *)
(*                                                                         *)
(* Request r uses reservation r of the reservation manager.  The risk      *)
(* score is an arbitrary verdict: whatever score returns, the pipeline has *)
(* to keep the books, the breaker and the ledger in order.                 *)
(***************************************************************************)
EXTENDS Breaker, Sums, Sequences

CONSTANTS
    Tenants, MaxReservations, Amounts, Costs, Limits, TTL, Sweepers,  \* see Reservation
    Providers,   \* providers a route may name
    Registered,  \* the providers in the provider registry
    Switches     \* the kill switches operated: <<"all">>, <<"tenant", t>>, <<"provider", p>>

VARIABLES
    limit, reserved, settled, reservations, answers, sweep, peak,     \* see Reservation
    breakers,    \* tenantState.breaker
    tracked,     \* the sum of the costs recorded in tenantState.tracker
    kills,       \* the kill switches that are on
    requests,    \* the local state of each HandleRequest call
    ledger,      \* the ledger's events, request by request
    ahead        \* history: the requests that had passed the check of a switch when it
                 \* was last turned on

R == INSTANCE Reservation

ASSUME GatewayAssumptions == R!ReservationAssumptions /\ Providers # {}

manager == <<limit, reserved, settled, reservations, answers, sweep, peak>>
switches == <<kills, ahead>>
vars == <<manager, breakers, tracked, switches, requests, ledger>>

Requests == 1..MaxReservations

\* The steps of Evaluate from Allow to the last report it owes the breaker.
Judging == {"score", "reserve", "stamp", "publish", "succeed", "fail"}
Steps == {"new", "check", "killed", "gate", "trip", "execute", "upstream", "release",
          "released", "reconcile", "reconciled", "record", "done"} \cup Judging
Verdicts == {"allow", "throttle", "block", "critical"}
Errors == {"pricing", "provider", "upstream", "terminal"}
EventTypes == {"REQUEST_ESTIMATED", "RESERVATION_CREATED", "REQUEST_ALLOWED",
               "REQUEST_THROTTLED", "REQUEST_BLOCKED", "REQUEST_EXECUTED", "USAGE_REPORTED",
               "COST_RECONCILED", "RESERVATION_RELEASED", "REQUEST_FAILED"}

\* The local variables of every step and the contents of the ledger have the types
\* the code gives them, and no request logs more than the six events of a full run.
TypeOK ==
    /\ R!TypeOK
    /\ breakers \in [Tenants -> Breakers]
    /\ tracked \in [Tenants -> Nat]
    /\ kills \subseteq Switches
    /\ requests \in [Requests -> [pc: Steps, tenant: Tenants, provider: Providers,
                                  estimate: Nat, verdict: Verdicts \cup {"none"}, cost: Nat,
                                  err: Errors \cup {"none"}]]
    /\ ahead \in [Switches -> SUBSET Requests]
    /\ \A r \in Requests : /\ ledger[r] \in Seq([type: EventTypes, amount: Nat])
                           /\ Len(ledger[r]) <= 6

Init ==
    /\ R!Init
    /\ breakers = [t \in Tenants |-> NewBreaker]
    /\ tracked = [t \in Tenants |-> 0]
    /\ kills = {}
    /\ requests = [r \in Requests |->
                     [pc |-> "new", tenant |-> CHOOSE t \in Tenants : TRUE,
                      provider |-> CHOOSE p \in Providers : TRUE, estimate |-> 0,
                      verdict |-> "none", cost |-> 0, err |-> "none"]]
    /\ ledger = [r \in Requests |-> <<>>]
    /\ ahead = [k \in Switches |-> {}]
-----------------------------------------------------------------------------
At(r, pc) == requests[r].pc = pc
Goto(r, pc) == requests' = [requests EXCEPT ![r].pc = pc]
\* HandleRequest returns with a verdict, or with an error.
Answer(r, v) == requests' = [requests EXCEPT ![r].pc = "done", ![r].verdict = v]
Return(r, e) == requests' = [requests EXCEPT ![r].pc = "done", ![r].err = e]

Event(type, amount) == [type |-> type, amount |-> amount]
Append1(r, e) == ledger' = [ledger EXCEPT ![r] = Append(@, e)]
Append2(r, e, f) == ledger' = [ledger EXCEPT ![r] = @ \o <<e, f>>]

\* The breaker of the request's tenant becomes b.
BreakerOf(r) == breakers[requests[r].tenant]
SetBreaker(r, b) == breakers' = [breakers EXCEPT ![requests[r].tenant] = b]

\* RateAt and Estimate.  Requests are numbered in the order in which they arrive.
Estimate(r, t, p, a) ==
    /\ At(r, "new")
    /\ \A q \in 1..(r-1) : ~At(q, "new")
    /\ requests' = [requests EXCEPT ![r].pc = "check", ![r].tenant = t,
                                    ![r].provider = p, ![r].estimate = a]
    /\ Append1(r, Event("REQUEST_ESTIMATED", a))
    /\ UNCHANGED <<manager, breakers, tracked, switches>>

\* RateAt finds no rate.
PricingFails(r) ==
    /\ At(r, "new")
    /\ \A q \in 1..(r-1) : ~At(q, "new")
    /\ Return(r, "pricing")
    /\ Append1(r, Event("REQUEST_FAILED", 0))
    /\ UNCHANGED <<manager, breakers, tracked, switches>>
-----------------------------------------------------------------------------
\* The switches killSwitchActive asks for.
Covering(r) == {<<"all">>, <<"tenant", requests[r].tenant>>, <<"provider", requests[r].provider>>}

\* Faulty variant of Killed: the switches of providers are forgotten.
KilledAnyProvider(r) == kills \cap {<<"all">>, <<"tenant", requests[r].tenant>>} # {}

\* killSwitchActive, under the engine's mutex.
Killed(r) == kills \cap Covering(r) # {}

CheckKillSwitch(r) ==
    /\ At(r, "check")
    /\ Goto(r, IF Killed(r) THEN "killed" ELSE "gate")
    /\ UNCHANGED <<manager, breakers, tracked, switches, ledger>>

\* Trip and State, then the BLOCKED event of HandleRequest.
Kill(r) ==
    /\ At(r, "killed")
    /\ SetBreaker(r, MaybeAdvance(Tripped))
    /\ Answer(r, "block")
    /\ Append1(r, Event("REQUEST_BLOCKED", 0))
    /\ UNCHANGED <<manager, tracked, switches>>

Admit(r) ==
    /\ At(r, "gate")
    /\ Allows(BreakerOf(r))
    /\ SetBreaker(r, AfterAllow(BreakerOf(r)))
    /\ Goto(r, "score")
    /\ UNCHANGED <<manager, tracked, switches, ledger>>

\* CIRCUIT_OPEN.
Refuse(r) ==
    /\ At(r, "gate")
    /\ ~Allows(BreakerOf(r))
    /\ SetBreaker(r, MaybeAdvance(AfterAllow(BreakerOf(r))))
    /\ Answer(r, "block")
    /\ Append1(r, Event("REQUEST_BLOCKED", 0))
    /\ UNCHANGED <<manager, tracked, switches>>

\* The reads of tracker and account and the score they give; State advances the
\* breaker when a Trip of another request has cooled down meanwhile.
Score(r, v) ==
    /\ At(r, "score")
    /\ SetBreaker(r, MaybeAdvance(BreakerOf(r)))
    /\ requests' = [requests EXCEPT ![r].verdict = v,
                                    ![r].pc = IF v \in {"block", "critical"} THEN "fail"
                                                                             ELSE "reserve"]
    /\ UNCHANGED <<manager, tracked, switches, ledger>>
-----------------------------------------------------------------------------
\* Reserve, in the three steps of Reservation, for verdicts allow and throttle.
Reserve(r) ==
    \/ /\ At(r, "reserve")
       /\ R!ReserveCharge(r, requests[r].tenant, requests[r].estimate)
       /\ Goto(r, "stamp")
    \/ /\ At(r, "stamp")
       /\ R!ReserveStamp(r)
       /\ Goto(r, "publish")
    \/ /\ At(r, "publish")
       /\ R!ReservePublish(r)
       /\ Goto(r, "succeed")

\* Faulty variant of ReserveFails: returns without a report to the breaker.
ReserveFailsUnreported(r) ==
    /\ At(r, "reserve")
    /\ ~R!Affords(requests[r].tenant, requests[r].estimate)
    /\ Answer(r, "block")
    /\ UNCHANGED manager

\* Faulty variant of ReserveFails: goes on as if the budget were reserved.
ReserveFailsIgnored(r) ==
    /\ At(r, "reserve")
    /\ ~R!Affords(requests[r].tenant, requests[r].estimate)
    /\ Goto(r, "succeed")
    /\ UNCHANGED manager

\* ErrInsufficientBudget: a BLOCK that is not critical.
ReserveFails(r) ==
    /\ At(r, "reserve")
    /\ ~R!Affords(requests[r].tenant, requests[r].estimate)
    /\ requests' = [requests EXCEPT ![r].pc = "fail", ![r].verdict = "block"]
    /\ UNCHANGED manager

EvaluateReserve(r) ==
    /\ Reserve(r) \/ ReserveFails(r)
    /\ UNCHANGED <<breakers, tracked, switches, ledger>>

\* ReportFailure; a score at CRITICAL level goes on to trip the breaker.
Fail(r) ==
    /\ At(r, "fail")
    /\ SetBreaker(r, AfterFailure(BreakerOf(r)))
    /\ \/ /\ requests[r].verdict = "critical"
          /\ Goto(r, "trip")
          /\ UNCHANGED ledger
       \/ /\ requests[r].verdict # "critical"
          /\ Goto(r, "done")
          /\ Append1(r, Event("REQUEST_BLOCKED", 0))
    /\ UNCHANGED <<manager, tracked, switches>>

Trip(r) ==
    /\ At(r, "trip")
    /\ SetBreaker(r, MaybeAdvance(Tripped))
    /\ Goto(r, "done")
    /\ Append1(r, Event("REQUEST_BLOCKED", 0))
    /\ UNCHANGED <<manager, tracked, switches>>

\* ReportSuccess ends Evaluate.  A request that is allowed goes on to the provider,
\* a throttled one is answered at once and keeps its reservation.
Succeed(r) ==
    /\ At(r, "succeed")
    /\ SetBreaker(r, AfterSuccess(BreakerOf(r)))
    /\ \/ /\ requests[r].verdict = "allow"
          /\ Goto(r, "execute")
          /\ Append2(r, Event("RESERVATION_CREATED", requests[r].estimate),
                        Event("REQUEST_ALLOWED", requests[r].estimate))
       \/ /\ requests[r].verdict = "throttle"
          /\ Goto(r, "done")
          /\ Append2(r, Event("RESERVATION_CREATED", requests[r].estimate),
                        Event("REQUEST_THROTTLED", 0))
    /\ UNCHANGED <<manager, tracked, switches>>
-----------------------------------------------------------------------------
\* Providers.Get finds the provider and Execute is under way, or it does not.
Execute(r) ==
    /\ At(r, "execute")
    /\ \/ /\ requests[r].provider \in Registered
          /\ Goto(r, "upstream")
       \/ /\ requests[r].provider \notin Registered
          /\ requests' = [requests EXCEPT ![r].pc = "release", ![r].err = "provider"]
    /\ UNCHANGED <<manager, breakers, tracked, switches, ledger>>

\* Execute returns an error: timeout, transport, or unreadable usage.
ExecuteFails(r) ==
    /\ At(r, "upstream")
    /\ requests' = [requests EXCEPT ![r].pc = "release", ![r].err = "upstream"]
    /\ UNCHANGED <<manager, breakers, tracked, switches, ledger>>

\* Execute returns usage that costs c.
ExecuteReturns(r, c) ==
    /\ At(r, "upstream")
    /\ requests' = [requests EXCEPT ![r].pc = "reconcile", ![r].cost = c]
    /\ Append2(r, Event("REQUEST_EXECUTED", 0), Event("USAGE_REPORTED", c))
    /\ UNCHANGED <<manager, breakers, tracked, switches>>

\* Faulty variant of Release: the books are left as they are.
ReleaseForgotten(r) ==
    /\ At(r, "release")
    /\ Goto(r, "released")
    /\ UNCHANGED <<manager, breakers, tracked, switches, ledger>>

\* Release does nothing to a reservation that ExpireStale has closed.
Release(r) ==
    /\ At(r, "release")
    /\ \/ R!Release(r)
       \/ ~R!StillReserved(r) /\ UNCHANGED manager
    /\ Goto(r, "released")
    /\ UNCHANGED <<breakers, tracked, switches, ledger>>

LogRelease(r) ==
    /\ At(r, "released")
    /\ Goto(r, "done")
    /\ \/ /\ requests[r].err = "upstream"
          /\ Append2(r, Event("RESERVATION_RELEASED", 0), Event("REQUEST_FAILED", 0))
       \/ /\ requests[r].err = "provider"
          /\ Append1(r, Event("RESERVATION_RELEASED", 0))
    /\ UNCHANGED <<manager, breakers, tracked, switches>>

Reconcile(r) ==
    /\ At(r, "reconcile")
    /\ R!ReconcileFirst(r, requests[r].cost)
    /\ Goto(r, "reconciled")
    /\ UNCHANGED <<breakers, tracked, switches, ledger>>

\* Faulty variant of ReconcileFails: the error is logged and not returned.
ReconcileFailsSilently(r) ==
    /\ At(r, "reconcile")
    /\ ~R!StillReserved(r)
    /\ Goto(r, "done")
    /\ Append1(r, Event("REQUEST_FAILED", 0))
    /\ UNCHANGED <<manager, breakers, tracked, switches>>

\* ErrTerminalState: ExpireStale was faster than the provider.
ReconcileFails(r) ==
    /\ At(r, "reconcile")
    /\ ~R!StillReserved(r)
    /\ Return(r, "terminal")
    /\ Append1(r, Event("REQUEST_FAILED", 0))
    /\ UNCHANGED <<manager, breakers, tracked, switches>>

\* Faulty variant of LogReconcile: logs the estimate as the cost.
LogReconcileEstimate(r) ==
    /\ At(r, "reconciled")
    /\ Goto(r, "record")
    /\ Append1(r, Event("COST_RECONCILED", requests[r].estimate))
    /\ UNCHANGED <<manager, breakers, tracked, switches>>

LogReconcile(r) ==
    /\ At(r, "reconciled")
    /\ Goto(r, "record")
    /\ Append1(r, Event("COST_RECONCILED", requests[r].cost))
    /\ UNCHANGED <<manager, breakers, tracked, switches>>

RecordUsage(r) ==
    /\ At(r, "record")
    /\ tracked' = [tracked EXCEPT ![requests[r].tenant] = @ + requests[r].cost]
    /\ Goto(r, "done")
    /\ UNCHANGED <<manager, breakers, switches, ledger>>
-----------------------------------------------------------------------------
Checked(r) == requests[r].pc \notin {"new", "check"}

\* KillAll, KillTenant and KillProvider.
SetKillSwitch(k, on) ==
    /\ kills' = IF on THEN kills \cup {k} ELSE kills \ {k}
    /\ ahead' = IF on /\ k \in kills THEN ahead
                ELSE [ahead EXCEPT ![k] = IF on THEN {r \in Requests : Checked(r)} ELSE {}]
    /\ UNCHANGED <<manager, breakers, tracked, requests, ledger>>

SetBudget(t, l) ==
    /\ R!SetBudget(t, l)
    /\ UNCHANGED <<breakers, tracked, switches, requests, ledger>>

ExpireStale(s) ==
    /\ R!ExpireStale(s)
    /\ UNCHANGED <<breakers, tracked, switches, requests, ledger>>

\* One clock for deadlines and cooldowns.
Tick ==
    /\ \/ R!Tick
       \/ /\ \A r \in Requests : ~R!Running(r)
          /\ \E t \in Tenants : breakers[t].cooling > 0
          /\ UNCHANGED manager
    /\ breakers' = [t \in Tenants |-> Elapse(breakers[t])]
    /\ UNCHANGED <<tracked, switches, requests, ledger>>

Evaluate(r) ==
    \/ CheckKillSwitch(r) \/ Kill(r) \/ Admit(r) \/ Refuse(r)
    \/ \E v \in Verdicts : Score(r, v)
    \/ EvaluateReserve(r) \/ Fail(r) \/ Trip(r) \/ Succeed(r)

Deliver(r) ==
    \/ Execute(r) \/ ExecuteFails(r)
    \/ \E c \in Costs : ExecuteReturns(r, c)
    \/ Release(r) \/ LogRelease(r)
    \/ Reconcile(r) \/ ReconcileFails(r) \/ LogReconcile(r) \/ RecordUsage(r)

Arrive(r) ==
    \/ \E t \in Tenants, p \in Providers, a \in Amounts : Estimate(r, t, p, a)
    \/ PricingFails(r)

Next ==
    \/ \E r \in Requests : Arrive(r) \/ Evaluate(r) \/ Deliver(r)
    \/ \E k \in Switches, on \in BOOLEAN : SetKillSwitch(k, on)
    \/ \E t \in Tenants, l \in Limits : SetBudget(t, l)
    \/ \E s \in Sweepers : ExpireStale(s)
    \/ Tick

Spec == Init /\ [][Next]_vars

\* A handler that has begun goes on: nothing in it waits but the upstream call,
\* which the HTTP client's timeout ends.
FairSpec == Spec /\ \A r \in Requests : WF_vars(Evaluate(r) \/ Deliver(r))
-----------------------------------------------------------------------------
Logged(r, type) == \E i \in DOMAIN ledger[r] : ledger[r][i].type = type
LoggedCost(r) ==
    IF Logged(r, "COST_RECONCILED")
    THEN (CHOOSE e \in {ledger[r][i] : i \in DOMAIN ledger[r]} : e.type = "COST_RECONCILED").amount
    ELSE 0

\* What request r contributes to the books of tenant t, if its step is one of pcs.
CostAt(t, pcs) ==
    [r \in Requests |-> IF requests[r].tenant = t /\ requests[r].pc \in pcs
                        THEN requests[r].cost ELSE 0]
LedgerCosts(t) == [r \in Requests |-> IF requests[r].tenant = t THEN LoggedCost(r) ELSE 0]

\* Three accounts of a tenant's spend agree at every moment up to the requests
\* between their Reconcile and their last step: what the manager has settled, the
\* COST_RECONCILED events of the ledger, and what the risk engine's tracker has
\* seen.  No cost that was reconciled is lost, counted twice or booked to another
\* tenant.  A cost whose Reconcile failed is in none of the three.
SpendAccounted ==
    \A t \in Tenants :
        LET logged == Total(LedgerCosts(t), MaxReservations)
        IN  /\ settled[t] = logged + Total(CostAt(t, {"reconciled"}), MaxReservations)
            /\ logged = tracked[t] + Total(CostAt(t, {"record"}), MaxReservations)

\* A tenant has spent and reserved more than the highest budget it ever had only if the
\* provider charged one of its requests more than Evaluate had estimated: neither the
\* interleaving of the requests, nor a sweep that takes a reservation under a call
\* that is still running, lets it past its budget.
OverspendFromEstimate ==
    \A t \in Tenants : reserved[t] + settled[t] > peak[t] =>
        \E r \in Requests : requests[r].tenant = t /\ requests[r].cost > requests[r].estimate

\* Every upstream call is made, and its usage reconciled, while the request holds
\* the budget it was estimated at, whatever other requests and SetBudget did since its
\* score; the only way to lose it is a sweep after the ttl has passed.
BudgetHeldUpstream ==
    \A r \in Requests :
        requests[r].pc \in {"execute", "upstream", "reconcile", "release"}
            => /\ \/ reservations[r].state = "RESERVED"
                  \/ reservations[r].state = "EXPIRED" /\ reservations[r].left < 0
               /\ reservations[r].tenant = requests[r].tenant
               /\ reservations[r].amount = requests[r].estimate

\* The ledger tells what became of the budget of a finished request: reserved or
\* not, and then reconciled, or released, or left in the reservation of a throttled
\* request, the last two up to an expiry, which is not logged.
LedgerTellsFate ==
    \A r \in Requests : At(r, "done") =>
        LET fate(logged, state) ==
                /\ Logged(r, logged) => reservations[r].state \in {state, "EXPIRED"}
                /\ reservations[r].state = state => Logged(r, logged)
        IN  /\ Logged(r, "RESERVATION_CREATED") <=> reservations[r].state # "FREE"
            /\ Logged(r, "COST_RECONCILED") <=> reservations[r].state = "RECONCILED"
            /\ fate("RESERVATION_RELEASED", "RELEASED")
            /\ fate("REQUEST_THROTTLED", "RESERVED")

\* The answer handleProxy makes of the result of HandleRequest.
Status(r) ==
    CASE requests[r].verdict \in {"block", "critical"} -> 402
      [] requests[r].verdict = "throttle" -> 429
      [] requests[r].verdict \in {"allow", "none"} ->
             IF requests[r].err = "none" THEN 200 ELSE 502

\* The caller is told 200 exactly if the request has been executed and its cost
\* settled, 429 only with the budget reserved, 402 only if nothing was ever reserved,
\* and 502 only if nothing is held or charged any more - with the risk verdict, the
\* error and the fate of the reservation decided in different steps and a sweep
\* running between them.
AnswerTellsCharge ==
    \A r \in Requests : At(r, "done") =>
        LET state == reservations[r].state
        IN  /\ Status(r) = 200 <=> state = "RECONCILED"
            /\ Status(r) = 429 => state \in {"RESERVED", "EXPIRED"}
            /\ Status(r) = 402 => state = "FREE"
            /\ Status(r) = 502 => state \in {"FREE", "RELEASED", "EXPIRED"}

\* While a kill switch is on, of the requests it covers only those that had passed
\* its check when it was turned on reserve budget, are sent upstream or are charged:
\* the switch takes effect at once, whichever its scope, and the one check per
\* request is enough.
KillSwitchStops ==
    \A k \in kills, r \in Requests :
        k \in Covering(r) /\ reservations[r].state # "FREE" => r \in ahead[k]

\* A breaker that is testing has a request of its tenant inside Evaluate that still
\* owes it a report: every way out of Evaluate after Allow reports.
TrialIsJudged ==
    \A t \in Tenants : breakers[t].state = "HALF_OPEN_TESTING" =>
        \E r \in Requests : requests[r].tenant = t /\ requests[r].pc \in Judging

\* The test of ExpireStale: "a crashed/hung request must not hold budget hostage
\* forever" - with the wiring of cmd/gateway, in which nobody calls ExpireStale.
BudgetReturned ==
    \A r \in Requests : reservations[r].state = "RESERVED"
                           ~> reservations[r].state \in R!Final

\* The comment on ReportSuccess: it "should be called after an Allow()==true request
\* completes successfully", so a breaker under test is closed by a request that ran.
ClosedByCompletedRequest ==
    [][\A t \in Tenants :
          breakers[t].state = "HALF_OPEN_TESTING" /\ breakers'[t].state = "CLOSED" =>
              \E r \in Requests : requests[r].tenant = t /\ Logged(r, "REQUEST_EXECUTED")]_vars
=============================================================================
