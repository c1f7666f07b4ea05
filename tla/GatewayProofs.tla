--------------------------- MODULE GatewayProofs ---------------------------
(***************************************************************************)
(* Proofs about the request pipeline, for every set of tenants, providers  *)
(* and kill switches, every number of requests and of ExpireStale calls,   *)
(* and whatever the risk score says.                                       *)
(***************************************************************************)
EXTENDS Gateway, SumsProofs, TLAPS

\* The provers' limits are wall-clock time: a minute instead of the default five
\* seconds, so that a loaded machine does not decide what is proved.
USE SMTT(60), ZenonT(60)

Locals == [pc: Steps, tenant: Tenants, provider: Providers, estimate: Amounts \cup {0},
           verdict: Verdicts \cup {"none"}, cost: Costs \cup {0}, err: Errors \cup {"none"}]

\* What the manager is called with: amounts and costs of the sets it is specified for.
LocalsOK ==
    /\ requests \in [Requests -> Locals]
    /\ \A r \in Requests : /\ requests[r].pc \notin {"new", "done"} => requests[r].estimate \in Amounts
                           /\ requests[r].pc = "reconcile" => requests[r].cost \in Costs

\* HandleRequest has not begun in the initial state.
LEMMA LocalsInit == Init => LocalsOK
BY GatewayAssumptions DEF Init, LocalsOK, Locals, R!ReservationAssumptions, Steps, Verdicts, Errors

\* Every step of HandleRequest and Evaluate keeps the types of its local variables,
\* and no other step touches them.
LEMMA LocalsStep == LocalsOK /\ [Next]_vars => LocalsOK'
<1> SUFFICES ASSUME LocalsOK, [Next]_vars PROVE LocalsOK'
  OBVIOUS
<1> USE DEF LocalsOK, Locals, Steps, Judging, Verdicts, Errors, At
<1>1. ASSUME NEW r \in Requests, Arrive(r) PROVE LocalsOK'
  <2>1. ASSUME NEW t \in Tenants, NEW p \in Providers, NEW a \in Amounts, Estimate(r, t, p, a)
        PROVE  LocalsOK'
    <3> DEFINE q == [requests[r] EXCEPT !.pc = "check", !.tenant = t, !.provider = p, !.estimate = a]
    <3>1. q \in Locals /\ q.pc = "check" /\ q.estimate = a
      BY ZenonT(60)
    <3>2. requests' = [requests EXCEPT ![r] = q]
      BY <2>1, Zenon DEF Estimate
    <3> QED
      BY <3>1, <3>2
  <2>2. ASSUME PricingFails(r) PROVE LocalsOK'
    <3> DEFINE q == [requests[r] EXCEPT !.pc = "done", !.err = "pricing"]
    <3>1. q \in Locals /\ q.pc = "done"
      BY ZenonT(60)
    <3>2. requests' = [requests EXCEPT ![r] = q]
      BY <2>2, Zenon DEF PricingFails, Return
    <3> QED
      BY <3>1, <3>2
  <2> QED
    BY <1>1, <2>1, <2>2 DEF Arrive
<1>2. ASSUME NEW r \in Requests, CheckKillSwitch(r) \/ Kill(r) \/ Admit(r) \/ Refuse(r)
      PROVE  LocalsOK'
  BY <1>2 DEF CheckKillSwitch, Kill, Admit, Refuse, Goto, Answer
<1>3. ASSUME NEW r \in Requests, NEW v \in Verdicts, Score(r, v) PROVE LocalsOK'
  BY <1>3 DEF Score
<1>4. ASSUME NEW r \in Requests, EvaluateReserve(r) PROVE LocalsOK'
  BY <1>4 DEF EvaluateReserve, Reserve, ReserveFails, Goto
<1>5. ASSUME NEW r \in Requests, Fail(r) \/ Trip(r) \/ Succeed(r) PROVE LocalsOK'
  BY <1>5 DEF Fail, Trip, Succeed, Goto
<1>6. ASSUME NEW r \in Requests, Execute(r) \/ ExecuteFails(r) PROVE LocalsOK'
  BY <1>6 DEF Execute, ExecuteFails, Goto
<1>7. ASSUME NEW r \in Requests, NEW c \in Costs, ExecuteReturns(r, c) PROVE LocalsOK'
  <2> DEFINE q == [requests[r] EXCEPT !.pc = "reconcile", !.cost = c]
  <2>1. q \in Locals /\ q.pc = "reconcile" /\ q.cost = c /\ q.estimate = requests[r].estimate
    BY ZenonT(60)
  <2>2. requests' = [requests EXCEPT ![r] = q] /\ requests[r].estimate \in Amounts
    BY <1>7, Zenon DEF ExecuteReturns
  <2> QED
    BY <2>1, <2>2
<1>8. ASSUME NEW r \in Requests, Release(r) \/ LogRelease(r) PROVE LocalsOK'
  BY <1>8 DEF Release, LogRelease, Goto
<1>9. ASSUME NEW r \in Requests,
             Reconcile(r) \/ ReconcileFails(r) \/ LogReconcile(r) \/ RecordUsage(r)
      PROVE  LocalsOK'
  BY <1>9 DEF Reconcile, ReconcileFails, LogReconcile, RecordUsage, Goto, Return
<1>10. CASE UNCHANGED requests
  BY <1>10
<1> QED
  BY <1>1, <1>2, <1>3, <1>4, <1>5, <1>6, <1>7, <1>8, <1>9, <1>10, Zenon
     DEF Next, Evaluate, Deliver, SetKillSwitch, SetBudget, ExpireStale, Tick, vars

\* A step of the gateway is a step of the manager or leaves it alone: the pipeline
\* calls Reserve, Release and Reconcile with arguments they are specified for.
LEMMA ManagerStep == LocalsOK /\ [Next]_vars => [R!Next]_(R!vars)
<1> SUFFICES ASSUME LocalsOK, [Next]_vars PROVE R!Next \/ UNCHANGED manager
  BY DEF manager, R!vars
<1>a. R!Ids = Requests
  BY DEF R!Ids, Requests
<1>1. ASSUME NEW r \in Requests, Arrive(r) PROVE UNCHANGED manager
  BY <1>1, Zenon DEF Arrive, Estimate, PricingFails
<1>2. ASSUME NEW r \in Requests, EvaluateReserve(r) PROVE R!Next \/ UNCHANGED manager
  <2>1. CASE At(r, "reserve") /\ R!ReserveCharge(r, requests[r].tenant, requests[r].estimate)
    <3>1. requests[r].tenant \in Tenants /\ requests[r].estimate \in Amounts
      BY <2>1 DEF LocalsOK, Locals, At
    <3> QED
      BY <2>1, <3>1, <1>a DEF R!Next
  <2> QED
    BY <1>2, <2>1, <1>a DEF EvaluateReserve, Reserve, ReserveFails, R!Next
<1>3. ASSUME NEW r \in Requests, Evaluate(r), ~EvaluateReserve(r) PROVE UNCHANGED manager
  BY <1>3, Zenon DEF Evaluate, CheckKillSwitch, Kill, Admit, Refuse, Score, Fail, Trip, Succeed
<1>4. ASSUME NEW r \in Requests, Reconcile(r) PROVE R!Next
  <2>1. requests[r].cost \in Costs /\ R!ReconcileFirst(r, requests[r].cost)
    BY <1>4 DEF LocalsOK, Reconcile, At
  <2> QED
    BY <2>1, <1>a DEF R!Next
<1>5. ASSUME NEW r \in Requests, Release(r) PROVE R!Next \/ UNCHANGED manager
  BY <1>5, <1>a DEF Release, R!Next
<1>6. ASSUME NEW r \in Requests, Deliver(r), ~Release(r), ~Reconcile(r) PROVE UNCHANGED manager
  BY <1>6 DEF Deliver, Execute, ExecuteFails, ExecuteReturns, LogRelease, ReconcileFails,
              LogReconcile, RecordUsage
<1>7. ASSUME NEW k \in Switches, NEW on \in BOOLEAN, SetKillSwitch(k, on) PROVE UNCHANGED manager
  BY <1>7 DEF SetKillSwitch
<1>8. ASSUME NEW t \in Tenants, NEW l \in Limits, SetBudget(t, l) PROVE R!Next
  BY <1>8 DEF SetBudget, R!Next
<1>9. ASSUME NEW s \in Sweepers, ExpireStale(s) PROVE R!Next
  BY <1>9 DEF ExpireStale, R!Next
<1>10. CASE Tick
  BY <1>10 DEF Tick, R!Next
<1>11. CASE UNCHANGED vars
  BY <1>11 DEF vars
<1> QED
  BY <1>1, <1>2, <1>3, <1>4, <1>5, <1>6, <1>7, <1>8, <1>9, <1>10, <1>11 DEF Next

\* Seen from the reservation manager, the gateway is one of the programs it is
\* specified for.
THEOREM GatewayUsesManager == Spec => R!Spec
<1>1. Init => R!Init
  BY DEF Init
<1> QED
  BY <1>1, LocalsInit, LocalsStep, ManagerStep, PTL DEF Spec, R!Spec

\* Where request q stands and what its reservation s is: the steps of Reserve go
\* with the states of its record, a report of success with a reservation that is
\* held or was swept, and the answer with what became of it.
Linked(q, s) ==
    /\ q.pc \in {"new", "check", "killed", "gate", "score"}
          => s.state = "FREE" /\ q.verdict = "none" /\ q.err = "none"
    /\ q.pc \in {"fail", "trip"}
          => s.state = "FREE" /\ q.verdict \in {"block", "critical"} /\ q.err = "none"
    /\ q.pc \in {"reserve", "stamp", "publish", "succeed"}
          => q.verdict \in {"allow", "throttle"} /\ q.err = "none"
    /\ q.pc = "reserve" => s.state = "FREE"
    /\ q.pc = "stamp" => s.state = "CHARGED"
    /\ q.pc = "publish" => s.state = "STAMPED"
    /\ q.pc \in {"stamp", "publish", "succeed", "execute", "upstream", "reconcile", "release"}
          => s.tenant = q.tenant /\ s.amount = q.estimate
    /\ q.pc \in {"succeed", "execute", "upstream", "reconcile", "release"}
          => s.state \in {"RESERVED", "EXPIRED"}
    /\ q.pc \in {"execute", "upstream", "reconcile", "reconciled", "record"}
          => q.verdict = "allow" /\ q.err = "none"
    /\ q.pc \in {"release", "released"}
          => q.verdict = "allow" /\ q.err \in {"provider", "upstream"}
    /\ q.pc = "released" => s.state \in {"RELEASED", "EXPIRED"}
    /\ q.pc \in {"reconciled", "record"} => s.state = "RECONCILED"
    /\ q.pc = "done" =>
          \/ q.verdict \in {"block", "critical"} /\ s.state = "FREE"
          \/ q.verdict = "throttle" /\ s.state \in {"RESERVED", "EXPIRED"}
          \/ q.verdict = "allow" /\ q.err = "none" /\ s.state = "RECONCILED"
          \/ q.verdict = "allow" /\ q.err \in {"provider", "upstream"} /\ s.state \in {"RELEASED", "EXPIRED"}
          \/ q.verdict = "allow" /\ q.err = "terminal" /\ s.state = "EXPIRED"
          \/ q.verdict = "none" /\ q.err = "pricing" /\ s.state = "FREE"

Links == \A r \in Requests : Linked(requests[r], reservations[r])

\* No request has begun, and nothing is reserved.
LEMMA LinksInit == Init => Links
BY DEF Init, Links, Linked, R!Init, R!Free, R!Ids, Requests

\* A step of a request's own keeps it linked to its reservation, and leaves the other
\* requests and reservations alone.
LEMMA OwnStep ==
    ASSUME LocalsOK, R!TypeOK, Links, NEW r \in Requests, Arrive(r) \/ Evaluate(r) \/ Deliver(r)
    PROVE  /\ Linked(requests'[r], reservations'[r])
           /\ \A x \in Requests \ {r} : /\ requests'[x] = requests[x]
                                         /\ reservations'[x] = reservations[x]
<1> DEFINE P == /\ Linked(requests'[r], reservations'[r])
                /\ \A x \in Requests \ {r} : /\ requests'[x] = requests[x]
                                              /\ reservations'[x] = reservations[x]
<1>a. /\ requests \in [Requests -> Locals] /\ reservations \in [Requests -> R!Reservations]
      /\ Linked(requests[r], reservations[r])
  BY DEF LocalsOK, R!TypeOK, R!Ids, Requests, Links
<1> USE <1>a DEF At, Locals, Linked, manager
<1>1. ASSUME NEW t \in Tenants, NEW p \in Providers, NEW a \in Amounts, Estimate(r, t, p, a) PROVE P
  BY <1>1 DEF Estimate
<1>2. CASE PricingFails(r)
  BY <1>2 DEF PricingFails, Return
<1>3. CASE CheckKillSwitch(r) \/ Kill(r)
  BY <1>3 DEF CheckKillSwitch, Kill, Goto, Answer
<1>4. CASE Admit(r) \/ Refuse(r)
  BY <1>4 DEF Admit, Refuse, Goto, Answer
<1>5. ASSUME NEW v \in Verdicts, Score(r, v) PROVE P
  BY <1>5 DEF Score, Verdicts
<1>6. CASE EvaluateReserve(r)
  <2>1. CASE At(r, "reserve") /\ R!ReserveCharge(r, requests[r].tenant, requests[r].estimate)
                             /\ Goto(r, "stamp")
    <3> DEFINE s == [R!Free EXCEPT !.tenant = requests[r].tenant, !.amount = requests[r].estimate,
                                   !.state = "CHARGED"]
    <3>1. s.tenant = requests[r].tenant /\ s.amount = requests[r].estimate /\ s.state = "CHARGED"
      BY DEF R!Free
    <3>2. reservations' = [reservations EXCEPT ![r] = s]
      BY <2>1 DEF R!ReserveCharge
    <3> HIDE DEF s
    <3> QED
      BY <2>1, <3>1, <3>2 DEF Goto
  <2>2. CASE At(r, "stamp") /\ R!ReserveStamp(r) /\ Goto(r, "publish")
    BY <2>2 DEF Goto, R!ReserveStamp, R!Reservations
  <2>3. CASE At(r, "publish") /\ R!ReservePublish(r) /\ Goto(r, "succeed")
    BY <2>3 DEF Goto, R!ReservePublish, R!Reservations
  <2>4. CASE ReserveFails(r)
    BY <2>4 DEF ReserveFails
  <2> QED
    BY <1>6, <2>1, <2>2, <2>3, <2>4, Zenon DEF EvaluateReserve, Reserve
<1>7. CASE Fail(r) \/ Trip(r)
  BY <1>7 DEF Fail, Trip, Goto
<1>8. CASE Succeed(r)
  BY <1>8 DEF Succeed, Goto
<1>9. CASE Execute(r) \/ ExecuteFails(r)
  <2>1. ASSUME Execute(r) PROVE P
    BY <2>1 DEF Execute, Goto
  <2>2. ASSUME ExecuteFails(r) PROVE P
    BY <2>2 DEF ExecuteFails, Goto
  <2> QED
    BY <1>9, <2>1, <2>2, Zenon
<1>10. ASSUME NEW c \in Costs, ExecuteReturns(r, c) PROVE P
  BY <1>10 DEF ExecuteReturns
<1>11. CASE Release(r)
  BY <1>11 DEF Release, Goto, R!Release, R!StillReserved, R!Reservations
<1>12. CASE LogRelease(r)
  BY <1>12 DEF LogRelease, Goto
<1>13. CASE Reconcile(r)
  BY <1>13 DEF Reconcile, Goto, R!ReconcileFirst, R!StillReserved, R!Reservations
<1>14. CASE ReconcileFails(r)
  BY <1>14 DEF ReconcileFails, Return, R!StillReserved
<1>15. CASE LogReconcile(r) \/ RecordUsage(r)
  BY <1>15 DEF LogReconcile, RecordUsage, Goto
<1> QED
  BY <1>1, <1>2, <1>3, <1>4, <1>5, <1>6, <1>7, <1>8, <1>9, <1>10, <1>11, <1>12, <1>13, <1>14, <1>15, Zenon
     DEF Arrive, Evaluate, Deliver

\* The other steps do to a reservation at most what ExpireStale and the clock do.
LEMMA ForeignStep ==
    ASSUME R!TypeOK, NEW r \in Requests,
           \/ \E k \in Switches, on \in BOOLEAN : SetKillSwitch(k, on)
           \/ \E t \in Tenants, l \in Limits : SetBudget(t, l)
           \/ \E s \in Sweepers : ExpireStale(s)
           \/ Tick
    PROVE  /\ UNCHANGED requests
           /\ reservations'[r].tenant = reservations[r].tenant
           /\ reservations'[r].amount = reservations[r].amount
           /\ reservations'[r].actualCost = reservations[r].actualCost
           /\ \/ reservations'[r].state = reservations[r].state
              \/ reservations[r].state = "RESERVED" /\ reservations'[r].state = "EXPIRED"
<1>a. reservations \in [Requests -> R!Reservations] /\ R!Ids = Requests
  BY DEF R!TypeOK, R!Ids, Requests
<1>1. CASE \/ \E k \in Switches, on \in BOOLEAN : SetKillSwitch(k, on)
           \/ \E t \in Tenants, l \in Limits : SetBudget(t, l)
  BY <1>1 DEF SetKillSwitch, SetBudget, manager, R!SetBudget
<1>2. ASSUME NEW s \in Sweepers, ExpireStale(s) PROVE
           /\ UNCHANGED requests
           /\ \/ UNCHANGED reservations
              \/ \E i \in Requests : R!StillReserved(i)
                      /\ reservations' = [reservations EXCEPT ![i].state = "EXPIRED"]
  BY <1>2, <1>a DEF ExpireStale, R!ExpireStale, R!ExpireNow, R!ExpireScan, R!ExpireOne, R!ExpireReturn
<1>3. CASE Tick
  BY <1>3, <1>a DEF Tick, R!Tick, manager, R!Reservations
<1> QED
  BY <1>a, <1>1, <1>2, <1>3 DEF R!StillReserved, R!Reservations

\* An expiry is covered by every link that speaks of a reservation still held.
LEMMA LinksStep == LocalsOK /\ R!TypeOK /\ Links /\ [Next]_vars => Links'
<1> SUFFICES ASSUME LocalsOK, R!TypeOK, Links, [Next]_vars PROVE Links'
  OBVIOUS
<1>1. ASSUME NEW r \in Requests, Arrive(r) \/ Evaluate(r) \/ Deliver(r) PROVE Links'
  BY <1>1, OwnStep DEF Links
<1>2. ASSUME NEW r \in Requests,
             \/ \E k \in Switches, on \in BOOLEAN : SetKillSwitch(k, on)
             \/ \E t \in Tenants, l \in Limits : SetBudget(t, l)
             \/ \E s \in Sweepers : ExpireStale(s)
             \/ Tick
      PROVE  Linked(requests'[r], reservations'[r])
  <2>1. Linked(requests[r], reservations[r])
    BY DEF Links
  <2> QED
    BY <1>2, <2>1, ForeignStep, ZenonT(60) DEF Linked
<1>3. CASE UNCHANGED vars
  BY <1>3 DEF vars, manager, Links
<1> QED
  BY <1>1, <1>2, <1>3, ZenonT(60) DEF Next, Links

\* A request past the check of a switch that covers it had passed it before the
\* switch was turned on, unless it has ended with nothing reserved.
Overtaken ==
    /\ kills \subseteq Switches
    /\ ahead \in [Switches -> SUBSET Requests]
    /\ \A k \in kills, r \in Requests :
          /\ k \in Covering(r)
          /\ requests[r].pc \notin {"new", "check", "killed"}
          /\ ~(requests[r].pc = "done" /\ reservations[r].state = "FREE")
          => r \in ahead[k]

\* A request's own step takes it past the check only if no switch that covers it is on.
LEMMA OvertakenOwnStep ==
    ASSUME LocalsOK, R!TypeOK, Links, Overtaken, NEW r \in Requests,
           Arrive(r) \/ Evaluate(r) \/ Deliver(r)
    PROVE  Overtaken'
<1>a. /\ requests \in [Requests -> Locals] /\ reservations \in [Requests -> R!Reservations]
      /\ Linked(requests[r], reservations[r])
  BY DEF LocalsOK, R!TypeOK, R!Ids, Requests, Links
<1>b. UNCHANGED <<kills, ahead>>
  BY Zenon DEF Arrive, Evaluate, Deliver, Estimate, PricingFails, CheckKillSwitch, Kill, Admit, Refuse,
         Score, EvaluateReserve, Fail, Trip, Succeed, Execute, ExecuteFails, ExecuteReturns,
         Release, LogRelease, Reconcile, ReconcileFails, LogReconcile, RecordUsage, switches
<1>c. \A x \in Requests \ {r} : /\ requests'[x] = requests[x]
                                 /\ reservations'[x] = reservations[x]
  BY OwnStep
<1>d. SUFFICES ASSUME NEW k \in kills, k \in Covering(r)',
                      requests'[r].pc \notin {"new", "check", "killed"},
                      ~(requests'[r].pc = "done" /\ reservations'[r].state = "FREE")
               PROVE  r \in ahead[k]
  BY <1>b, <1>c DEF Overtaken, Covering
<1>1. CASE Arrive(r) \/ CheckKillSwitch(r) \/ Kill(r)
  <2>1. CASE Arrive(r)
    <3>1. ASSUME NEW t \in Tenants, NEW p \in Providers, NEW a \in Amounts, Estimate(r, t, p, a)
          PROVE  requests'[r].pc = "check"
      BY <3>1, <1>a DEF Estimate, Locals
    <3>2. ASSUME PricingFails(r)
          PROVE  requests'[r].pc = "done" /\ reservations'[r].state = "FREE"
      BY <3>2, <1>a DEF PricingFails, Return, At, Locals, Linked, manager
    <3> QED
      BY <2>1, <3>1, <3>2, <1>d DEF Arrive
  <2>2. CASE CheckKillSwitch(r)
    BY <2>2, <1>a, <1>d DEF CheckKillSwitch, Goto, At, Locals, Killed, Covering
  <2>3. CASE Kill(r)
    BY <2>3, <1>a, <1>d DEF Kill, Answer, At, Locals, Linked, manager
  <2> QED
    BY <1>1, <2>1, <2>2, <2>3
<1>2. CASE ~(Arrive(r) \/ CheckKillSwitch(r) \/ Kill(r))
  <2>1. /\ requests[r].pc \notin {"new", "check", "killed", "done"}
        /\ requests'[r].tenant = requests[r].tenant /\ requests'[r].provider = requests[r].provider
    <3> DEFINE Q == /\ requests[r].pc \notin {"new", "check", "killed", "done"}
                    /\ requests'[r].tenant = requests[r].tenant
                    /\ requests'[r].provider = requests[r].provider
    <3> USE <1>a DEF At, Locals, Goto
    <3>1. CASE Admit(r) \/ Refuse(r)
      BY <3>1 DEF Admit, Refuse, Answer
    <3>2. ASSUME NEW v \in Verdicts, Score(r, v) PROVE Q
      BY <3>2 DEF Score
    <3>3. CASE EvaluateReserve(r)
      BY <3>3 DEF EvaluateReserve, Reserve, ReserveFails
    <3>4. CASE Fail(r) \/ Trip(r) \/ Succeed(r)
      BY <3>4 DEF Fail, Trip, Succeed
    <3>5. CASE Execute(r) \/ ExecuteFails(r)
      BY <3>5 DEF Execute, ExecuteFails
    <3>6. ASSUME NEW c \in Costs, ExecuteReturns(r, c) PROVE Q
      BY <3>6 DEF ExecuteReturns
    <3>7. CASE Release(r) \/ LogRelease(r)
      BY <3>7 DEF Release, LogRelease
    <3>8. CASE Reconcile(r) \/ ReconcileFails(r) \/ LogReconcile(r) \/ RecordUsage(r)
      BY <3>8 DEF Reconcile, ReconcileFails, LogReconcile, RecordUsage, Return
    <3> QED
      BY <1>2, <3>1, <3>2, <3>3, <3>4, <3>5, <3>6, <3>7, <3>8, ZenonT(60) DEF Evaluate, Deliver
  <2> QED
    BY <2>1, <1>d DEF Overtaken, Covering
<1> QED
  BY <1>1, <1>2

\* A switch that is turned on notes who is past its check, and no other step makes a
\* reservation out of nothing.
LEMMA OvertakenStep == LocalsOK /\ R!TypeOK /\ Links /\ Overtaken /\ [Next]_vars => Overtaken'
<1> SUFFICES ASSUME LocalsOK, R!TypeOK, Links, Overtaken, [Next]_vars PROVE Overtaken'
  OBVIOUS
<1>1. ASSUME NEW r \in Requests, Arrive(r) \/ Evaluate(r) \/ Deliver(r) PROVE Overtaken'
  BY <1>1, OvertakenOwnStep
<1>2. ASSUME NEW k \in Switches, NEW on \in BOOLEAN, SetKillSwitch(k, on) PROVE Overtaken'
  BY <1>2 DEF SetKillSwitch, Overtaken, Covering, Checked, manager
<1>3. CASE \/ \E t \in Tenants, l \in Limits : SetBudget(t, l)
           \/ \E s \in Sweepers : ExpireStale(s)
           \/ Tick
  <2>1. UNCHANGED <<kills, ahead, requests>>
    BY <1>3 DEF SetBudget, ExpireStale, Tick, switches
  <2>2. \A r \in Requests : reservations[r].state = "FREE" => reservations'[r].state = "FREE"
    BY <1>3, ForeignStep
  <2> QED
    BY <2>1, <2>2 DEF Overtaken, Covering
<1>4. CASE UNCHANGED vars
  BY <1>4 DEF vars, switches, manager, Overtaken, Covering
<1> QED
  BY <1>1, <1>2, <1>3, <1>4 DEF Next

Testing(t) == breakers[t].state = "HALF_OPEN_TESTING"
Judges(r, t) == requests[r].tenant = t /\ requests[r].pc \in Judging

\* The breakers are breakers, and a breaker under test has its judge.
Trials == breakers \in [Tenants -> Breakers] /\ TrialIsJudged

\* The methods of a breaker return breakers, and only Allow begins a test: a report
\* ends it, and Trip and State leave none behind that was not there.
LEMMA BreakerMethods ==
    ASSUME NEW b \in Breakers
    PROVE  /\ {MaybeAdvance(b), MaybeAdvance(Tripped), AfterAllow(b), MaybeAdvance(AfterAllow(b)),
               AfterSuccess(b), AfterFailure(b), Elapse(b)} \subseteq Breakers
           /\ MaybeAdvance(b).state = "HALF_OPEN_TESTING" => b.state = "HALF_OPEN_TESTING"
           /\ MaybeAdvance(Tripped).state # "HALF_OPEN_TESTING"
           /\ ~Allows(b) /\ MaybeAdvance(AfterAllow(b)).state = "HALF_OPEN_TESTING"
                 => b.state = "HALF_OPEN_TESTING"
           /\ AfterSuccess(b).state # "HALF_OPEN_TESTING"
           /\ AfterFailure(b).state # "HALF_OPEN_TESTING"
           /\ Elapse(b).state = b.state
BY CooldownAssumption
   DEF Breakers, CircuitStates, MaybeAdvance, Tripped, Allows, AfterAllow, AfterSuccess, AfterFailure, Elapse

\* After a step of a request, a breaker under test is judged by that request, or was
\* under test before with somebody else to judge it.
LEMMA TrialOwnStep ==
    ASSUME LocalsOK, Trials, NEW r \in Requests, Arrive(r) \/ Evaluate(r) \/ Deliver(r)
    PROVE  /\ breakers' \in [Tenants -> Breakers]
           /\ \A t \in Tenants : Testing(t)' => Judges(r, t)' \/ (Testing(t) /\ ~Judges(r, t))
<1> DEFINE P == /\ breakers' \in [Tenants -> Breakers]
                /\ \A t \in Tenants : Testing(t)' => Judges(r, t)' \/ (Testing(t) /\ ~Judges(r, t))
<1>a. /\ requests \in [Requests -> Locals] /\ breakers \in [Tenants -> Breakers]
      /\ requests[r].tenant \in Tenants
  BY DEF LocalsOK, Locals, Trials
<1>b. BreakerOf(r) \in Breakers
  BY <1>a DEF BreakerOf
<1> USE <1>a DEF At, Locals, Testing, Judges, Judging
<1>1. ASSUME NEW t \in Tenants, NEW p \in Providers, NEW a \in Amounts, Estimate(r, t, p, a) PROVE P
  BY <1>1 DEF Estimate
<1>2. CASE PricingFails(r) \/ CheckKillSwitch(r)
  BY <1>2 DEF PricingFails, CheckKillSwitch, Return, Goto
<1>3. CASE Kill(r) \/ Trip(r)
  BY <1>3, <1>b, BreakerMethods, ZenonT(60) DEF Kill, Trip, SetBreaker, Answer, Goto
<1>4. CASE Admit(r)
  BY <1>4, <1>b, BreakerMethods DEF Admit, SetBreaker, Goto
<1>5. CASE Refuse(r)
  BY <1>5, <1>b, BreakerMethods DEF Refuse, SetBreaker, BreakerOf, Answer
<1>6. ASSUME NEW v \in Verdicts, Score(r, v) PROVE P
  BY <1>6, <1>b, BreakerMethods DEF Score, SetBreaker
<1>7. CASE EvaluateReserve(r)
  BY <1>7 DEF EvaluateReserve, Reserve, ReserveFails, Goto
<1>8. CASE Fail(r) \/ Succeed(r)
  BY <1>8, <1>b, BreakerMethods DEF Fail, Succeed, SetBreaker, Goto
<1>9. CASE Execute(r) \/ ExecuteFails(r)
  <2>1. ASSUME Execute(r) PROVE P
    BY <2>1 DEF Execute, Goto
  <2>2. ASSUME ExecuteFails(r) PROVE P
    BY <2>2 DEF ExecuteFails, Goto
  <2> QED
    BY <1>9, <2>1, <2>2, Zenon
<1>10. ASSUME NEW c \in Costs, ExecuteReturns(r, c) PROVE P
  BY <1>10 DEF ExecuteReturns
<1>11. CASE Release(r) \/ LogRelease(r)
  BY <1>11 DEF Release, LogRelease, Goto
<1>12. CASE Reconcile(r) \/ ReconcileFails(r) \/ LogReconcile(r) \/ RecordUsage(r)
  BY <1>12 DEF Reconcile, ReconcileFails, LogReconcile, RecordUsage, Goto, Return
<1> QED
  BY <1>1, <1>2, <1>3, <1>4, <1>5, <1>6, <1>7, <1>8, <1>9, <1>10, <1>11, <1>12, Zenon
     DEF Arrive, Evaluate, Deliver

\* The judge of a test that goes on is still there after every step.
LEMMA TrialStep == LocalsOK /\ R!TypeOK /\ Links /\ Trials /\ [Next]_vars => Trials'
<1> SUFFICES ASSUME LocalsOK, R!TypeOK, Links, Trials, [Next]_vars PROVE Trials'
  OBVIOUS
<1>1. ASSUME NEW r \in Requests, Arrive(r) \/ Evaluate(r) \/ Deliver(r) PROVE Trials'
  <2>1. \A x \in Requests \ {r} : requests'[x] = requests[x]
    BY <1>1, OwnStep
  <2>2. /\ breakers' \in [Tenants -> Breakers]
        /\ \A t \in Tenants : Testing(t)' => Judges(r, t)' \/ (Testing(t) /\ ~Judges(r, t))
    BY <1>1, TrialOwnStep
  <2> QED
    BY <2>1, <2>2 DEF Trials, TrialIsJudged, Testing, Judges
<1>2. CASE Tick
  BY <1>2, BreakerMethods DEF Tick, Trials, TrialIsJudged
<1>3. CASE UNCHANGED <<breakers, requests>>
  BY <1>3 DEF Trials, TrialIsJudged
<1> QED
  BY <1>1, <1>2, <1>3 DEF Next, SetKillSwitch, SetBudget, ExpireStale, vars

\* A breaker that has a cooldown to wait for is open.
Cools(b) == b \in Breakers /\ (b.cooling > 0 => b.state = "OPEN")

\* What a request's call on its tenant's breaker may leave of it.
Outcomes(b) ==
    {b, MaybeAdvance(b), MaybeAdvance(Tripped), AfterAllow(b), MaybeAdvance(AfterAllow(b)),
     AfterSuccess(b), AfterFailure(b)}

\* No method gives a cooldown to a breaker that is not open.
LEMMA CoolMethods ==
    ASSUME NEW b, Cools(b)
    PROVE  Cools(Elapse(b)) /\ \A x \in Outcomes(b) : Cools(x)
BY CooldownAssumption
   DEF Cools, Outcomes, Breakers, CircuitStates, MaybeAdvance, Tripped, AfterAllow, AfterSuccess,
       AfterFailure, Elapse

\* A breaker that cools down admits nobody, and a call changes it only by tripping it anew.
LEMMA CoolCalls ==
    ASSUME NEW b, Cools(b), b.cooling > 0
    PROVE  ~Allows(b) /\ \A x \in Outcomes(b) : x = b \/ x = Tripped
BY CooldownAssumption
   DEF Cools, Outcomes, Breakers, CircuitStates, MaybeAdvance, Tripped, Allows, AfterAllow,
       AfterSuccess, AfterFailure

\* The request r is let through the gate.
Passes(r) == At(r, "gate") /\ requests'[r].pc = "score"

\* A step of a request leaves its tenant's breaker as one of the methods would, leaves every
\* other breaker alone, and lets the request through only where Allow does.
LEMMA BreakerStep ==
    ASSUME LocalsOK, breakers \in [Tenants -> Breakers],
           NEW r \in Requests, Arrive(r) \/ Evaluate(r) \/ Deliver(r)
    PROVE  /\ \E x \in Outcomes(BreakerOf(r)) :
                 breakers' = [breakers EXCEPT ![requests[r].tenant] = x]
           /\ Passes(r) => Allows(BreakerOf(r))
<1> DEFINE P == /\ \E x \in Outcomes(BreakerOf(r)) :
                     breakers' = [breakers EXCEPT ![requests[r].tenant] = x]
                /\ Passes(r) => Allows(BreakerOf(r))
<1>a. requests \in [Requests -> Locals] /\ requests[r].tenant \in Tenants
  BY DEF LocalsOK, Locals
<1>b. ASSUME breakers' = breakers, ~Passes(r) PROVE P
  BY <1>a, <1>b DEF BreakerOf, Outcomes
<1>c. ASSUME NEW x \in Outcomes(BreakerOf(r)), SetBreaker(r, x),
             Passes(r) => Allows(BreakerOf(r))
      PROVE  P
  BY <1>c, Zenon DEF SetBreaker
<1>d. /\ MaybeAdvance(Tripped) \in Outcomes(BreakerOf(r))
      /\ MaybeAdvance(BreakerOf(r)) \in Outcomes(BreakerOf(r))
      /\ AfterAllow(BreakerOf(r)) \in Outcomes(BreakerOf(r))
      /\ MaybeAdvance(AfterAllow(BreakerOf(r))) \in Outcomes(BreakerOf(r))
      /\ AfterSuccess(BreakerOf(r)) \in Outcomes(BreakerOf(r))
      /\ AfterFailure(BreakerOf(r)) \in Outcomes(BreakerOf(r))
  BY Zenon DEF Outcomes
<1> USE <1>a DEF At, Locals, Passes
<1>1. ASSUME NEW t \in Tenants, NEW p \in Providers, NEW a \in Amounts, Estimate(r, t, p, a) PROVE P
  <2>1. breakers' = breakers /\ ~Passes(r)
    BY <1>1 DEF Estimate
  <2> QED
    BY <2>1, <1>b, Zenon
<1>2. CASE PricingFails(r) \/ CheckKillSwitch(r) \/ EvaluateReserve(r)
  <2>1. breakers' = breakers /\ ~Passes(r)
    BY <1>2 DEF PricingFails, CheckKillSwitch, EvaluateReserve, Reserve, ReserveFails, Return, Goto
  <2> QED
    BY <2>1, <1>b, Zenon
<1>3. CASE Kill(r) \/ Trip(r)
  <2>1. ~Passes(r)
    BY <1>3 DEF Kill, Trip
  <2> QED
    BY <1>3, <2>1, <1>c, <1>d, Zenon DEF Kill, Trip
<1>4. CASE Admit(r)
  BY <1>4, <1>c, <1>d, Zenon DEF Admit
<1>5. CASE Refuse(r)
  <2>1. ~Passes(r)
    BY <1>5 DEF Refuse, Answer
  <2> QED
    BY <1>5, <2>1, <1>c, <1>d, Zenon DEF Refuse
<1>6. ASSUME NEW v \in Verdicts, Score(r, v) PROVE P
  <2>1. ~Passes(r)
    BY <1>6 DEF Score
  <2> QED
    BY <1>6, <2>1, <1>c, <1>d, Zenon DEF Score
<1>7. CASE Fail(r) \/ Succeed(r)
  <2>1. ~Passes(r)
    BY <1>7, ZenonT(60) DEF Fail, Succeed
  <2> QED
    BY <1>7, <2>1, <1>c, <1>d, Zenon DEF Fail, Succeed
<1>8. CASE Execute(r) \/ ExecuteFails(r) \/ Release(r) \/ LogRelease(r)
  <2>1. breakers' = breakers /\ ~Passes(r)
    BY <1>8 DEF Execute, ExecuteFails, Release, LogRelease
  <2> QED
    BY <2>1, <1>b, Zenon
<1>9. ASSUME NEW c \in Costs, ExecuteReturns(r, c) PROVE P
  <2>1. breakers' = breakers /\ ~Passes(r)
    BY <1>9 DEF ExecuteReturns
  <2> QED
    BY <2>1, <1>b, Zenon
<1>10. CASE Reconcile(r) \/ ReconcileFails(r) \/ LogReconcile(r) \/ RecordUsage(r)
  <2>1. breakers' = breakers /\ ~Passes(r)
    BY <1>10, ZenonT(60) DEF Reconcile, ReconcileFails, LogReconcile, RecordUsage
  <2> QED
    BY <2>1, <1>b, Zenon
<1> QED
  BY <1>1, <1>2, <1>3, <1>4, <1>5, <1>6, <1>7, <1>8, <1>9, <1>10, Zenon DEF Arrive, Evaluate, Deliver

Cooling == \A t \in Tenants : Cools(breakers[t])

\* The breakers start closed.
LEMMA CoolingInit == Init => Cooling
BY CooldownAssumption DEF Init, Cooling, Cools, Breakers, CircuitStates, NewBreaker

\* While the breaker of a tenant cools down, no step but time's changes it unless by
\* tripping it anew, and none lets a request of the tenant through.
Quarantined(t) ==
    breakers[t].cooling > 0 =>
        /\ breakers'[t] = breakers[t] \/ breakers'[t] = Tripped \/ Tick
        /\ \A r \in Requests : requests[r].tenant = t => ~Passes(r)

\* Every step keeps a cooldown to the open breakers, and keeps it.
LEMMA CoolingStep ==
    LocalsOK /\ R!TypeOK /\ Links /\ Trials /\ Cooling /\ [Next]_vars
        => Cooling' /\ \A t \in Tenants : Quarantined(t)
<1> SUFFICES ASSUME LocalsOK, R!TypeOK, Links, Trials, Cooling, [Next]_vars, NEW t \in Tenants
             PROVE  Cools(breakers'[t]) /\ Quarantined(t)
  BY DEF Cooling
<1>a. breakers \in [Tenants -> Breakers] /\ Cools(breakers[t])
  BY DEF Trials, Cooling
<1>1. ASSUME NEW r \in Requests, Arrive(r) \/ Evaluate(r) \/ Deliver(r)
      PROVE  Cools(breakers'[t]) /\ Quarantined(t)
  <2>1. \A x \in Requests \ {r} : ~Passes(x)
    <3>1. \A x \in Requests \ {r} : requests'[x] = requests[x]
      BY <1>1, OwnStep
    <3> QED
      BY <3>1 DEF Passes, At
  <2>2. /\ \E x \in Outcomes(BreakerOf(r)) :
                breakers' = [breakers EXCEPT ![requests[r].tenant] = x]
        /\ Passes(r) => Allows(BreakerOf(r))
    BY <1>1, <1>a, BreakerStep, Zenon
  <2>3. CASE requests[r].tenant = t
    <3>1. BreakerOf(r) = breakers[t] /\ breakers'[t] \in Outcomes(breakers[t])
      BY <1>a, <2>2, <2>3 DEF BreakerOf
    <3>2. Cools(breakers'[t])
      BY <1>a, <3>1, CoolMethods, Zenon
    <3>3. ASSUME breakers[t].cooling > 0
          PROVE  ~Passes(r) /\ (breakers'[t] = breakers[t] \/ breakers'[t] = Tripped)
      <4>1. ~Allows(breakers[t]) /\ \A x \in Outcomes(breakers[t]) : x = breakers[t] \/ x = Tripped
        BY <1>a, <3>3, CoolCalls, Zenon
      <4>2. ~Allows(BreakerOf(r))
        BY <3>1, <4>1
      <4> QED
        BY <2>2, <3>1, <4>1, <4>2, Zenon
    <3> QED
      BY <2>1, <3>2, <3>3, Zenon DEF Quarantined
  <2>4. CASE requests[r].tenant # t
    <3>1. breakers'[t] = breakers[t]
      BY <1>a, <2>2, <2>4
    <3> QED
      BY <1>a, <2>1, <2>4, <3>1 DEF Quarantined
  <2> QED
    BY <2>3, <2>4
<1>2. ASSUME UNCHANGED requests, Tick \/ UNCHANGED breakers
      PROVE  Cools(breakers'[t]) /\ Quarantined(t)
  <2>1. \A r \in Requests : ~Passes(r)
    BY <1>2 DEF Passes, At
  <2>2. Cools(breakers'[t])
    BY <1>2, <1>a, CoolMethods DEF Tick
  <2> QED
    BY <1>2, <2>1, <2>2 DEF Quarantined
<1>3. Tick => UNCHANGED requests
  BY DEF Tick
<1> QED
  BY <1>1, <1>2, <1>3 DEF Next, SetKillSwitch, SetBudget, ExpireStale, vars

LedgerEvents == [type: EventTypes, amount: Nat]

\* An event of the type is on the list, and those of a cost are of cost c.
Has(log, type) == \E i \in DOMAIN log : log[i].type = type
Costed(log, c) == \A i \in DOMAIN log : log[i].type = "COST_RECONCILED" => log[i].amount = c

\* The request is past the creation of its reservation, its cost or its release is
\* logged, it was throttled: what the log says of it, by where it stands.
Created(q) == \/ q.pc \in {"execute", "upstream", "release", "released", "reconcile", "reconciled", "record"}
              \/ q.pc = "done" /\ q.verdict \in {"allow", "throttle"}
Booked(q) == q.pc = "record" \/ (q.pc = "done" /\ q.verdict = "allow" /\ q.err = "none")
GivenBack(q) == q.pc = "done" /\ q.verdict = "allow" /\ q.err \in {"provider", "upstream"}
Throttled(q) == q.pc = "done" /\ q.verdict = "throttle"

\* The steps of Evaluate, of a reservation in use, and of a call that is to be paid.
Evaluated == {"check", "killed", "gate", "score", "reserve", "stamp", "publish", "succeed", "fail", "trip"}
Used == {"execute", "upstream", "release", "released"}
Paid == {"reconcile", "reconciled"}

\* How many events the request has logged.
Length(q, n) ==
    /\ n \in 0..6
    /\ q.pc = "new" => n = 0
    /\ q.pc \in Evaluated => n = 1
    /\ q.pc \in Used => n = 3
    /\ q.pc \in Paid => n = 5

LogOK(q, log) ==
    /\ log \in Seq(LedgerEvents)
    /\ Length(q, Len(log))
    /\ Has(log, "RESERVATION_CREATED") <=> Created(q)
    /\ Has(log, "COST_RECONCILED") <=> Booked(q)
    /\ Has(log, "RESERVATION_RELEASED") <=> GivenBack(q)
    /\ Has(log, "REQUEST_THROTTLED") <=> Throttled(q)
    /\ Costed(log, q.cost)

Logs == /\ ledger \in [Requests -> Seq(LedgerEvents)]
        /\ \A r \in Requests : LogOK(requests[r], ledger[r])

\* What appending an event adds to a log ...
LEMMA LogAppend1 ==
    ASSUME NEW log \in Seq(LedgerEvents), NEW e \in LedgerEvents
    PROVE  /\ Append(log, e) \in Seq(LedgerEvents) /\ Len(Append(log, e)) = Len(log) + 1
           /\ \A type : Has(Append(log, e), type) <=> Has(log, type) \/ e.type = type
           /\ \A c : Costed(Append(log, e), c) <=>
                         Costed(log, c) /\ (e.type = "COST_RECONCILED" => e.amount = c)
<1> DEFINE m == Append(log, e)
<1>1. m \in Seq(LedgerEvents) /\ Len(m) = Len(log) + 1 /\ Len(log) \in Nat
  OBVIOUS
<1>2. /\ DOMAIN log = 1..Len(log) /\ DOMAIN m = 1..(Len(log) + 1)
      /\ m[Len(log) + 1] = e /\ \A i \in 1..Len(log) : m[i] = log[i]
  OBVIOUS
<1> HIDE DEF m
<1>3. /\ Len(log) + 1 \in DOMAIN m
      /\ \A i \in DOMAIN log : i \in DOMAIN m
      /\ \A i \in DOMAIN m : i \in DOMAIN log \/ i = Len(log) + 1
  BY <1>1, <1>2
<1>4. ASSUME NEW type PROVE Has(m, type) <=> Has(log, type) \/ e.type = type
  BY <1>2, <1>3 DEF Has
<1>5. ASSUME NEW c PROVE Costed(m, c) <=> Costed(log, c) /\ (e.type = "COST_RECONCILED" => e.amount = c)
  BY <1>2, <1>3 DEF Costed
<1> QED
  BY <1>1, <1>4, <1>5 DEF m

\* ... and appending two.
LEMMA LogAppend2 ==
    ASSUME NEW log \in Seq(LedgerEvents), NEW e \in LedgerEvents, NEW f \in LedgerEvents
    PROVE  /\ log \o <<e, f>> \in Seq(LedgerEvents) /\ Len(log \o <<e, f>>) = Len(log) + 2
           /\ \A type : Has(log \o <<e, f>>, type) <=> Has(log, type) \/ e.type = type \/ f.type = type
           /\ \A c : Costed(log \o <<e, f>>, c) <=>
                         /\ Costed(log, c)
                         /\ e.type = "COST_RECONCILED" => e.amount = c
                         /\ f.type = "COST_RECONCILED" => f.amount = c
<1> DEFINE m == Append(log, e)
           n == Append(m, f)
<1>1. log \o <<e, f>> = n
  OBVIOUS
<1>2. /\ m \in Seq(LedgerEvents) /\ Len(m) = Len(log) + 1 /\ Len(log) \in Nat
      /\ \A type : Has(m, type) <=> Has(log, type) \/ e.type = type
      /\ \A c : Costed(m, c) <=> Costed(log, c) /\ (e.type = "COST_RECONCILED" => e.amount = c)
  BY LogAppend1
<1> HIDE DEF m
<1>3. /\ n \in Seq(LedgerEvents) /\ Len(n) = Len(m) + 1
      /\ \A type : Has(n, type) <=> Has(m, type) \/ f.type = type
      /\ \A c : Costed(n, c) <=> Costed(m, c) /\ (f.type = "COST_RECONCILED" => f.amount = c)
  BY <1>2, LogAppend1
<1> HIDE DEF n
<1>4. n \in Seq(LedgerEvents) /\ Len(n) = Len(log) + 2
  BY <1>2, <1>3
<1>5. ASSUME NEW type PROVE Has(n, type) <=> Has(log, type) \/ e.type = type \/ f.type = type
  BY <1>2, <1>3
<1>6. ASSUME NEW c PROVE Costed(n, c) <=> /\ Costed(log, c)
                                          /\ e.type = "COST_RECONCILED" => e.amount = c
                                          /\ f.type = "COST_RECONCILED" => f.amount = c
  BY <1>2, <1>3
<1> QED
  BY <1>1, <1>4, <1>5, <1>6, Zenon

\* A request that has not begun has logged nothing.
LEMMA LogsInit == Init => Logs
<1> SUFFICES ASSUME Init PROVE Logs
  OBVIOUS
<1>1. <<>> \in Seq(LedgerEvents) /\ Len(<<>>) = 0 /\ DOMAIN <<>> = {}
  OBVIOUS
<1>2. ledger \in [Requests -> Seq(LedgerEvents)] /\ \A r \in Requests : ledger[r] = <<>>
  BY <1>1 DEF Init
<1>3. \A r \in Requests : requests[r].pc = "new"
  BY DEF Init
<1>4. \A type, c : ~Has(<<>>, type) /\ Costed(<<>>, c)
  BY <1>1 DEF Has, Costed
<1>5. \A r \in Requests : /\ Length(requests[r], 0) /\ ~Created(requests[r]) /\ ~Booked(requests[r])
                          /\ ~GivenBack(requests[r]) /\ ~Throttled(requests[r])
  BY <1>3 DEF Length, Created, Booked, GivenBack, Throttled, Evaluated, Used, Paid
<1> QED
  BY <1>1, <1>2, <1>4, <1>5 DEF Logs, LogOK

\* The request moves from q to p and logs k events, of the types T.
Moves(q, p, k, T) ==
    /\ \A n \in 0..6 : Length(q, n) => Length(p, n + k)
    /\ Created(p) <=> Created(q) \/ "RESERVATION_CREATED" \in T
    /\ Booked(p) <=> Booked(q) \/ "COST_RECONCILED" \in T
    /\ GivenBack(p) <=> GivenBack(q) \/ "RESERVATION_RELEASED" \in T
    /\ Throttled(p) <=> Throttled(q) \/ "REQUEST_THROTTLED" \in T

\* A log that grows as its request moves keeps telling the request's fate.
LEMMA LogMoves ==
    ASSUME NEW q, NEW p, NEW log, LogOK(q, log), NEW k, NEW T, Moves(q, p, k, T),
           NEW m \in Seq(LedgerEvents), Len(m) = Len(log) + k,
           \A type : Has(m, type) <=> Has(log, type) \/ type \in T, Costed(m, p.cost)
    PROVE  LogOK(p, m)
<1>1. Length(p, Len(m))
  BY Zenon DEF LogOK, Moves, Length
<1> QED
  BY <1>1 DEF LogOK, Moves

\* What the local variables of a step are, in numbers.
LEMMA LocalsType ==
    ASSUME NEW q \in Locals
    PROVE  q.tenant \in Tenants /\ q.cost \in Nat /\ q.estimate \in Nat
<1>1. Amounts \cup {0} \subseteq Nat /\ Costs \cup {0} \subseteq Nat
  BY GatewayAssumptions DEF R!ReservationAssumptions
<1>2. q.tenant \in Tenants /\ q.cost \in Costs \cup {0} /\ q.estimate \in Amounts \cup {0}
  BY DEF Locals
<1> QED
  BY <1>1, <1>2

\* A request that moves without logging keeps its log true ...
LEMMA LogStays ==
    ASSUME NEW q, NEW p, NEW log, LogOK(q, log), Moves(q, p, 0, {}), p.cost = q.cost
    PROVE  LogOK(p, log)
<1> DEFINE T == {}
<1>1. Moves(q, p, 0, T) /\ \A ty : Has(log, ty) <=> Has(log, ty) \/ ty \in T
  BY Zenon
<1> HIDE DEF T
<1>2. log \in Seq(LedgerEvents) /\ Costed(log, p.cost)
  BY Zenon DEF LogOK
<1>3. Len(log) = Len(log) + 0
  BY <1>2
<1> QED
  BY <1>1, <1>2, <1>3, LogMoves, Zenon

\* ... so does one that moves and logs an event, which tells the cost when it is the
\* one of the settlement ...
LEMMA LogGrows1 ==
    ASSUME NEW q, NEW p, NEW log, LogOK(q, log), NEW type \in EventTypes, NEW n \in Nat,
           Moves(q, p, 1, {type}), p.cost = q.cost, type = "COST_RECONCILED" => n = q.cost
    PROVE  LogOK(p, Append(log, Event(type, n)))
<1> DEFINE e == Event(type, n)
           m == Append(log, e)
<1>1. e \in LedgerEvents /\ e.type = type /\ e.amount = n
  BY DEF Event, LedgerEvents
<1> HIDE DEF e
<1>2. log \in Seq(LedgerEvents) /\ Costed(log, q.cost)
  BY DEF LogOK
<1>3. /\ m \in Seq(LedgerEvents) /\ Len(m) = Len(log) + 1
      /\ \A ty : Has(m, ty) <=> Has(log, ty) \/ e.type = ty
      /\ Costed(m, q.cost) <=> Costed(log, q.cost) /\ (e.type = "COST_RECONCILED" => e.amount = q.cost)
  BY <1>1, <1>2, LogAppend1, Zenon
<1> HIDE DEF m
<1>4. Costed(m, p.cost) /\ \A ty : Has(m, ty) <=> Has(log, ty) \/ ty \in {type}
  BY <1>1, <1>2, <1>3, Zenon
<1>5. LogOK(p, m)
  BY <1>3, <1>4, LogMoves, Zenon
<1> QED
  BY <1>5 DEF e, m

\* ... and one that logs two.
LEMMA LogGrows2 ==
    ASSUME NEW q, NEW p, NEW log, LogOK(q, log), NEW type \in EventTypes, NEW n \in Nat,
           NEW type2 \in EventTypes, NEW n2 \in Nat, Moves(q, p, 2, {type, type2}),
           Costed(log, p.cost), "COST_RECONCILED" \notin {type, type2}
    PROVE  LogOK(p, log \o <<Event(type, n), Event(type2, n2)>>)
<1> DEFINE e == Event(type, n)
           f == Event(type2, n2)
           m == log \o <<e, f>>
<1>1. e \in LedgerEvents /\ e.type = type /\ f \in LedgerEvents /\ f.type = type2
  BY DEF Event, LedgerEvents
<1> HIDE DEF e, f
<1>2. log \in Seq(LedgerEvents)
  BY DEF LogOK
<1>3. /\ m \in Seq(LedgerEvents) /\ Len(m) = Len(log) + 2
      /\ \A ty : Has(m, ty) <=> Has(log, ty) \/ e.type = ty \/ f.type = ty
      /\ \A c : Costed(m, c) <=> /\ Costed(log, c)
                                 /\ e.type = "COST_RECONCILED" => e.amount = c
                                 /\ f.type = "COST_RECONCILED" => f.amount = c
  BY <1>1, <1>2, LogAppend2, Zenon
<1> HIDE DEF m
<1>4. Costed(m, p.cost) /\ \A ty : Has(m, ty) <=> Has(log, ty) \/ ty \in {type, type2}
  BY <1>1, <1>3, Zenon
<1>5. LogOK(p, m)
  BY <1>3, <1>4, LogMoves, Zenon
<1> QED
  BY <1>5 DEF e, f, m

\* The moves of HandleRequest: between which steps it logs, how much and what.
LEMMA Itinerary ==
    ASSUME NEW q, NEW p
    PROVE  /\ \/ q.pc \in Evaluated /\ p.pc \in Evaluated
              \/ q.pc \in Used /\ p.pc \in Used
              \/ q.pc \in Paid /\ p.pc \in Paid
              \/ q.pc = "record" /\ p.pc = "done" /\ p.verdict = "allow" /\ p.err = "none"
              => Moves(q, p, 0, {})
           /\ q.pc = "new" /\ p.pc = "check" => Moves(q, p, 1, {"REQUEST_ESTIMATED"})
           /\ \/ q.pc = "new" /\ p.pc = "done" /\ p.verdict = "none"
              \/ q.pc = "reconcile" /\ p.pc = "done" /\ p.verdict = "allow" /\ p.err = "terminal"
              => Moves(q, p, 1, {"REQUEST_FAILED"})
           /\ q.pc \in Evaluated /\ p.pc = "done" /\ p.verdict \in {"block", "critical"}
              => Moves(q, p, 1, {"REQUEST_BLOCKED"})
           /\ q.pc = "succeed" /\ p.pc = "execute"
              => Moves(q, p, 2, {"RESERVATION_CREATED", "REQUEST_ALLOWED"})
           /\ q.pc = "succeed" /\ p.pc = "done" /\ p.verdict = "throttle" /\ p.err = "none"
              => Moves(q, p, 2, {"RESERVATION_CREATED", "REQUEST_THROTTLED"})
           /\ q.pc = "upstream" /\ p.pc = "reconcile"
              => Moves(q, p, 2, {"REQUEST_EXECUTED", "USAGE_REPORTED"})
           /\ q.pc = "released" /\ p.pc = "done" /\ p.verdict = "allow" /\ p.err \in {"provider", "upstream"}
              => /\ Moves(q, p, 2, {"RESERVATION_RELEASED", "REQUEST_FAILED"})
                 /\ Moves(q, p, 1, {"RESERVATION_RELEASED"})
           /\ q.pc = "reconciled" /\ p.pc = "record" => Moves(q, p, 1, {"COST_RECONCILED"})
<1> USE DEF Moves, Length, Created, Booked, GivenBack, Throttled, Evaluated, Used, Paid
<1>1. ASSUME q.pc \in Evaluated, p.pc \in Evaluated PROVE Moves(q, p, 0, {})
  BY <1>1
<1>2. ASSUME q.pc \in Used, p.pc \in Used PROVE Moves(q, p, 0, {})
  BY <1>2
<1>3. ASSUME q.pc \in Paid, p.pc \in Paid PROVE Moves(q, p, 0, {})
  BY <1>3
<1>4. ASSUME q.pc = "record", p.pc = "done", p.verdict = "allow", p.err = "none" PROVE Moves(q, p, 0, {})
  BY <1>4
<1>5. q.pc = "new" /\ p.pc = "check"
      => Moves(q, p, 1, {"REQUEST_ESTIMATED"})
  OBVIOUS
<1>6. ASSUME q.pc = "new", p.pc = "done", p.verdict = "none" PROVE Moves(q, p, 1, {"REQUEST_FAILED"})
  BY <1>6
<1>7. ASSUME q.pc = "reconcile", p.pc = "done", p.verdict = "allow", p.err = "terminal"
      PROVE  Moves(q, p, 1, {"REQUEST_FAILED"})
  BY <1>7
<1>8. q.pc \in Evaluated /\ p.pc = "done" /\ p.verdict \in {"block", "critical"}
      => Moves(q, p, 1, {"REQUEST_BLOCKED"})
  OBVIOUS
<1>9. q.pc = "succeed" /\ p.pc = "execute"
      => Moves(q, p, 2, {"RESERVATION_CREATED", "REQUEST_ALLOWED"})
  OBVIOUS
<1>10. q.pc = "succeed" /\ p.pc = "done" /\ p.verdict = "throttle" /\ p.err = "none"
      => Moves(q, p, 2, {"RESERVATION_CREATED", "REQUEST_THROTTLED"})
  OBVIOUS
<1>11. q.pc = "upstream" /\ p.pc = "reconcile"
      => Moves(q, p, 2, {"REQUEST_EXECUTED", "USAGE_REPORTED"})
  OBVIOUS
<1>12. q.pc = "released" /\ p.pc = "done" /\ p.verdict = "allow" /\ p.err \in {"provider", "upstream"}
      => Moves(q, p, 2, {"RESERVATION_RELEASED", "REQUEST_FAILED"})
  OBVIOUS
<1>13. q.pc = "released" /\ p.pc = "done" /\ p.verdict = "allow" /\ p.err \in {"provider", "upstream"}
      => Moves(q, p, 1, {"RESERVATION_RELEASED"})
  OBVIOUS
<1>14. q.pc = "reconciled" /\ p.pc = "record"
      => Moves(q, p, 1, {"COST_RECONCILED"})
  OBVIOUS
<1> HIDE DEF Moves, Length, Created, Booked, GivenBack, Throttled, Evaluated, Used, Paid
<1>15. \/ q.pc \in Evaluated /\ p.pc \in Evaluated
       \/ q.pc \in Used /\ p.pc \in Used
       \/ q.pc \in Paid /\ p.pc \in Paid
       \/ q.pc = "record" /\ p.pc = "done" /\ p.verdict = "allow" /\ p.err = "none"
       => Moves(q, p, 0, {})
  BY <1>1, <1>2, <1>3, <1>4, Zenon
<1>16. \/ q.pc = "new" /\ p.pc = "done" /\ p.verdict = "none"
       \/ q.pc = "reconcile" /\ p.pc = "done" /\ p.verdict = "allow" /\ p.err = "terminal"
       => Moves(q, p, 1, {"REQUEST_FAILED"})
  BY <1>6, <1>7, Zenon
<1> QED
  BY <1>5, <1>8, <1>9, <1>10, <1>11, <1>12, <1>13, <1>14, <1>15, <1>16, Zenon

\* A step of a request's own keeps its log in step with where it stands, and leaves
\* the logs of the others alone.
LEMMA LogOwnStep ==
    ASSUME LocalsOK, R!TypeOK, Links, Logs, NEW r \in Requests,
           Arrive(r) \/ Evaluate(r) \/ Deliver(r)
    PROVE  LogOK(requests'[r], ledger'[r]) /\ ledger' \in [Requests -> Seq(LedgerEvents)]
           /\ \A x \in Requests \ {r} : ledger'[x] = ledger[x]
<1> DEFINE q == requests[r]
           p == requests'[r]
           P == LogOK(p, ledger'[r]) /\ ledger' \in [Requests -> Seq(LedgerEvents)]
                /\ \A x \in Requests \ {r} : ledger'[x] = ledger[x]
<1> SUFFICES P
  OBVIOUS
<1>a. /\ requests \in [Requests -> Locals] /\ ledger \in [Requests -> Seq(LedgerEvents)]
      /\ q \in Locals /\ Linked(q, reservations[r]) /\ LogOK(q, ledger[r])
  BY Zenon DEF LocalsOK, Links, Logs
<1>b. /\ "REQUEST_ESTIMATED" \in EventTypes /\ "RESERVATION_CREATED" \in EventTypes
      /\ "REQUEST_ALLOWED" \in EventTypes /\ "REQUEST_THROTTLED" \in EventTypes
      /\ "REQUEST_BLOCKED" \in EventTypes /\ "REQUEST_EXECUTED" \in EventTypes
      /\ "USAGE_REPORTED" \in EventTypes /\ "COST_RECONCILED" \in EventTypes
      /\ "RESERVATION_RELEASED" \in EventTypes /\ "REQUEST_FAILED" \in EventTypes
  BY DEF EventTypes
<1>c. q.estimate \in Nat /\ q.cost \in Nat /\ Amounts \subseteq Nat /\ Costs \subseteq Nat
  BY <1>a, LocalsType, GatewayAssumptions DEF R!ReservationAssumptions
<1>d. \A x : requests' = [requests EXCEPT ![r] = x] => p = x
  BY <1>a
<1>e. ASSUME ledger' = ledger, Moves(q, p, 0, {}), p.cost = q.cost PROVE P
  <2>1. LogOK(p, ledger[r])
    BY <1>a, <1>e, LogStays, Zenon
  <2> QED
    BY <1>a, <1>e, <2>1, Zenon
<1>f. ASSUME NEW type \in EventTypes, NEW n \in Nat, Append1(r, Event(type, n)),
             Moves(q, p, 1, {type}), p.cost = q.cost, type = "COST_RECONCILED" => n = q.cost
      PROVE  P
  <2> DEFINE m == Append(ledger[r], Event(type, n))
  <2>1. LogOK(p, m)
    BY <1>a, <1>f, LogGrows1, Zenon
  <2>2. ledger' = [ledger EXCEPT ![r] = m]
    BY <1>f, Zenon DEF Append1
  <2>3. m \in Seq(LedgerEvents)
    BY <2>1, Zenon DEF LogOK
  <2> HIDE DEF m
  <2> QED
    BY <1>a, <2>1, <2>2, <2>3, Zenon
<1>g. ASSUME NEW type \in EventTypes, NEW n \in Nat, NEW type2 \in EventTypes, NEW n2 \in Nat,
             Append2(r, Event(type, n), Event(type2, n2)), Moves(q, p, 2, {type, type2}),
             Costed(ledger[r], p.cost), "COST_RECONCILED" \notin {type, type2}
      PROVE  P
  <2> DEFINE m == ledger[r] \o <<Event(type, n), Event(type2, n2)>>
  <2>1. LogOK(p, m)
    BY <1>a, <1>g, LogGrows2, Zenon
  <2>2. ledger' = [ledger EXCEPT ![r] = m]
    BY <1>g, Zenon DEF Append2
  <2>3. m \in Seq(LedgerEvents)
    BY <2>1, Zenon DEF LogOK
  <2> HIDE DEF m
  <2> QED
    BY <1>a, <2>1, <2>2, <2>3, Zenon
<1>h. p.cost = q.cost \/ ~Booked(q) => Costed(ledger[r], p.cost)
  <2>1. Costed(ledger[r], q.cost) /\ (Has(ledger[r], "COST_RECONCILED") <=> Booked(q))
    BY <1>a, Zenon DEF LogOK
  <2> QED
    BY <2>1, Zenon DEF Has, Costed
<1> HIDE DEF P
<1> USE DEF At
<1>1. ASSUME NEW t \in Tenants, NEW pr \in Providers, NEW a \in Amounts, Estimate(r, t, pr, a) PROVE P
  <2>1. q.pc = "new" /\ p.pc = "check" /\ p.cost = q.cost
    BY <1>1, <1>a, <1>d DEF Estimate, Locals
  <2>2. Append1(r, Event("REQUEST_ESTIMATED", a)) /\ a \in Nat
    BY <1>1, <1>c, Zenon DEF Estimate
  <2> QED
    BY <1>b, <1>f, <2>1, <2>2, Itinerary, Zenon
<1>2. CASE PricingFails(r)
  <2>1. q.pc = "new" /\ p.pc = "done" /\ p.cost = q.cost /\ p.verdict = "none"
    BY <1>2, <1>a, <1>d DEF PricingFails, Return, Linked, Locals
  <2>2. Append1(r, Event("REQUEST_FAILED", 0))
    BY <1>2, Zenon DEF PricingFails
  <2> QED
    BY <1>b, <1>f, <2>1, <2>2, Itinerary, Zenon
<1>3. CASE p.cost = q.cost /\ q.pc \in Evaluated /\ p.pc \in Evaluated /\ ledger' = ledger
  BY <1>3, <1>e, Itinerary, Zenon
<1>4. CASE /\ p.cost = q.cost /\ q.pc \in Evaluated /\ p.pc = "done" /\ p.verdict \in {"block", "critical"}
           /\ Append1(r, Event("REQUEST_BLOCKED", 0))
  BY <1>4, <1>b, <1>f, Itinerary, Zenon
<1>5. CASE CheckKillSwitch(r) \/ Admit(r)
  BY <1>5, <1>a, <1>d, <1>3 DEF CheckKillSwitch, Admit, Goto, Locals, Evaluated
<1>6. CASE Kill(r) \/ Refuse(r)
  BY <1>6, <1>a, <1>d, <1>4 DEF Kill, Refuse, Answer, Locals, Evaluated
<1>7. ASSUME NEW v \in Verdicts, Score(r, v) PROVE P
  BY <1>7, <1>a, <1>d, <1>3 DEF Score, Locals, Evaluated
<1>8. CASE EvaluateReserve(r)
  BY <1>8, <1>a, <1>d, <1>3 DEF EvaluateReserve, Reserve, ReserveFails, Goto, Locals, Evaluated
<1>9. CASE Fail(r) \/ Trip(r)
  BY <1>9, <1>a, <1>d, <1>3, <1>4 DEF Fail, Trip, Goto, Linked, Locals, Evaluated
<1>10. CASE Succeed(r)
  <2>1. q.pc = "succeed" /\ p.cost = q.cost /\ p.verdict = q.verdict /\ p.err = "none"
    BY <1>10, <1>a, <1>d DEF Succeed, Goto, Linked, Locals
  <2>2. CASE p.pc = "execute" /\ Append2(r, Event("RESERVATION_CREATED", q.estimate),
                                            Event("REQUEST_ALLOWED", q.estimate))
    <3>1. Moves(q, p, 2, {"RESERVATION_CREATED", "REQUEST_ALLOWED"})
      BY <2>1, <2>2, Itinerary, Zenon
    <3>2. Costed(ledger[r], p.cost) /\ "COST_RECONCILED" \notin {"RESERVATION_CREATED", "REQUEST_ALLOWED"} /\ 0 \in Nat
      BY <1>h, <2>1, Zenon
    <3> QED
      BY <1>b, <1>c, <1>g, <2>2, <3>1, <3>2, Zenon
  <2>3. CASE /\ p.pc = "done" /\ p.verdict = "throttle"
             /\ Append2(r, Event("RESERVATION_CREATED", q.estimate), Event("REQUEST_THROTTLED", 0))
    <3>1. Moves(q, p, 2, {"RESERVATION_CREATED", "REQUEST_THROTTLED"})
      BY <2>1, <2>3, Itinerary, Zenon
    <3>2. Costed(ledger[r], p.cost) /\ "COST_RECONCILED" \notin {"RESERVATION_CREATED", "REQUEST_THROTTLED"} /\ 0 \in Nat
      BY <1>h, <2>1, Zenon
    <3> QED
      BY <1>b, <1>c, <1>g, <2>3, <3>1, <3>2, Zenon
  <2> QED
    BY <1>10, <1>a, <1>d, <2>1, <2>2, <2>3 DEF Succeed, Goto, Locals
<1>11. CASE Execute(r) \/ ExecuteFails(r) \/ Release(r)
  <2>1. p.cost = q.cost /\ q.pc \in Used /\ p.pc \in Used /\ ledger' = ledger
    BY <1>11, <1>a, <1>d DEF Execute, ExecuteFails, Release, Goto, Locals, Used
  <2> QED
    BY <1>e, <2>1, Itinerary, Zenon
<1>12. ASSUME NEW c \in Costs, ExecuteReturns(r, c) PROVE P
  <2>1. q.pc = "upstream" /\ p.pc = "reconcile"
    BY <1>12, <1>a, <1>d DEF ExecuteReturns, Locals
  <2>2. Append2(r, Event("REQUEST_EXECUTED", 0), Event("USAGE_REPORTED", c)) /\ c \in Nat
    BY <1>12, <1>c, Zenon DEF ExecuteReturns
  <2>3. ~Booked(q)
    BY <2>1, Zenon DEF Booked
  <2> QED
    BY <1>b, <1>g, <1>h, <2>1, <2>2, <2>3, Itinerary, Zenon
<1>13. CASE Reconcile(r)
  <2>1. p.cost = q.cost /\ q.pc \in Paid /\ p.pc \in Paid /\ ledger' = ledger
    BY <1>13, <1>a, <1>d DEF Reconcile, Goto, Locals, Paid
  <2> QED
    BY <1>e, <2>1, Itinerary, Zenon
<1>14. CASE LogRelease(r)
  <2>1. /\ q.pc = "released" /\ p.cost = q.cost /\ p.pc = "done" /\ p.verdict = "allow"
        /\ p.err \in {"provider", "upstream"}
    BY <1>14, <1>a, <1>d DEF LogRelease, Goto, Linked, Locals
  <2>2. CASE Append2(r, Event("RESERVATION_RELEASED", 0), Event("REQUEST_FAILED", 0))
    <3>1. Moves(q, p, 2, {"RESERVATION_RELEASED", "REQUEST_FAILED"})
      BY <2>1, <2>2, Itinerary, Zenon
    <3>2. Costed(ledger[r], p.cost) /\ "COST_RECONCILED" \notin {"RESERVATION_RELEASED", "REQUEST_FAILED"} /\ 0 \in Nat
      BY <1>h, <2>1, Zenon
    <3> QED
      BY <1>b, <1>g, <2>2, <3>1, <3>2, Zenon
  <2>3. CASE Append1(r, Event("RESERVATION_RELEASED", 0))
    BY <1>b, <1>f, <2>1, <2>3, Itinerary, Zenon
  <2> QED
    BY <1>14, <2>2, <2>3, Zenon DEF LogRelease
<1>15. CASE ReconcileFails(r)
  <2>1. /\ q.pc = "reconcile" /\ p.cost = q.cost
        /\ p.pc = "done" /\ p.verdict = "allow" /\ p.err = "terminal"
    BY <1>15, <1>a, <1>d DEF ReconcileFails, Return, Linked, Locals
  <2>2. Append1(r, Event("REQUEST_FAILED", 0))
    BY <1>15, Zenon DEF ReconcileFails
  <2> QED
    BY <1>b, <1>f, <2>1, <2>2, Itinerary, Zenon
<1>16. CASE LogReconcile(r)
  <2>1. q.pc = "reconciled" /\ p.cost = q.cost /\ p.pc = "record"
    BY <1>16, <1>a, <1>d DEF LogReconcile, Goto, Locals
  <2>2. Append1(r, Event("COST_RECONCILED", q.cost))
    BY <1>16, Zenon DEF LogReconcile
  <2> QED
    BY <1>b, <1>c, <1>f, <2>1, <2>2, Itinerary, Zenon
<1>17. CASE RecordUsage(r)
  <2>1. /\ q.pc = "record" /\ p.cost = q.cost /\ p.pc = "done"
        /\ p.verdict = "allow" /\ p.err = "none" /\ ledger' = ledger
    BY <1>17, <1>a, <1>d DEF RecordUsage, Goto, Linked, Locals
  <2> QED
    BY <1>e, <2>1, Itinerary, Zenon
<1> QED
  BY <1>1, <1>2, <1>5, <1>6, <1>7, <1>8, <1>9, <1>10, <1>11, <1>12, <1>13, <1>14, <1>15, <1>16, <1>17, Zenon
     DEF Arrive, Evaluate, Deliver

\* No step of another caller's, the operators' or the sweeper's touches a log.
LEMMA LogsStep == LocalsOK /\ R!TypeOK /\ Links /\ Logs /\ [Next]_vars => Logs'
<1> SUFFICES ASSUME LocalsOK, R!TypeOK, Links, Logs, [Next]_vars PROVE Logs'
  OBVIOUS
<1>1. ASSUME NEW r \in Requests, Arrive(r) \/ Evaluate(r) \/ Deliver(r) PROVE Logs'
  <2>1. /\ LogOK(requests'[r], ledger'[r]) /\ ledger' \in [Requests -> Seq(LedgerEvents)]
        /\ \A x \in Requests \ {r} : ledger'[x] = ledger[x]
    BY <1>1, LogOwnStep
  <2>2. \A x \in Requests \ {r} : requests'[x] = requests[x]
    BY <1>1, OwnStep
  <2> QED
    BY <2>1, <2>2, Zenon DEF Logs
<1>2. CASE UNCHANGED <<requests, ledger>>
  BY <1>2 DEF Logs
<1>3. CASE \/ \E k \in Switches, on \in BOOLEAN : SetKillSwitch(k, on)
           \/ \E t \in Tenants, l \in Limits : SetBudget(t, l)
           \/ \E s \in Sweepers : ExpireStale(s)
           \/ Tick
  BY <1>2, <1>3 DEF SetKillSwitch, SetBudget, ExpireStale, Tick
<1> QED
  BY <1>1, <1>2, <1>3 DEF Next, vars

\* What a request has added to the COST_RECONCILED events of tenant t, and what it
\* contributes to the books of t while its step is pc.
Billed(q, t) == IF q.tenant = t /\ Booked(q) THEN q.cost ELSE 0
Due(q, t, pc) == IF q.tenant = t /\ q.pc = pc THEN q.cost ELSE 0
Bills(f, t) == [r \in Requests |-> Billed(f[r], t)]
Dues(f, t, pc) == [r \in Requests |-> Due(f[r], t, pc)]

\* What t has settled, s, and what is tracked of it, k, agree with what the requests f
\* have billed, up to those that stand between the two.
Balanced(f, t, s, k) ==
    /\ s = Total(Bills(f, t), MaxReservations) + Total(Dues(f, t, "reconciled"), MaxReservations)
    /\ Total(Bills(f, t), MaxReservations) = k + Total(Dues(f, t, "record"), MaxReservations)

Books == /\ tracked \in [Tenants -> Nat]
         /\ \A t \in Tenants : Balanced(requests, t, settled[t], tracked[t])

\* The request is at none of the steps between Reconcile and the end of a paid call.
Idle(q) == ~Booked(q) /\ q.pc # "reconciled"

\* Only Reconcile, the COST_RECONCILED event and RecordUsage touch an account of spend.
LEMMA IdleStep ==
    ASSUME LocalsOK, Links, NEW r \in Requests, Arrive(r) \/ Evaluate(r) \/ Deliver(r),
           ~Reconcile(r), ~LogReconcile(r), ~RecordUsage(r)
    PROVE  Idle(requests[r]) /\ Idle(requests'[r]) /\ UNCHANGED <<settled, tracked>>
<1> DEFINE P == Idle(requests[r]) /\ Idle(requests'[r]) /\ UNCHANGED <<settled, tracked>>
<1>a. requests \in [Requests -> Locals] /\ Linked(requests[r], reservations[r])
  BY DEF LocalsOK, Links
<1> USE <1>a DEF At, Locals, Idle, Booked, manager
<1>1. ASSUME NEW t \in Tenants, NEW p \in Providers, NEW a \in Amounts, Estimate(r, t, p, a) PROVE P
  BY <1>1 DEF Estimate
<1>2. CASE PricingFails(r)
  BY <1>2 DEF PricingFails, Return, Linked
<1>3. CASE CheckKillSwitch(r) \/ Kill(r) \/ Admit(r) \/ Refuse(r)
  BY <1>3 DEF CheckKillSwitch, Kill, Admit, Refuse, Goto, Answer
<1>4. ASSUME NEW v \in Verdicts, Score(r, v) PROVE P
  BY <1>4 DEF Score
<1>5. CASE EvaluateReserve(r)
  BY <1>5 DEF EvaluateReserve, Reserve, ReserveFails, Goto, R!ReserveCharge, R!ReserveStamp,
              R!ReservePublish, R!accounts
<1>6. CASE Fail(r) \/ Trip(r) \/ Succeed(r)
  BY <1>6 DEF Fail, Trip, Succeed, Goto, Linked
<1>7. CASE Execute(r) \/ ExecuteFails(r)
  BY <1>7 DEF Execute, ExecuteFails, Goto
<1>8. ASSUME NEW c \in Costs, ExecuteReturns(r, c) PROVE P
  BY <1>8 DEF ExecuteReturns
<1>9. CASE Release(r) \/ LogRelease(r)
  BY <1>9 DEF Release, LogRelease, Goto, R!Release, Linked
<1>10. CASE ReconcileFails(r)
  BY <1>10 DEF ReconcileFails, Return
<1> QED
  BY <1>1, <1>2, <1>3, <1>4, <1>5, <1>6, <1>7, <1>8, <1>9, <1>10, Zenon DEF Arrive, Evaluate, Deliver

\* The accounts of t move by what the request's contributions to them move: settled
\* from s to s1, tracked from k to k1, as the request goes from q to p.
Accounted(q, p, t, s, s1, k, k1) ==
    /\ s1 = s + (Billed(p, t) - Billed(q, t)) + (Due(p, t, "reconciled") - Due(q, t, "reconciled"))
    /\ k1 = k + (Billed(p, t) - Billed(q, t)) - (Due(p, t, "record") - Due(q, t, "record"))

\* What the steps of a request do to the accounts of its tenant, in numbers.
LEMMA Bookkeeping ==
    ASSUME NEW q, NEW p, NEW t, NEW s \in Int, NEW s1, NEW k \in Int, NEW k1, NEW C \in Int
    PROVE  /\ Idle(q) /\ Idle(p) /\ s1 = s /\ k1 = k => Accounted(q, p, t, s, s1, k, k1)
           /\ C = (IF q.tenant = t THEN q.cost ELSE 0) /\ p.tenant = q.tenant /\ p.cost = q.cost
              => /\ q.pc = "reconcile" /\ p.pc = "reconciled" /\ s1 = s + C /\ k1 = k
                       => Accounted(q, p, t, s, s1, k, k1)
                 /\ q.pc = "reconciled" /\ p.pc = "record" /\ s1 = s /\ k1 = k
                       => Accounted(q, p, t, s, s1, k, k1)
                 /\ /\ q.pc = "record" /\ p.pc = "done" /\ p.verdict = "allow" /\ p.err = "none"
                    /\ s1 = s /\ k1 = k + C
                    => Accounted(q, p, t, s, s1, k, k1)
<1>1. ASSUME Idle(q), Idle(p), s1 = s, k1 = k PROVE Accounted(q, p, t, s, s1, k, k1)
  <2>1. /\ Billed(q, t) = 0 /\ Billed(p, t) = 0 /\ Due(q, t, "reconciled") = 0 /\ Due(p, t, "reconciled") = 0
        /\ Due(q, t, "record") = 0 /\ Due(p, t, "record") = 0
    BY <1>1 DEF Idle, Booked, Billed, Due
  <2> QED
    BY <1>1, <2>1 DEF Accounted
<1>2. ASSUME C = (IF q.tenant = t THEN q.cost ELSE 0), p.tenant = q.tenant, p.cost = q.cost
      PROVE  /\ q.pc = "reconcile" /\ p.pc = "reconciled" /\ s1 = s + C /\ k1 = k
                   => Accounted(q, p, t, s, s1, k, k1)
             /\ q.pc = "reconciled" /\ p.pc = "record" /\ s1 = s /\ k1 = k
                   => Accounted(q, p, t, s, s1, k, k1)
             /\ /\ q.pc = "record" /\ p.pc = "done" /\ p.verdict = "allow" /\ p.err = "none"
                /\ s1 = s /\ k1 = k + C
                => Accounted(q, p, t, s, s1, k, k1)
  <2>1. ASSUME q.pc = "reconcile", p.pc = "reconciled", s1 = s + C, k1 = k
        PROVE  Accounted(q, p, t, s, s1, k, k1)
    <3>1. /\ Billed(q, t) = 0 /\ Billed(p, t) = 0 /\ Due(q, t, "reconciled") = 0
          /\ Due(p, t, "reconciled") = C /\ Due(q, t, "record") = 0 /\ Due(p, t, "record") = 0
      BY <1>2, <2>1 DEF Billed, Due, Booked
    <3> QED
      BY <2>1, <3>1 DEF Accounted
  <2>2. ASSUME q.pc = "reconciled", p.pc = "record", s1 = s, k1 = k
        PROVE  Accounted(q, p, t, s, s1, k, k1)
    <3>1. /\ Billed(q, t) = 0 /\ Billed(p, t) = C /\ Due(q, t, "reconciled") = C
          /\ Due(p, t, "reconciled") = 0 /\ Due(q, t, "record") = 0 /\ Due(p, t, "record") = C
      BY <1>2, <2>2 DEF Billed, Due, Booked
    <3> QED
      BY <2>2, <3>1 DEF Accounted
  <2>3. ASSUME q.pc = "record", p.pc = "done", p.verdict = "allow", p.err = "none", s1 = s, k1 = k + C
        PROVE  Accounted(q, p, t, s, s1, k, k1)
    <3>1. /\ Billed(q, t) = C /\ Billed(p, t) = C /\ Due(q, t, "reconciled") = 0
          /\ Due(p, t, "reconciled") = 0 /\ Due(q, t, "record") = C /\ Due(p, t, "record") = 0
      BY <1>2, <2>3 DEF Billed, Due, Booked
    <3> QED
      BY <2>3, <3>1 DEF Accounted
  <2> QED
    BY <2>1, <2>2, <2>3, Zenon
<1> QED
  BY <1>1, <1>2, Zenon

\* What booking a cost does to an account.
LEMMA Credit ==
    ASSUME NEW f \in [Tenants -> Nat], NEW u \in Tenants, NEW t \in Tenants, NEW c \in Nat
    PROVE  /\ [f EXCEPT ![u] = @ + c] \in [Tenants -> Nat]
           /\ [f EXCEPT ![u] = @ + c][t] = f[t] + (IF u = t THEN c ELSE 0)
OBVIOUS

\* A step of a request's own changes the three accounts of a tenant's spend by what it
\* changes of the request's contributions to them.
LEMMA BooksOwnStep ==
    ASSUME LocalsOK, R!TypeOK, Links, tracked \in [Tenants -> Nat], NEW r \in Requests,
           Arrive(r) \/ Evaluate(r) \/ Deliver(r), NEW t \in Tenants
    PROVE  /\ tracked' \in [Tenants -> Nat]
           /\ Accounted(requests[r], requests'[r], t, settled[t], settled'[t], tracked[t], tracked'[t])
<1> DEFINE q == requests[r]
           p == requests'[r]
           C == IF q.tenant = t THEN q.cost ELSE 0
<1>a. /\ requests \in [Requests -> Locals] /\ Linked(q, reservations[r])
      /\ settled \in [Tenants -> Nat]
  BY Zenon DEF LocalsOK, Links, R!TypeOK
<1>b. q.tenant \in Tenants /\ q.cost \in Nat
  BY <1>a, LocalsType, Zenon
<1>c. settled[t] \in Int /\ tracked[t] \in Int /\ C \in Int
  BY <1>a, <1>b
<1>d. /\ [settled EXCEPT ![q.tenant] = @ + q.cost][t] = settled[t] + C
      /\ [tracked EXCEPT ![q.tenant] = @ + q.cost][t] = tracked[t] + C
      /\ [tracked EXCEPT ![q.tenant] = @ + q.cost] \in [Tenants -> Nat]
  BY <1>a, <1>b, Credit, Zenon
<1>1. CASE Idle(q) /\ Idle(p) /\ UNCHANGED <<settled, tracked>>
  BY <1>1, <1>c, Bookkeeping, Zenon
<1>2. CASE Reconcile(r)
  <2>1. /\ q.pc = "reconcile" /\ p.pc = "reconciled" /\ p.tenant = q.tenant /\ p.cost = q.cost
        /\ tracked' = tracked /\ settled' = [settled EXCEPT ![q.tenant] = @ + q.cost]
    BY <1>2, <1>a, Zenon DEF Reconcile, At, Goto, R!ReconcileFirst, Linked, Locals
  <2>2. settled'[t] = settled[t] + C
    BY <1>d, <2>1, Zenon
  <2> QED
    BY <1>c, <2>1, <2>2, Bookkeeping, Zenon
<1>3. CASE LogReconcile(r)
  <2>1. /\ q.pc = "reconciled" /\ p.pc = "record" /\ p.tenant = q.tenant /\ p.cost = q.cost
        /\ tracked' = tracked /\ settled' = settled
    BY <1>3, <1>a DEF LogReconcile, At, Goto, Locals, manager
  <2> QED
    BY <1>c, <2>1, Bookkeeping, Zenon
<1>4. CASE RecordUsage(r)
  <2>1. /\ q.pc = "record" /\ p.pc = "done" /\ p.tenant = q.tenant /\ p.cost = q.cost
        /\ p.verdict = "allow" /\ p.err = "none"
        /\ tracked' = [tracked EXCEPT ![q.tenant] = @ + q.cost] /\ settled' = settled
    BY <1>4, <1>a DEF RecordUsage, At, Goto, Linked, Locals, manager
  <2>2. tracked'[t] = tracked[t] + C /\ tracked' \in [Tenants -> Nat]
    BY <1>d, <2>1, Zenon
  <2> QED
    BY <1>c, <2>1, <2>2, Bookkeeping, Zenon
<1> QED
  BY <1>1, <1>2, <1>3, <1>4, IdleStep, Zenon

\* The contributions are amounts, so that their sums are.
LEMMA BillsType ==
    ASSUME NEW f \in [Requests -> Locals], NEW t, NEW pc
    PROVE  /\ Bills(f, t) \in [1..MaxReservations -> Nat] /\ Bills(f, t) \in [1..MaxReservations -> Int]
           /\ Dues(f, t, pc) \in [1..MaxReservations -> Nat] /\ Dues(f, t, pc) \in [1..MaxReservations -> Int]
<1>1. \A r \in Requests : f[r].cost \in Nat
  BY LocalsType
<1> QED
  BY <1>1 DEF Bills, Dues, Billed, Due, Requests

\* Balanced accounts that move by what one request's contributions move stay balanced.
LEMMA BalanceKept ==
    ASSUME NEW f \in [Requests -> Locals], NEW g \in [Requests -> Locals], NEW r \in Requests,
           \A x \in Requests \ {r} : g[x] = f[x],
           NEW t, NEW s, NEW s1, NEW k \in Int, NEW k1,
           Balanced(f, t, s, k), Accounted(f[r], g[r], t, s, s1, k, k1)
    PROVE  Balanced(g, t, s1, k1)
<1> DEFINE N == MaxReservations
           Moved(b, b1) == Total(b1, N) = Total(b, N) + b1[r] - b[r]
           Known(b) == Total(b, N) \in Int /\ b[r] \in Int
<1>1. N \in Nat /\ r \in 1..N /\ Requests = 1..N
  BY GatewayAssumptions DEF R!ReservationAssumptions, Requests
<1>2. ASSUME NEW b \in [1..N -> Int], NEW b1 \in [1..N -> Int], \A x \in 1..N : x # r => b1[x] = b[x]
      PROVE  Moved(b, b1) /\ Known(b) /\ Known(b1)
  BY <1>1, <1>2, TotalUpdate, TotalType, Zenon
<1>3. /\ \A x \in 1..N : x # r => Bills(g, t)[x] = Bills(f, t)[x]
      /\ \A pc : \A x \in 1..N : x # r => Dues(g, t, pc)[x] = Dues(f, t, pc)[x]
  BY <1>1, Zenon DEF Bills, Dues
<1>4. /\ Bills(f, t)[r] = Billed(f[r], t) /\ Bills(g, t)[r] = Billed(g[r], t)
      /\ \A pc : Dues(f, t, pc)[r] = Due(f[r], t, pc) /\ Dues(g, t, pc)[r] = Due(g[r], t, pc)
  BY Zenon DEF Bills, Dues
<1> DEFINE B == Bills(f, t)
           B1 == Bills(g, t)
           C == Dues(f, t, "reconciled")
           C1 == Dues(g, t, "reconciled")
           D == Dues(f, t, "record")
           D1 == Dues(g, t, "record")
<1>5. /\ B \in [1..N -> Int] /\ B1 \in [1..N -> Int] /\ C \in [1..N -> Int] /\ C1 \in [1..N -> Int]
      /\ D \in [1..N -> Int] /\ D1 \in [1..N -> Int]
  BY BillsType, Zenon
<1> HIDE DEF Moved, Known
<1>6. /\ Moved(B, B1) /\ Moved(C, C1) /\ Moved(D, D1)
      /\ Known(B) /\ Known(B1) /\ Known(C) /\ Known(C1) /\ Known(D) /\ Known(D1)
  BY <1>2, <1>3, <1>5, Zenon
<1>7. /\ s = Total(B, N) + Total(C, N) /\ Total(B, N) = k + Total(D, N)
      /\ s1 = s + (B1[r] - B[r]) + (C1[r] - C[r]) /\ k1 = k + (B1[r] - B[r]) - (D1[r] - D[r])
  BY <1>4, Zenon DEF Balanced, Accounted
<1> HIDE DEF B, B1, C, C1, D, D1, N
<1>8. s1 = Total(B1, N) + Total(C1, N)
  <2>1. /\ Moved(B, B1) /\ Moved(C, C1) /\ Known(B) /\ Known(B1) /\ Known(C) /\ Known(C1)
        /\ s = Total(B, N) + Total(C, N) /\ s1 = s + (B1[r] - B[r]) + (C1[r] - C[r])
    BY <1>6, <1>7, Zenon
  <2> QED
    BY ONLY <2>1 DEF Moved, Known
<1>9. Total(B1, N) = k1 + Total(D1, N)
  <2>1. /\ Moved(B, B1) /\ Moved(D, D1) /\ Known(B) /\ Known(B1) /\ Known(D) /\ Known(D1)
        /\ Total(B, N) = k + Total(D, N) /\ k1 = k + (B1[r] - B[r]) - (D1[r] - D[r]) /\ k \in Int
    BY <1>6, <1>7, Zenon
  <2> QED
    BY ONLY <2>1 DEF Moved, Known
<1> QED
  BY <1>8, <1>9 DEF Balanced, B, B1, C, C1, D, D1, N

\* Every step of the gateway books what it bills.
LEMMA BooksStep == LocalsOK /\ LocalsOK' /\ R!TypeOK /\ Links /\ Books /\ [Next]_vars => Books'
<1> SUFFICES ASSUME LocalsOK, LocalsOK', R!TypeOK, Links, Books, [Next]_vars PROVE Books'
  OBVIOUS
<1>a. /\ requests \in [Requests -> Locals] /\ requests' \in [Requests -> Locals]
      /\ tracked \in [Tenants -> Nat] /\ \A t \in Tenants : tracked[t] \in Int
      /\ \A t \in Tenants : Balanced(requests, t, settled[t], tracked[t])
  BY DEF LocalsOK, Books
<1>1. ASSUME NEW r \in Requests, Arrive(r) \/ Evaluate(r) \/ Deliver(r) PROVE Books'
  <2>1. \A x \in Requests \ {r} : requests'[x] = requests[x]
    BY <1>1, OwnStep, Zenon
  <2>2. ASSUME NEW t \in Tenants
        PROVE  tracked' \in [Tenants -> Nat] /\ Balanced(requests', t, settled'[t], tracked'[t])
    <3>1. /\ tracked' \in [Tenants -> Nat]
          /\ Accounted(requests[r], requests'[r], t, settled[t], settled'[t], tracked[t], tracked'[t])
      BY <1>1, <1>a, BooksOwnStep, Zenon
    <3> QED
      BY <1>a, <2>1, <3>1, BalanceKept, ZenonT(60)
  <2>3. Tenants # {}
    BY GatewayAssumptions, Zenon DEF R!ReservationAssumptions
  <2> QED
    BY <2>2, <2>3, Zenon DEF Books
<1>2. CASE UNCHANGED <<requests, settled, tracked>>
  BY <1>2, <1>a, Zenon DEF Books
<1>3. CASE \/ \E k \in Switches, on \in BOOLEAN : SetKillSwitch(k, on)
           \/ \E t \in Tenants, l \in Limits : SetBudget(t, l)
           \/ \E s \in Sweepers : ExpireStale(s)
           \/ Tick
  <2>1. UNCHANGED <<requests, settled, tracked>>
    BY <1>3 DEF SetKillSwitch, SetBudget, ExpireStale, Tick, manager, R!SetBudget, R!ExpireStale, R!ExpireNow,
                R!ExpireScan, R!ExpireOne, R!ExpireReturn, R!Tick, R!accounts
  <2> QED
    BY <1>2, <2>1, Zenon
<1> QED
  BY <1>1, <1>2, <1>3, Zenon DEF Next, vars, manager

\* Nothing is spent at the start.
LEMMA BooksInit == Init => Books
<1> SUFFICES ASSUME Init PROVE Books
  OBVIOUS
<1>1. \A r \in Requests : requests[r].pc = "new"
  BY DEF Init
<1>2. MaxReservations \in Nat
  BY GatewayAssumptions DEF R!ReservationAssumptions
<1>3. ASSUME NEW t \in Tenants, NEW pc \in {"reconciled", "record"}
      PROVE  /\ Total(Bills(requests, t), MaxReservations) = 0
             /\ Total(Dues(requests, t, pc), MaxReservations) = 0
  <2>1. /\ Bills(requests, t) \in [1..MaxReservations -> Int]
        /\ Dues(requests, t, pc) \in [1..MaxReservations -> Int]
    BY BillsType, LocalsInit, Zenon DEF LocalsOK
  <2>2. \A k \in 1..MaxReservations : Bills(requests, t)[k] = 0 /\ Dues(requests, t, pc)[k] = 0
    BY <1>1 DEF Bills, Dues, Billed, Due, Booked, Requests
  <2> QED
    BY <1>2, <2>1, <2>2, TotalZero
<1>4. \A t \in Tenants : settled[t] = 0 /\ tracked[t] = 0
  BY Zenon DEF Init, R!Init
<1>5. tracked \in [Tenants -> Nat]
  BY DEF Init
<1> QED
  BY <1>3, <1>4, <1>5 DEF Books, Balanced
-----------------------------------------------------------------------------
\* Nobody is ahead of a kill switch in the initial state.
LEMMA OvertakenInit == Init => Overtaken
BY Zenon DEF Init, Overtaken

\* No breaker is in use in the initial state.
LEMMA TrialsInit == Init => Trials
BY CooldownAssumption DEF Init, Trials, TrialIsJudged, NewBreaker, Breakers, CircuitStates

\* The link of every request and the manager's deadlines give the held budget.
LEMMA LinksHoldBudget ==
    LocalsOK /\ R!TypeOK /\ Links /\ R!ExpiredOnlyAfterDeadline => BudgetHeldUpstream
BY Zenon DEF Links, Linked, BudgetHeldUpstream, R!ExpiredOnlyAfterDeadline, R!Ids, Requests

\* What a finished request is linked to fits the answer it got.
LEMMA LinksTellCharge == LocalsOK /\ Links => AnswerTellsCharge
<1> SUFFICES ASSUME LocalsOK, Links, NEW r \in Requests, At(r, "done")
             PROVE  /\ Status(r) = 200 <=> reservations[r].state = "RECONCILED"
                    /\ Status(r) = 429 => reservations[r].state \in {"RESERVED", "EXPIRED"}
                    /\ Status(r) = 402 => reservations[r].state = "FREE"
                    /\ Status(r) = 502 => reservations[r].state \in {"FREE", "RELEASED", "EXPIRED"}
  BY DEF AnswerTellsCharge
<1>1. Linked(requests[r], reservations[r])
  BY DEF Links
<1> QED
  BY <1>1 DEF Linked, At, Status

\* No request that was not ahead of a kill switch is past killSwitchActive.
LEMMA LinksStopKilled == Links /\ Overtaken => KillSwitchStops
BY Zenon DEF Links, Linked, Overtaken, KillSwitchStops

\* A finished request's log and its reservation tell the same.
LEMMA LogsTellFate == LocalsOK /\ R!TypeOK /\ Links /\ Logs => LedgerTellsFate
<1> SUFFICES ASSUME Links, Logs, NEW r \in Requests, At(r, "done")
             PROVE  /\ Logged(r, "RESERVATION_CREATED") <=> reservations[r].state # "FREE"
                    /\ Logged(r, "COST_RECONCILED") <=> reservations[r].state = "RECONCILED"
                    /\ Logged(r, "RESERVATION_RELEASED") => reservations[r].state \in {"RELEASED", "EXPIRED"}
                    /\ reservations[r].state = "RELEASED" => Logged(r, "RESERVATION_RELEASED")
                    /\ Logged(r, "REQUEST_THROTTLED") => reservations[r].state \in {"RESERVED", "EXPIRED"}
                    /\ reservations[r].state = "RESERVED" => Logged(r, "REQUEST_THROTTLED")
  BY Zenon DEF LedgerTellsFate
<1>1. \A type : Logged(r, type) <=> Has(ledger[r], type)
  BY DEF Logged, Has
<1>2. /\ Has(ledger[r], "RESERVATION_CREATED") <=> Created(requests[r])
      /\ Has(ledger[r], "COST_RECONCILED") <=> Booked(requests[r])
      /\ Has(ledger[r], "RESERVATION_RELEASED") <=> GivenBack(requests[r])
      /\ Has(ledger[r], "REQUEST_THROTTLED") <=> Throttled(requests[r])
  BY DEF Logs, LogOK
<1>3. Linked(requests[r], reservations[r]) /\ requests[r].pc = "done"
  BY DEF Links, At
<1> QED
  BY <1>1, <1>2, <1>3, Zenon DEF Linked, Created, Booked, GivenBack, Throttled

\* The books, read through the logs, are the sums SpendAccounted compares.
LEMMA BooksAccountSpend == LocalsOK /\ Logs /\ Books => SpendAccounted
<1> SUFFICES ASSUME LocalsOK, Logs, Books, NEW t \in Tenants
             PROVE  /\ settled[t] = Total(LedgerCosts(t), MaxReservations)
                                       + Total(CostAt(t, {"reconciled"}), MaxReservations)
                    /\ Total(LedgerCosts(t), MaxReservations)
                          = tracked[t] + Total(CostAt(t, {"record"}), MaxReservations)
  BY DEF SpendAccounted
<1>1. ASSUME NEW r \in Requests
      PROVE  LoggedCost(r) = IF Booked(requests[r]) THEN requests[r].cost ELSE 0
  <2>1. LogOK(requests[r], ledger[r])
    BY DEF Logs
  <2>2. Logged(r, "COST_RECONCILED") <=> Booked(requests[r])
    BY <2>1, ZenonT(60) DEF LogOK, Logged, Has
  <2>3. \A e \in {ledger[r][i] : i \in DOMAIN ledger[r]} :
            e.type = "COST_RECONCILED" => e.amount = requests[r].cost
    BY <2>1, Zenon DEF LogOK, Costed
  <2>4. Logged(r, "COST_RECONCILED") =>
            \E e \in {ledger[r][i] : i \in DOMAIN ledger[r]} : e.type = "COST_RECONCILED"
    BY DEF Logged
  <2> QED
    BY <2>2, <2>3, <2>4 DEF LoggedCost
<1>2. LedgerCosts(t) = Bills(requests, t)
  BY <1>1 DEF LedgerCosts, Bills, Billed
<1>3. /\ CostAt(t, {"reconciled"}) = Dues(requests, t, "reconciled")
      /\ CostAt(t, {"record"}) = Dues(requests, t, "record")
  BY DEF CostAt, Dues, Due
<1> QED
  BY <1>2, <1>3 DEF Books, Balanced

\* The invariants of the pipeline contain its types.
LEMMA InvariantsType == LocalsOK /\ R!TypeOK /\ Logs /\ Books /\ Trials /\ Overtaken => TypeOK
<1> SUFFICES ASSUME LocalsOK, R!TypeOK, Logs, Books, Trials, Overtaken PROVE TypeOK
  OBVIOUS
<1>1. requests \in [Requests -> [pc: Steps, tenant: Tenants, provider: Providers,
                                estimate: Nat, verdict: Verdicts \cup {"none"}, cost: Nat,
                                err: Errors \cup {"none"}]]
  <2> DEFINE T == [pc: Steps, tenant: Tenants, provider: Providers, estimate: Nat,
                   verdict: Verdicts \cup {"none"}, cost: Nat, err: Errors \cup {"none"}]
  <2>1. ASSUME NEW q \in Locals PROVE q \in T
    <3>1. q.cost \in Nat /\ q.estimate \in Nat
      BY LocalsType
    <3> QED
      BY <3>1 DEF Locals
  <2> HIDE DEF T
  <2>2. requests \in [Requests -> T]
    BY <2>1 DEF LocalsOK
  <2> QED
    BY <2>2 DEF T
<1>2. ASSUME NEW r \in Requests
      PROVE  ledger[r] \in Seq([type: EventTypes, amount: Nat]) /\ Len(ledger[r]) <= 6
  <2>1. LogOK(requests[r], ledger[r])
    BY DEF Logs
  <2>2. Len(ledger[r]) \in 0..6
    BY <2>1, ZenonT(60) DEF LogOK, Length
  <2>3. ledger[r] \in Seq(LedgerEvents)
    BY <2>1, Zenon DEF LogOK
  <2>4. ledger[r] \in Seq([type: EventTypes, amount: Nat])
    BY <2>3, Zenon DEF LedgerEvents
  <2>5. Len(ledger[r]) <= 6
    <3>1. \A n \in 0..6 : n <= 6
      OBVIOUS
    <3> QED
      BY <2>2, <3>1, Zenon
  <2> QED
    BY <2>4, <2>5, Zenon
<1>3. /\ tracked \in [Tenants -> Nat] /\ breakers \in [Tenants -> Breakers]
      /\ kills \subseteq Switches /\ ahead \in [Switches -> SUBSET Requests]
  BY DEF Books, Trials, Overtaken
<1> QED
  BY <1>1, <1>2, <1>3, Zenon DEF TypeOK

\* A settled reservation was made for the request's tenant and estimate, and settled at
\* the cost the provider reported.
SettledAs(q, s) ==
    s.state = "RECONCILED" => s.tenant = q.tenant /\ s.amount = q.estimate /\ s.actualCost = q.cost
Settlements == \A r \in Requests : SettledAs(requests[r], reservations[r])

\* Nothing is settled at the start.
LEMMA SettlementsInit == Init => Settlements
<1> SUFFICES ASSUME Init, NEW r \in Requests PROVE SettledAs(requests[r], reservations[r])
  BY Zenon DEF Settlements
<1>1. reservations[r] = R!Free
  BY Zenon DEF Init, R!Init, R!Ids, Requests
<1>2. R!Free.state = "FREE"
  BY DEF R!Free
<1> QED
  BY <1>1, <1>2 DEF SettledAs

\* A request settles its reservation in its Reconcile, at its cost, and changes neither
\* tenant, estimate nor cost afterwards.
LEMMA SettledOwnStep ==
    ASSUME LocalsOK, R!TypeOK, Links, Settlements,
           NEW r \in Requests, Arrive(r) \/ Evaluate(r) \/ Deliver(r)
    PROVE  SettledAs(requests'[r], reservations'[r])
<1>a. /\ requests \in [Requests -> Locals] /\ reservations \in [Requests -> R!Reservations]
      /\ R!Ids = Requests
  BY DEF LocalsOK, R!TypeOK, R!Ids, Requests
<1>1. CASE ~Reconcile(r) /\ ~LogReconcile(r) /\ ~RecordUsage(r)
  <2>1. Idle(requests'[r])
    BY <1>1, IdleStep, Zenon
  <2>2. Linked(requests'[r], reservations'[r])
    BY OwnStep
  <2>3. requests'[r].pc \in Steps
    BY LocalsStep DEF Next, LocalsOK, Locals
  <2>4. reservations'[r].state # "RECONCILED"
    BY <2>1, <2>2, <2>3, ZenonT(60) DEF Idle, Booked, Linked, Steps, Judging
  <2> QED
    BY <2>4 DEF SettledAs
<1>2. CASE Reconcile(r)
  <2>1. reservations[r].tenant = requests[r].tenant /\ reservations[r].amount = requests[r].estimate
    BY <1>2, ZenonT(60) DEF Reconcile, At, Links, Linked
  <2>2. requests'[r] = [requests[r] EXCEPT !.pc = "reconciled"]
    BY <1>a, <1>2 DEF Reconcile, Goto
  <2>3. /\ reservations'[r].tenant = reservations[r].tenant
        /\ reservations'[r].amount = reservations[r].amount
        /\ reservations'[r].actualCost = requests[r].cost
    BY <1>a, <1>2 DEF Reconcile, R!ReconcileFirst, R!Reservations
  <2>4. /\ requests'[r].tenant = requests[r].tenant /\ requests'[r].estimate = requests[r].estimate
        /\ requests'[r].cost = requests[r].cost
    BY <1>a, <2>2 DEF Locals
  <2> QED
    BY <2>1, <2>3, <2>4, ZenonT(60) DEF SettledAs
<1>3. CASE LogReconcile(r) \/ RecordUsage(r)
  <2>1. reservations'[r] = reservations[r]
    BY <1>3, ZenonT(60) DEF LogReconcile, RecordUsage, manager
  <2>2. /\ requests'[r].tenant = requests[r].tenant /\ requests'[r].estimate = requests[r].estimate
        /\ requests'[r].cost = requests[r].cost
    BY <1>a, <1>3 DEF LogReconcile, RecordUsage, Goto, Locals
  <2> QED
    BY <2>1, <2>2, ZenonT(60) DEF Settlements, SettledAs
<1> QED
  BY <1>1, <1>2, <1>3, Zenon

\* Neither another request nor a sweep settles the reservation of a request.
LEMMA SettlementsStep == LocalsOK /\ R!TypeOK /\ Links /\ Settlements /\ [Next]_vars => Settlements'
<1> SUFFICES ASSUME LocalsOK, R!TypeOK, Links, Settlements, [Next]_vars, NEW x \in Requests
             PROVE  SettledAs(requests'[x], reservations'[x])
  BY Zenon DEF Settlements
<1>a. SettledAs(requests[x], reservations[x])
  BY ZenonT(60) DEF Settlements
<1>1. ASSUME NEW r \in Requests, Arrive(r) \/ Evaluate(r) \/ Deliver(r)
      PROVE  SettledAs(requests'[x], reservations'[x])
  <2>1. CASE x = r
    BY <1>1, <2>1, SettledOwnStep, Zenon
  <2>2. CASE x # r
    <3>1. requests'[x] = requests[x] /\ reservations'[x] = reservations[x]
      BY <1>1, <2>2, OwnStep
    <3> QED
      BY <1>a, <3>1
  <2> QED
    BY <2>1, <2>2
<1>2. ASSUME \/ \E k \in Switches, on \in BOOLEAN : SetKillSwitch(k, on)
             \/ \E t \in Tenants, l \in Limits : SetBudget(t, l)
             \/ \E s \in Sweepers : ExpireStale(s)
             \/ Tick
      PROVE  SettledAs(requests'[x], reservations'[x])
  <2>1. /\ requests'[x] = requests[x]
        /\ reservations'[x].tenant = reservations[x].tenant
        /\ reservations'[x].amount = reservations[x].amount
        /\ reservations'[x].actualCost = reservations[x].actualCost
        /\ reservations'[x].state = "RECONCILED" => reservations[x].state = "RECONCILED"
    BY <1>2, ForeignStep, ZenonT(60)
  <2> QED
    BY <1>a, <2>1 DEF SettledAs
<1>3. CASE UNCHANGED vars
  BY <1>a, <1>3, ZenonT(60) DEF vars, manager
<1> QED
  BY <1>1, <1>2, <1>3, Zenon DEF Next

-----------------------------------------------------------------------------
\* The reservation manager with the theorems about it.
RP == INSTANCE ReservationProofs

\* The two instances of the manager have the same steps.
LEMMA SameManager == (R!Init <=> RP!Init) /\ (R!Next <=> RP!Next)
BY DEF R!Init, RP!Init, R!Next, RP!Next, R!Ids, RP!Ids, R!Free, RP!Free, R!accounts, RP!accounts,
       R!Private, RP!Private, R!SetBudget, RP!SetBudget, R!Available, RP!Available,
       R!Affords, RP!Affords, R!ReserveCharge, RP!ReserveCharge, R!ReserveStamp, RP!ReserveStamp,
       R!ReservePublish, RP!ReservePublish, R!Published, RP!Published,
       R!StillReserved, RP!StillReserved, R!Uncharge, RP!Uncharge, R!Release, RP!Release,
       R!ReconcileResult, RP!ReconcileResult, R!ReconcileFirst, RP!ReconcileFirst,
       R!ReconcileAgain, RP!ReconcileAgain, R!ExpireStale, RP!ExpireStale,
       R!ExpireNow, RP!ExpireNow, R!ExpireScan, RP!ExpireScan, R!ExpireOne, RP!ExpireOne,
       R!ExpireReturn, RP!ExpireReturn, R!Running, RP!Running, R!Tick, RP!Tick

\* In the pipeline, too, the manager's counters equal its books and its exposure is
\* bounded, nothing expires early and a closed reservation stays closed: what was
\* proved of the manager alone holds of it under HandleRequest and Evaluate.
THEOREM ManagerPromisesKept ==
    Spec => /\ [](R!TypeOK /\ R!BooksBalance /\ R!ExposureBounded /\ R!ExpiredOnlyAfterDeadline)
            /\ R!ClosedIsFinal
<1>1. RP!ReservationAssumptions
  BY GatewayAssumptions DEF R!ReservationAssumptions, RP!ReservationAssumptions
<1>2. R!Spec => RP!Spec
  BY SameManager, PTL DEF R!Spec, RP!Spec, R!vars, RP!vars
<1>3. RP!TypeOK => R!TypeOK
  BY DEF R!TypeOK, RP!TypeOK, R!Ids, RP!Ids, R!Reservations, RP!Reservations, R!Results, RP!Results,
         R!States, RP!States, R!Private, RP!Private, R!Final, RP!Final
<1>4. RP!BooksBalance => R!BooksBalance
  BY Zenon DEF R!BooksBalance, RP!BooksBalance, R!Held, RP!Held, R!Spent, RP!Spent, R!Ids, RP!Ids,
         R!Private, RP!Private, R!Total, RP!Total, R!PartialSums, RP!PartialSums
<1>5. RP!ExposureBounded => R!ExposureBounded
  BY Zenon DEF R!ExposureBounded, RP!ExposureBounded, R!Overages, RP!Overages, R!Ids, RP!Ids,
         R!ReconcileResult, RP!ReconcileResult, R!Total, RP!Total,
         R!PartialSums, RP!PartialSums
<1>6. RP!ExpiredOnlyAfterDeadline => R!ExpiredOnlyAfterDeadline
  BY Zenon DEF R!ExpiredOnlyAfterDeadline, RP!ExpiredOnlyAfterDeadline, R!Ids, RP!Ids
<1>7. RP!ClosedIsFinal => R!ClosedIsFinal
  BY PTL DEF R!ClosedIsFinal, RP!ClosedIsFinal, R!Ids, RP!Ids, R!Final, RP!Final, R!vars, RP!vars
<1> QED
  BY <1>1, <1>2, <1>3, <1>4, <1>5, <1>6, <1>7, GatewayUsesManager, RP!TypeCorrect,
     RP!BooksAlwaysBalance, RP!ExposureAlwaysBounded, RP!NeverExpiredEarly,
     RP!ClosedStaysClosed, PTL

\* The links hold throughout, and with them what is known of the manager.
LEMMA LinksAlways == Spec => [](LocalsOK /\ R!TypeOK /\ Links)
<1>1. Spec => []R!TypeOK
  BY ManagerPromisesKept, PTL
<1> QED
  BY <1>1, LocalsInit, LocalsStep, LinksInit, LinksStep, PTL DEF Spec

\* Execute and Reconcile run on the reservation Evaluate made for the request, still
\* held unless a sweep took it after its ttl.
THEOREM BudgetAlwaysHeldUpstream == Spec => []BudgetHeldUpstream
BY LinksHoldBudget, LinksAlways, ManagerPromisesKept, PTL

\* What handleProxy answers tells what the request was charged, whichever order the
\* verdict, the error and a sweep come in.
THEOREM AnswerAlwaysTellsCharge == Spec => []AnswerTellsCharge
BY LinksTellCharge, LinksAlways, PTL

\* The kill switches stop, whichever their scope, every request that had not passed
\* killSwitchActive when they were turned on, for any number of requests and of
\* switches turned on and off in any order.
THEOREM KillSwitchAlwaysStops == Spec => []KillSwitchStops
BY OvertakenInit, OvertakenStep, LinksStopKilled, LinksAlways, PTL DEF Spec

\* For any number of concurrent requests and whatever their verdicts, Evaluate never
\* leaves a tenant's breaker in the state that refuses everybody with nobody left to
\* report to it.
THEOREM TrialAlwaysJudged == Spec => []TrialIsJudged
<1>1. Trials => TrialIsJudged
  BY DEF Trials
<1> QED
  BY <1>1, TrialsInit, TrialStep, LinksAlways, PTL DEF Spec

\* Every request's log tells its fate, in every reachable state.
LEMMA LogsAlways == Spec => [](LocalsOK /\ R!TypeOK /\ Links /\ Logs)
BY LinksAlways, LogsInit, LogsStep, PTL DEF Spec

\* The ledger tells what became of the budget of every finished request, whatever was
\* swept, revoked or killed on the way: the log is written by the request's own steps,
\* in the same order as its calls of the manager.
THEOREM LedgerAlwaysTellsFate == Spec => []LedgerTellsFate
BY LogsTellFate, LogsAlways, PTL

\* Settled cost, COST_RECONCILED events and tracked usage of every tenant agree up to
\* the requests between their Reconcile and their last step, for any number of requests.
THEOREM SpendAlwaysAccounted == Spec => []SpendAccounted
BY BooksInit, BooksStep, BooksAccountSpend, LogsAlways, LocalsStep, PTL DEF Spec

\* The manager's exceptions to its budget are the requests whose estimate was too low.
THEOREM OverspendAlwaysFromEstimate == Spec => []OverspendFromEstimate
<1>1. RP!ReservationAssumptions
  BY GatewayAssumptions DEF R!ReservationAssumptions, RP!ReservationAssumptions
<1>2. R!Spec => RP!Spec
  BY SameManager, PTL DEF R!Spec, RP!Spec, R!vars, RP!vars
<1>3. Settlements /\ RP!OverspendReported => OverspendFromEstimate
  <2> SUFFICES ASSUME Settlements, RP!OverspendReported, NEW t \in Tenants,
                      reserved[t] + settled[t] > peak[t]
               PROVE  \E r \in Requests : requests[r].tenant = t /\ requests[r].cost > requests[r].estimate
    BY Zenon DEF OverspendFromEstimate
  <2>1. PICK r \in Requests : /\ reservations[r].tenant = t /\ reservations[r].state = "RECONCILED"
                              /\ reservations[r].actualCost > reservations[r].amount
    BY Zenon DEF RP!OverspendReported, RP!Overran, RP!Ids, Requests
  <2>2. /\ reservations[r].tenant = requests[r].tenant /\ reservations[r].amount = requests[r].estimate
        /\ reservations[r].actualCost = requests[r].cost
    BY <2>1, Zenon DEF Settlements, SettledAs
  <2> QED
    BY <2>1, <2>2, ZenonT(60)
<1>4. Spec => []Settlements
  BY SettlementsInit, SettlementsStep, LinksAlways, PTL DEF Spec
<1> QED
  BY <1>1, <1>2, <1>3, <1>4, GatewayUsesManager, RP!OverspendAlwaysReported, PTL

\* While a tenant's breaker cools down, whatever the requests that are already past it
\* report, and whoever asks for its State, no step but time's changes it unless by a new
\* Trip, and Allow lets no request of the tenant through.
QuarantineKept == [][\A t \in Tenants : Quarantined(t)]_vars

\* For any number of concurrent requests the cooldown after a Trip is served in full.
THEOREM QuarantineAlwaysKept == Spec => QuarantineKept
BY CoolingInit, CoolingStep, TrialsInit, TrialStep, LinksAlways, PTL DEF Spec, QuarantineKept

\* The request pipeline keeps its types: the local variables, the breakers, the books,
\* the ledger, which grows by at most six events a request.
THEOREM GatewayAlwaysTyped == Spec => []TypeOK
BY InvariantsType, TrialsInit, TrialStep, OvertakenInit, OvertakenStep, BooksInit, BooksStep,
   LogsAlways, LocalsStep, PTL DEF Spec
=============================================================================
