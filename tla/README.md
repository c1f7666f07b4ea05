# A TLA+ verification of VelocityGuard

VelocityGuard is a gateway in front of metered APIs.  For each request it
estimates the cost, reserves it from the tenant's budget, checks the risk,
forwards the call, and reconciles the reservation with the cost the provider
reports.  This directory holds TLA+ models of its parts, the configurations that
check them with TLC, and proofs checked by TLAPS.

## 1. The system

| part | state | operations that change it | what makes it hard |
|---|---|---|---|
| `internal/reservation` | per tenant `limit`, `reserved`, `settled`; a map of records | `SetBudget`, `Reserve`, `Release`, `Reconcile`, `ExpireStale` | two kinds of mutex; `Reserve` charges before it publishes; `ExpireStale` acts on a list it took earlier; retries |
| `internal/circuit` | `state`, `openedAt`, `halfOpenGen` | `Trip`, `Allow`, `ReportSuccess`, `ReportFailure`, `State` | reports carry no identity; one trial slot; lazy OPEN to HALF_OPEN |
| `internal/risk` (engine) | tenant states, kill switches | `Evaluate`, `RecordUsage`, `KillAll/Tenant/Provider` | a decision made of many short critical sections |
| `internal/risk` (window) | three rolling windows, a baseline | `Record`, eviction in every read | four locks per `Record`; lazy eviction; readers in between |
| `internal/gateway` | none of its own | `HandleRequest` | every error path must settle budget, breaker and ledger |
| `internal/ledger` | a list of events | `Append` | the audit trail must agree with the books |
| `internal/pricing` | versions per provider and model | `AddRate` | intervals, order of insertion, 64-bit arithmetic |
| `internal/provider` | registry | `Register` | upstream failure and delay |
| `internal/store` | tenants, API keys | `CreateTenant`, `CreateAPIKey`, `Authenticate`, `RevokeAPIKey` | two backends for one contract; read, then write back |
| `internal/httpapi` | two rate limiters | `allow`, `sweepLoop`, handlers | lazy refill, eviction; order of the middleware; flip and log in two steps |
| `internal/config`, `cmd/gateway` | settings, wiring | start-up | what is lost in a restart; who gets a budget; who calls `ExpireStale` |
| `internal/money`, `migrations` | none | | width of an amount; table definitions |

The gateway calls the pricing registry, the engine, the manager, the registry of
providers and the ledger.  The engine calls the manager, the tenant's breaker and
its tracker.  The HTTP layer applies the limiters, authenticates with the store and
calls the gateway.

## 2. The modules

| module | models |
|---|---|
| `Sums` | the sum of a function over 1..n |
| `BudgetBook` | what a reservation manager promises: a book of entries, no counters |
| `Reservation` | `internal/reservation`, one step per critical section |
| `Breaker` | the methods of `internal/circuit` as functions on a breaker |
| `Circuit` | one breaker with concurrent callers, kill-switch trips and a clock |
| `Gateway` | `HandleRequest` and `Evaluate` of many requests, over an instance of `Reservation`, one `Breaker` per tenant, kill switches and the ledger |
| `Tracker` | a tenant's windows and baseline, `Record` and the reads of `score`, and the score |
| `Pricing` | `internal/pricing`, the versions of one model, and the estimate and cost of a request |
| `KeyStore` | `internal/store`, either backend |
| `Server` | the process on top of `KeyStore`: start-up, crash, the routes of `internal/httpapi` |
| `Provisioning` | `Server` beside the `budget_accounts` table |
| `TokenBucket`, `RateLimiter` | the ideal bucket, and `internal/httpapi/ratelimit.go` |
| `MC*` | symmetry sets and constants for TLC |
| `SumsProofs`, `ReservationProofs`, `CircuitProofs`, `GatewayProofs`, `TrackerProofs`, `PricingProofs`, `ServerProofs`, `RateLimiterProofs` | the proofs |

How state and steps correspond to the code:

* **Reservation.**  `limit`, `reserved`, `settled` are the account's fields, and
  an account that does not exist is one whose fields are 0.  `reservations` holds
  the records; `CHARGED` and `STAMPED` are the moments inside `Reserve` before
  the record is in the map.  `sweep` is the local state of each running
  `ExpireStale`.  `answers` and `peak` are history.  A deadline is the time left
  to it, so clocks are not bounded; -1 is "after `ExpiresAt`".  Calls that return
  an error or do nothing are stuttering steps.  `ExpireStale` reads
  `State` without the account mutex.  A value read while another goroutine
  writes it can only add or drop a record that is being closed, and the second
  test under the mutex makes both alike.
* **Breaker, Circuit.**  `cooling` is what is left of the cooldown.  `halfOpenGen`
  is left out, since nothing reads it; `stale` in `Circuit` marks the callers the
  field was meant to tell apart, and no action depends on it beyond the call
  itself.
* **Gateway.**  `requests[r].pc` is the place of request r between two locks,
  `verdict` and `err` what `HandleRequest` returns.  Request r uses reservation r.
  The risk verdict is arbitrary, which covers every score.  `ledger[r]` is the part
  of the ledger about request r, and `tracked` the sum of what `RecordUsage` was
  given.  `ahead` is history: who had passed the check of a kill switch when it was
  turned on.  `Sweepers` is empty for the program as `cmd/gateway` wires it.
  `State()` directly after another call on the breaker is part of that call's step,
  as its only effect is an advance that the next `Allow` would make.
* **Tracker.**  `windows` are the samples a window still holds, with their ages;
  `Evicted` is `evictLocked`, which every read and every `Record` applies.  A
  `Record` is five steps: arrival, one per window, and the baseline.  An evaluation
  reads baseline, short window, short window again, medium window and baseline, as
  `VelocityMultiplier`, `Acceleration` and `score` do.  Velocities are integers
  (`Scale` units), subscores hundredths of a percent, both rounded down.  `recent`
  and `range` are history: `recent` has an entry for every sample a window was ever
  given, which becomes `Spent` when it is older than the lookback, and `range` the
  extremes of the velocities the baseline was taught.
* **Pricing.**  A version is its interval and its price list; 0 is the zero time.
  The request keeps the copy of the price that `RateAt` gave it.  Amounts have
  `Width` bits and wrap around at every operation.  The mock provider is the one `main`
  makes, which has no `UsageFn` of its own.
* **KeyStore.**  A key is its own hash.  `auth` holds the copy of the record
  that an `Authenticate` call has read.
* **Server.**  `http[c]` is the request connection c is serving.  `Authenticate` runs the steps
  of `KeyStore` in the caller's goroutine; `Admit` is the rest of `requireAuth`.
  `Flip` and `Audit` are the two halves of `handleKillSwitch`.  `Start` is `main` up
  to `ListenAndServe`, `Crash` loses everything but Postgres' rows.  What a limiter
  answers is left open here (`RateLimiter` models it), and of `HandleRequest` only
  two conditions for reaching the provider are kept, no kill switch and a limit that
  is not zero (`Gateway` models it).
* **Provisioning.**  `budgets` are the tenants with a positive row in
  `budget_accounts`, added while the process is down.
* **RateLimiter.**  Tokens are integers counted in fractions of a token; the
  rounding of floating point is not modelled.  `limits` is any rate and burst that
  `Validate` accepts; with either at zero there is no limiter.

## 3. What the runs check

| run | result |
|---|---|
| `reservation` | counters equal the books (`BooksBalance`), exposure exceeds the highest limit by no more than reported overages (`ExposureBounded`), nothing expires early, retries of `Reconcile` agree, a closed record never changes, the manager implements `BudgetBook`, and a reservation is closed at last if `ExpireStale` keeps being called |
| `circuit` | the trial slot has a holder; a Trip lasts its cooldown; trials end; OPEN ends unless kill switches keep tripping |
| `gateway` | manager, ledger and tracker agree on every tenant's reconciled spend; a tenant is past its budget only if a request cost more than its estimate; upstream calls are covered by held budget; the ledger, and the status the caller gets, tell what became of the budget; a kill switch stops whoever has not passed its check; a breaker under test is owed a report - all of it with a sweeper expiring reservations under the requests |
| `tracker` | a window's sum is the spend of its lookback although eviction is lazy; a longer window lags a shorter one by no more than what is being recorded; the baseline stays among the velocities it was fed; a tenant at rest is allowed; the score blocks nobody with budget left; a burst is forgotten |
| `server` | a handler runs only for the owner of a key that has the scope, or is logged as a legacy key; every flip of a kill switch is logged once; the log tells the switch's position unless flips overlap; with Postgres the kill switch is reachable and a revocation is not undone |
| `libraries` | pricing: a new version leaves earlier prices alone; of versions added in order the latest is in effect and no other, and `RateAt` finds it; the estimate covers the cost as long as it fits in an amount.  Limiter: no bucket holds more than its burst; the limiter implements the ideal token bucket |

Six runs show where the code and a comment, a contract or a test disagree:

| run | what happens |
|---|---|
| `budget_overrun` | an actual cost above the reservation takes `reserved + settled` past the limit |
| `stale_trial` | the success of a trial from before a Trip closes the breaker in the middle of the next trial |
| `throttle_hostage` | a throttled request keeps its reservation; nobody calls `ExpireStale` |
| `closed_unproven` | the breaker closes when the trial is admitted, before anything ran |
| `revocation_lost` | `MemoryStore.Authenticate` writes back a copy read before a revocation |
| `budget_not_seeded` | with Postgres no code calls `SetBudget` or reads `budget_accounts`: a tenant provisioned with a budget is refused for want of one, while `main.go` asks for budgets "via the store directly" and the migration speaks of state "seeded/refreshed from these tables at startup" |

Other limits of the code that show in the models:

* If `ExpireStale` were scheduled, a provider that answers after it has expired the
  reservation would be executed and never settled (`ReconcileFails`; ttl and
  upstream timeout are both 30 s).  The caller is told 502.  `SpendAccounted` is about
  costs that were reconciled; this one is in none of its three accounts.
* Versions added out of order, or with an end of their own, can overlap or leave a
  gap, which is why `Gapless` asks for `InOrder`.
* A version whose `EffectiveFrom` is the zero time ends no earlier one, as the end it
  would be given reads as open.  Several of them are in effect together until a later
  version ends them all, and `RateAt` takes the first; `Gapless` and `RateAtIsLatest`
  have this as their exception.
* `Validate` accepts a rate so low that a bucket takes longer than `idleTTL` to fill.
  Eviction then gives a key that has been quiet for longer than `idleTTL` a full
  burst, which is the step `Forget` of `TokenBucket`.  The defaults fill in seconds.
* An estimate beyond the width of an amount is negative; `EstimateCoversCost` asks
  for prices that fit.
* The generic provider reports one input unit whatever the estimate was, and the
  demo rate has no `RequestFee`, so what is charged is a small part of what was
  reserved; `provider.go` means it to be combined with a flat fee.
* Two overlapping flips of one switch can be logged in the other order, after which
  the log's last event contradicts the switch; `TrailTellsSwitch` excludes such
  switches (`raced`) and says that they are the only ones.  Kill switches are off
  after a restart and the events of the last process are gone.
* The first cost of a tenant seeds the baseline through the long window while the short one
  has it at full velocity, a multiplier of `Long/Short`, which is beyond
  `VelocityTargetMult`.  `BlockNeedsBudget` says that this
  alone blocks nobody.
* A second `RevokeAPIKey` succeeds in memory and is `ErrNotFound` with Postgres
  (`Revocable`).

### Bounds

* Reservation: two reservations, of one tenant or of two, and two sweepers that
  race for them with each other and with `Release` and `Reconcile`.  Costs include
  under-use and overage; limits are raised and lowered.
* Circuit: four callers are an old caller, an overtaken trial, the current trial
  and a tripper at once.  The model has no other bound.
* Gateway: two requests, of one tenant or of two, with costs below and above the
  estimate, a provider that is missing, a switch that covers one of the providers,
  and a sweeper.  One request opens the breaker and the other tests it.  The budget of
  3, set late or never, holds one estimate of 2 and not two, so that two requests of a
  tenant compete to a refusal; it holds a second one after a cost of 1, and is passed
  by a cost of 3 after that.  Two requests of one tenant are upstream together when a
  sweep has taken the first one's reservation.
  Any number of requests, tenants, switches and sweepers is covered by the proofs of
  section 4.
* Tracker: lookbacks of 1, 2 and 2 ticks, so that a sample is out of the short window
  and in the others, and the medium and the long one differ by what is being recorded
  (lookbacks that all differ are covered by the proofs); two requests recording at once, one small and one large cost; an
  evaluation reading between any two of their steps.  Exposures just below the limit, at
  it, and with no limit.  Ages stop counting past the lookback, so time is unbounded.
* Pricing: three versions over four instants and the zero time; 16-bit amounts, with the last price
  list whose estimate fits and the first that does not.
* Server: two connections, so that two operators meet on one switch; two keys, with
  the demo scopes or none; two starts, so that one crash and restart; two events in
  the ledger of a process (`Room` keeps requests out that might need a third).
  Connections are interchangeable (symmetry), which is sound as no property is a
  liveness property.
* Provisioning: one connection and one start are enough for the counterexample.
* RateLimiter: four limits: one that fills just within `idleTTL`, with a burst that is
  no multiple of the rate or the cost; one that is too slow; one whose burst is less
  than a token; and one that is off.
* `libraries` explores pricing while the limiter is in its initial state, and the
  limiter while no version has been added: they share no state, so nothing is lost.

### Fairness

* `Reservation!FairSpec`: `Reserve` finishes, time passes, and sweepers call
  `ExpireStale` again and again.  The last is a condition on the caller that
  `cmd/gateway` does not meet, which `throttle_hostage` shows.
* `Circuit!FairSpec`: requests keep arriving, `Evaluate` runs to its end, time
  passes.  Kill-switch trips are not assumed to happen, nor to stop:
  `OpenRecovers` excludes the behaviours in which they never stop.
* `Gateway!FairSpec` (for `throttle_hostage`): a handler that has begun goes on.  It
  waits for nothing but mutexes held for a few instructions and the upstream call,
  which a 30 s timeout ends.
* `Tracker!Spec`: the clock does not stop.  Nothing is assumed of readers or
  recorders; `BurstForgotten` is about what a read would find.  Recorders come to
  rest because `MaxRecords` bounds them, which is the "requests stop" of the property.

Deadlock is checked in every run.

## 4. What is proved

All theorems hold for every value of the constants within the named assumptions
(`ReservationAssumptions`, `CooldownAssumption`, `GatewayAssumptions`,
`TrackerAssumptions`, `PricingAssumptions`, `KeyStoreAssumptions`,
`ServerAssumptions`, `LimiterAssumptions`).  Between them the theorems cover every
safety property the passing runs check.

* **Reservation** (`ReservationProofs`).  Type correctness, `BooksBalance`,
  `ExposureBounded`, `ExpiredOnlyAfterDeadline`, `ReconcileAnswersAgree`,
  `ClosedIsFinal`, and the refinement of `BudgetBook`.  `OverspendReported` is the other
  half of the run `budget_overrun`: `reserved + settled` passes the highest limit only
  if some `Reconcile` cost more than it had reserved, and passes the current limit only
  for that or because the limit was lowered.  The inductive invariant
  adds to the stated ones what each action relies on: a record is reconciled
  exactly if its state says so and its answers come from its own amount and cost;
  what is on a sweep list is past its deadline; `limit` is at most `peak`.
  `BooksBalance` speaks of sums, so each action's proof shows that it changes one
  summand by as much as the counter; `SumsProofs` proves what changing one value
  does to a sum, by induction through the well-foundedness of the naturals.
* **Circuit** (`CircuitProofs`).  `TypeOK`, `TestingIsHeld` and `TripHolds` are
  inductive together, for any cooldown and any set of callers.
* **Gateway** (`GatewayProofs`), for any number of requests, tenants, providers,
  switches and sweepers, in these stages.
  1. `LocalsOK`: the manager is called with amounts and costs it is specified for.
     Then every step of the pipeline is a step of the manager or leaves it alone
     (`GatewayUsesManager`), and all that is proved of `Reservation` holds in the
     pipeline (`ManagerPromisesKept`).
  2. `Links` relates the place of each request, its verdict and its error to the
     state, tenant and amount of its reservation.  It is inductive because the only
     foreign step on a reservation is an expiry (`ForeignStep`), which every link
     that speaks of a held reservation allows for.  `BudgetHeldUpstream` follows with
     `ExpiredOnlyAfterDeadline`, and `AnswerTellsCharge` by itself.
  3. `Overtaken` strengthens `KillSwitchStops` to requests that have passed the check
     and not reserved yet: `KillSwitchStops` alone is not kept by the step that
     reserves.
  4. `TrialIsJudged` is kept because only `Allow` begins a test (`BreakerMethods`) and
     the request that ends its time in `Evaluate` leaves no test behind
     (`TrialOwnStep`).  `QuarantineKept`: a breaker that cools down is open (`Cooling`),
     so whatever is reported to it by the requests that passed it earlier leaves it as
     it is or trips it anew (`CoolCalls`), and it admits nobody until time has passed.
  5. `Logs` says for each request which events its ledger holds and how many, from its
     place, verdict and error alone.  Every step that logs is an instance of one
     lemma about appending one or two events (`LogMoves`), so a step's own proof only
     compares the two places.  `LedgerTellsFate` is `Logs` with `Links`; `TypeOK`, with
     its bound of six events, is `Logs` with the rest.
  6. `Books` has the three accounts of a tenant's spend as sums over the requests'
     places: `settled` is what is booked plus what is due at `reconciled`, and what is
     booked is `tracked` plus what is due at `record`.  Only three steps touch an
     account (`IdleStep`), each as much as the request's own summand (`BooksOwnStep`).
     `SpendAccounted` follows since by `Logs` a request has its `COST_RECONCILED` event
     exactly when it is booked.
  7. `Settlements`: a settled reservation has the tenant, the estimate and the cost of
     its request, since it is settled in the request's own `Reconcile` and nothing
     changes the three afterwards.  With `OverspendReported` of the manager it gives
     `OverspendFromEstimate`: a tenant is past every budget it had only if the provider
     charged one of its requests more than was estimated.
* **Tracker** (`TrackerProofs`), for any lookbacks in ascending order, any costs,
  exposures and number of recorders.
  1. `SumIsRecentSpend` is not inductive: eviction is lazy, so the samples a window
     holds are neither the recent ones nor all of them.  `Aligned` says that they are
     the end of the history, with ages in descending order, and that what was dropped
     is `Spent`.  Then whatever `Evicted` drops has left the lookback, and it stops
     where the first young sample is because no older one follows.
  2. `WindowsNested` compares windows of different lookback and is lost by a tick
     unless it is stated at every age: `Lags` says that what the shorter window was
     given up to any age is at most what the longer one was, plus what is being
     recorded.
  3. `BaselineInRange` is inductive with the types: the average of two values of an
     interval, rounded down, is in it.
  4. `CalmIsAllowed` needs what a calm evaluation has read so far (`StaysCalm`): a
     velocity of zero from the short window and therefore no acceleration, so that
     budget and concurrency alone stay below the throttle threshold.
  5. `BlockNeedsBudget` follows from the weights: velocity and acceleration at their
     worst and the one request in flight come to 60.2 of the 90 points of a block,
     and the budget's share of 30 has to make up the rest.
* **Pricing** (`PricingProofs`), for any number of versions and instants, any width and any price
  lists.  `HistoryStable` is shown of a step of `AddRate` by itself.  `Gapless` and
  `RateAtIsLatest` rest on `Chained`: of versions added in order each one ends where
  the next one that does not start at the zero time begins, and is open if there is
  none.  `EstimateCoversCost` keeps with the request the price list
  its estimate was made from, and wrapping is the identity on amounts that fit.
* **Server with KeyStore** (`ServerProofs`), for any number of connections, keys, tenants,
  switches, restarts and events, with either backend.
  1. `IInv` has `ServerTypeOK`, what a call of `Authenticate` knows of the key it read
     (`CallOK`), what a request at each place of the handler chain has shown
     (`RequestOK`), and what a mode of start-up implies (`ModeOK`: in memory mode nothing is revoked,
     which is why the lost revocation of `revocation_lost` needs a caller that the
     process does not have).  It is inductive because records of keys and events of
     the ledger are only added to while the process lives (`RecordsKept`,
     `LedgerKept`).  `RevocationHonoured`, `OnlyAuthorised` and
     `ProductionStoppable` are consequences.
  2. `FlipsAudited` is inductive given `IInv`; a flip adds one to the requests that owe
     an event, an event moves one of them to the ledger (`CountsFinite` and the
     cardinality of finite sets).
  3. `TrailTellsSwitch` needs the case it excludes: `TrailOf` says what the last event and
     the one flip still to be logged tell of the switch.  `GreatestNatural` gives the
     last event.
  4. `KeyStore` by itself, where callers revoke keys with either backend.
     `PostgresHonoursRevocation` is the contract that `MemoryStore` breaks in the run
     `revocation_lost`.  `KeysKept` says how far that goes: a stale write-back can take
     a revocation back and nothing else, as the copy it writes agrees with the record
     on owner and scopes (`Copies_OK`), and no other step takes one back.
* **RateLimiter** (`RateLimiterProofs`), for any rates and bursts, any idle time and
  cost.  Type correctness, and the limiter implements `TokenBucket`.  An eviction is a
  stutter if the bucket is full, like the one made in its place, and a `Forget`
  otherwise.  `LimiterIsTextbook`: where every limit has `rate * idleTTL >= burst`,
  what is evicted is full, and the limiter implements the bucket that is never reset.

Five of the results are properties no run lists: `OverspendReported`,
`QuarantineKept`, `KeysKept`, the revocation contract of Postgres and
`LimiterIsTextbook`.

The proof modules of the manager, the pipeline, the tracker and the server begin with
`USE SMTT(60), ZenonT(60)`.  The provers' limits are wall-clock time, and the longest
leaves would otherwise depend on the load of the machine.

Only model-checked: liveness (`HostageReleased`, `TrialResolves`, `OpenRecovers`,
`BurstForgotten`), which is outside the prover.  The six violation runs are
counterexamples and need no proof.

## 5. What is not modelled

* Floating point.  The score of `Tracker`, the tokens of `RateLimiter` and the
  conversions of `internal/money` (`FromFloat`, `Float`, `String`) are rounded in the
  code; the models count in integers.  Which reason a score is given is wording.
* Forwarding in `internal/provider`: headers, redirects, the size limit, the bytes of
  a response.  `Gateway` keeps its outcomes, `Pricing` the usage it reports.  An
  upstream error status is a response like any other in the code, and is charged.
* Bodies, headers and wording of the HTTP layer; `clientIP`; the comparison of
  tokens; the generation and hashing of keys.
* Event IDs, timestamps and the order in the ledger between requests of the proxy.
  `Since`, `Len` and `ForTenant` only read.
* `X-Request-ID` is passed on and not remembered: a retried request is another
  request, in the code as in `Gateway`.
* `Register` and `Load` run once at start-up; of the migrations, the uniqueness
  constraints are guards of `KeyStore`, and indexes, periods and currencies are left
  out.
* A restart of the pipeline: budgets, reservations, breakers and the ledger are in
  memory and no code restores them, so a restart is the initial state of `Gateway`.
  `Server` models the restart of the process with what survives it.

## 6. Plan

A run of `Gateway` with the verdict computed by `Tracker` instead of chosen.
