---------------------------- MODULE Reservation ----------------------------
(***************************************************************************)
(* The reservation manager of internal/reservation: per-tenant budget      *)
(* accounts and the reservations charged to them, operated on by any       *)
(* number of goroutines.                                                   *)
(*                                                                         *)
(* A step is one critical section of an account mutex or of the manager    *)
(* mutex.  Reserve is three steps (charge the account, build the record,   *)
(* publish it), ExpireStale is a clock read, a scan and one step per stale *)
(* record.  Release and Reconcile look the record up and then work under   *)
(* the account mutex; records are never removed from the map, so a lookup  *)
(* that succeeds stays true and the two make one step.  Their error and    *)
(* no-op returns change nothing and are stuttering steps.                  *)
(*                                                                         *)
(* Reservations are numbered 1 .. MaxReservations, one number per granted  *)
(* call of Reserve; the program's IDs are unique because nextID counts     *)
(* under a mutex.  Time is the time left to each deadline: left = -1 says  *)
(* that the clock is After(ExpiresAt).                                     *)
(***************************************************************************)
EXTENDS Sums

CONSTANTS
    Tenants,          \* tenant IDs
    MaxReservations,  \* bound on the granted Reserve calls of a behaviour
    Amounts,          \* amounts callers reserve (money.Micros)
    Costs,            \* actual costs callers reconcile
    Limits,           \* budgets an operator sets
    TTL,              \* the ttl argument of Reserve, in clock ticks
    Sweepers          \* goroutines that call ExpireStale

ASSUME ReservationAssumptions ==
    /\ Tenants # {}
    /\ MaxReservations \in Nat
    /\ Amounts \subseteq Nat
    /\ Costs \subseteq Nat
    /\ Limits \subseteq Nat
    /\ TTL \in Nat

VARIABLES
    limit,         \* account.limit; an absent account is one with limit 0
    reserved,      \* account.reserved
    settled,       \* account.settled
    reservations,  \* the records, published in the map or still private to Reserve
    answers,       \* history: what successful Reconcile calls for a record returned
    sweep,         \* the local state of each ExpireStale call
    peak           \* history: the highest limit each tenant has had

accounts == <<limit, reserved, settled>>
vars == <<limit, reserved, settled, reservations, answers, sweep, peak>>

Ids == 1..MaxReservations

\* CHARGED: the account is charged and no record exists yet.  STAMPED: the
\* record is built and not yet in the map.  The others are the code's states.
Private == {"CHARGED", "STAMPED"}
Final   == {"RECONCILED", "RELEASED", "EXPIRED"}
States  == {"FREE", "RESERVED"} \cup Private \cup Final

Reservations ==
    [tenant: Tenants, amount: Nat, state: States, left: Nat \cup {-1},
     actualCost: Nat, reconciled: BOOLEAN]

Results == [reserved: Nat, actual: Nat, released: Nat, overage: Nat]

\* The counters and records have the code's types, and no Reconcile, whatever its cost,
\* answers with a negative Released or Overage.
TypeOK ==
    /\ limit \in [Tenants -> Nat]
    /\ reserved \in [Tenants -> Int]
    /\ settled \in [Tenants -> Nat]
    /\ reservations \in [Ids -> Reservations]
    /\ answers \in [Ids -> SUBSET Results]
    /\ sweep \in [Sweepers -> [pc: {"idle", "scan", "sweep"}, list: SUBSET Ids]]
    /\ peak \in [Tenants -> Nat]

Free == [tenant |-> CHOOSE t \in Tenants : TRUE, amount |-> 0, state |-> "FREE",
         left |-> TTL, actualCost |-> 0, reconciled |-> FALSE]

Init ==
    /\ limit = [t \in Tenants |-> 0]
    /\ reserved = [t \in Tenants |-> 0]
    /\ settled = [t \in Tenants |-> 0]
    /\ reservations = [i \in Ids |-> Free]
    /\ answers = [i \in Ids |-> {}]
    /\ sweep = [s \in Sweepers |-> [pc |-> "idle", list |-> {}]]
    /\ peak = [t \in Tenants |-> 0]
-----------------------------------------------------------------------------
Available(t) == limit[t] - reserved[t] - settled[t]

SetBudget(t, l) ==
    /\ limit' = [limit EXCEPT ![t] = l]
    /\ peak' = [peak EXCEPT ![t] = IF l > @ THEN l ELSE @]
    /\ UNCHANGED <<reserved, settled, reservations, answers, sweep>>

\* Faulty variant of Affords: forgets that settled cost is spent budget.
AffordsIgnoringSettled(t, a) == ~(limit[t] - reserved[t] < a)

\* Faulty variant of Affords: forgets what other requests hold reserved.
AffordsIgnoringReserved(t, a) == ~(limit[t] - settled[t] < a)

\* Reserve, under the account mutex; ErrInsufficientBudget otherwise.
Affords(t, a) == ~(Available(t) < a)

ReserveCharge(i, t, a) ==
    /\ reservations[i].state = "FREE"
    /\ Affords(t, a)
    /\ reserved' = [reserved EXCEPT ![t] = @ + a]
    /\ reservations' = [reservations EXCEPT ![i] =
                          [Free EXCEPT !.tenant = t, !.amount = a, !.state = "CHARGED"]]
    /\ UNCHANGED <<limit, settled, answers, sweep, peak>>

\* Reserve reads the clock and builds the record: its ttl starts to run.
ReserveStamp(i) ==
    /\ reservations[i].state = "CHARGED"
    /\ reservations' = [reservations EXCEPT ![i].state = "STAMPED"]
    /\ UNCHANGED <<accounts, answers, sweep, peak>>

\* Reserve, under the manager mutex: the record enters the map.
ReservePublish(i) ==
    /\ reservations[i].state = "STAMPED"
    /\ reservations' = [reservations EXCEPT ![i].state = "RESERVED"]
    /\ UNCHANGED <<accounts, answers, sweep, peak>>
-----------------------------------------------------------------------------
Published(i) == reservations[i].state \notin Private \cup {"FREE"}

\* The test every closing operation makes under the account mutex.
StillReserved(i) == reservations[i].state = "RESERVED"

\* reserved -= r.Amount, as each closing operation does it.
Uncharge(i) ==
    reserved' = [reserved EXCEPT ![reservations[i].tenant] = @ - reservations[i].amount]

Release(i) ==
    /\ Published(i)
    /\ StillReserved(i)
    /\ Uncharge(i)
    /\ reservations' = [reservations EXCEPT ![i].state = "RELEASED"]
    /\ UNCHANGED <<limit, settled, answers, sweep, peak>>

\* Faulty variant of ReconcileResult: one difference for both, without the test.
ReconcileResultUntested(amount, actual) ==
    [reserved |-> amount, actual |-> actual,
     released |-> amount - actual, overage |-> actual - amount]

ReconcileResult(amount, actual) ==
    [reserved |-> amount, actual |-> actual,
     released |-> IF actual < amount THEN amount - actual ELSE 0,
     overage  |-> IF actual > amount THEN actual - amount ELSE 0]

\* The first Reconcile of a reservation applies the cost ...
ReconcileFirst(i, c) ==
    /\ Published(i)
    /\ ~reservations[i].reconciled
    /\ StillReserved(i)
    /\ Uncharge(i)
    /\ settled' = [settled EXCEPT ![reservations[i].tenant] = @ + c]
    /\ reservations' = [reservations EXCEPT ![i].actualCost = c, ![i].reconciled = TRUE,
                                            ![i].state = "RECONCILED"]
    /\ answers' = [answers EXCEPT ![i] = @ \cup {ReconcileResult(reservations[i].amount, c)}]
    /\ UNCHANGED <<limit, sweep, peak>>

\* Faulty variant of ReconcileAgain: answers from the cost of the retry.
ReconcileAgainFromRetry(i, c) ==
    /\ Published(i)
    /\ reservations[i].reconciled
    /\ answers' = [answers EXCEPT ![i] = @ \cup {ReconcileResult(reservations[i].amount, c)}]
    /\ UNCHANGED <<accounts, reservations, sweep, peak>>

\* ... and a later one, whatever cost it brings, repeats the first answer.
ReconcileAgain(i, c) ==
    /\ Published(i)
    /\ reservations[i].reconciled
    /\ answers' = [answers EXCEPT ![i] =
                     @ \cup {ReconcileResult(reservations[i].amount, reservations[i].actualCost)}]
    /\ UNCHANGED <<accounts, reservations, sweep, peak>>
-----------------------------------------------------------------------------
\* Faulty variant of ExpireNow: counts a deadline that is just being reached.
ExpireNowEarly(s) ==
    /\ sweep[s].pc = "idle"
    /\ sweep' = [sweep EXCEPT ![s] =
                   [pc |-> "scan", list |-> {i \in Ids : reservations[i].left <= 0}]]
    /\ UNCHANGED <<accounts, reservations, answers, peak>>

\* ExpireStale reads the clock: list is what is past its deadline by then.
ExpireNow(s) ==
    /\ sweep[s].pc = "idle"
    /\ sweep' = [sweep EXCEPT ![s] =
                   [pc |-> "scan", list |-> {i \in Ids : reservations[i].left < 0}]]
    /\ UNCHANGED <<accounts, reservations, answers, peak>>

\* The scan of the map under the manager mutex.  It reads State without the
\* account mutex, so a record that is being closed meanwhile may or may not be
\* collected; collecting it here covers both, since ExpireOne tests it again.
ExpireScan(s) ==
    /\ sweep[s].pc = "scan"
    /\ sweep' = [sweep EXCEPT ![s] =
                   [pc |-> "sweep", list |-> {i \in sweep[s].list : StillReserved(i)}]]
    /\ UNCHANGED <<accounts, reservations, answers, peak>>

\* Faulty variants of ExpireOne: without the second test, and without the effect.
ExpireOneUntested(s, i) ==
    /\ sweep[s].pc = "sweep"
    /\ i \in sweep[s].list
    /\ sweep' = [sweep EXCEPT ![s].list = @ \ {i}]
    /\ Uncharge(i)
    /\ reservations' = [reservations EXCEPT ![i].state = "EXPIRED"]
    /\ UNCHANGED <<limit, settled, answers, peak>>

ExpireOneSkipped(s, i) ==
    /\ sweep[s].pc = "sweep"
    /\ i \in sweep[s].list
    /\ sweep' = [sweep EXCEPT ![s].list = @ \ {i}]
    /\ UNCHANGED <<accounts, reservations, answers, peak>>

\* One stale record: tested again under the account mutex, and expired.
ExpireOne(s, i) ==
    /\ sweep[s].pc = "sweep"
    /\ i \in sweep[s].list
    /\ sweep' = [sweep EXCEPT ![s].list = @ \ {i}]
    /\ \/ /\ StillReserved(i)
          /\ Uncharge(i)
          /\ reservations' = [reservations EXCEPT ![i].state = "EXPIRED"]
       \/ /\ ~StillReserved(i)
          /\ UNCHANGED <<reserved, reservations>>
    /\ UNCHANGED <<limit, settled, answers, peak>>

ExpireReturn(s) ==
    /\ sweep[s].pc = "sweep"
    /\ sweep[s].list = {}
    /\ sweep' = [sweep EXCEPT ![s].pc = "idle"]
    /\ UNCHANGED <<accounts, reservations, answers, peak>>

\* The clock, as seen by the deadlines that are running; one that has passed is not
\* counted any further.
Running(i) == reservations[i].state \in {"STAMPED", "RESERVED"} /\ reservations[i].left >= 0

Tick ==
    /\ \E i \in Ids : Running(i)
    /\ reservations' = [i \in Ids |-> IF Running(i)
                                      THEN [reservations[i] EXCEPT !.left = @ - 1]
                                      ELSE reservations[i]]
    /\ UNCHANGED <<accounts, answers, sweep, peak>>
-----------------------------------------------------------------------------
ExpireStale(s) ==
    \/ ExpireNow(s)
    \/ ExpireScan(s)
    \/ \E i \in Ids : ExpireOne(s, i)
    \/ ExpireReturn(s)

Next ==
    \/ \E t \in Tenants, l \in Limits : SetBudget(t, l)
    \/ \E i \in Ids, t \in Tenants, a \in Amounts : ReserveCharge(i, t, a)
    \/ \E i \in Ids : ReserveStamp(i) \/ ReservePublish(i) \/ Release(i)
    \/ \E i \in Ids, c \in Costs : ReconcileFirst(i, c) \/ ReconcileAgain(i, c)
    \/ \E s \in Sweepers : ExpireStale(s)
    \/ Tick

Spec == Init /\ [][Next]_vars

\* Reserve runs to its end once it has charged the account, the clock runs, and
\* every sweeper calls ExpireStale again and again.  The last is what the doc
\* comment of ExpireStale takes for granted; it is a condition on the caller.
FairSpec ==
    /\ Spec
    /\ \A i \in Ids : WF_vars(ReserveStamp(i)) /\ WF_vars(ReservePublish(i))
    /\ WF_vars(Tick)
    /\ \A s \in Sweepers : WF_vars(ExpireStale(s))
-----------------------------------------------------------------------------
\* Reservation by reservation: what tenant t has charged, what it has spent, and
\* by how much what it has spent exceeds what was reserved for it.
Held(t) == [i \in Ids |-> IF /\ reservations[i].tenant = t
                             /\ reservations[i].state \in Private \cup {"RESERVED"}
                          THEN reservations[i].amount ELSE 0]
Spent(t) == [i \in Ids |-> IF /\ reservations[i].tenant = t
                              /\ reservations[i].state = "RECONCILED"
                           THEN reservations[i].actualCost ELSE 0]
Overages(t) == [i \in Ids |-> IF /\ reservations[i].tenant = t
                                 /\ reservations[i].state = "RECONCILED"
                              THEN ReconcileResult(reservations[i].amount,
                                                   reservations[i].actualCost).overage
                              ELSE 0]

\* The counters of every account equal the books: reserved is the sum of the
\* amounts of the reservations not yet closed (those whose Reserve has charged
\* the account and not yet published the record included), settled the sum of the
\* actual costs of the reconciled ones, in every interleaving of Reserve, Release,
\* Reconcile and any number of ExpireStale calls.
BooksBalance ==
    \A t \in Tenants : /\ reserved[t] = Total(Held(t), MaxReservations)
                       /\ settled[t] = Total(Spent(t), MaxReservations)

\* What a tenant has reserved and settled never exceeds the highest limit it has
\* had by more than the overages its own reconciliations reported: Reserve never
\* overcommits, and Reconcile is the only operation that can go past the limit.
ExposureBounded ==
    \A t \in Tenants :
        reserved[t] + settled[t] <= peak[t] + Total(Overages(t), MaxReservations)

\* ExpireStale only expires a reservation whose ttl has passed, although it acts
\* on a clock value and a list it took before it had the account mutex.
ExpiredOnlyAfterDeadline ==
    \A i \in Ids : reservations[i].state = "EXPIRED" => reservations[i].left < 0

\* A closed reservation never changes again: of Release, Reconcile and ExpireStale
\* racing for one record exactly one closes it, whatever list it is still on.
ClosedIsFinal ==
    [][\A i \in Ids : reservations[i].state \in Final
                         => reservations'[i] = reservations[i]]_vars

\* Reconcile is idempotent: every successful call for a reservation returns what
\* the first one returned, whatever cost a retry brings.
ReconcileAnswersAgree ==
    \A i \in Ids : \A r1, r2 \in answers[i] : r1 = r2

\* A published reservation that nobody reconciles or releases does not hold its
\* budget for ever, as long as somebody keeps calling ExpireStale.
HostageReleased ==
    \A i \in Ids : reservations[i].state = "RESERVED" ~> reservations[i].state \in Final

\* The package comment: "at no point can total (reserved + settled) exceed the
\* tenant's configured limit".
BudgetNeverExceeded == \A t \in Tenants : reserved[t] + settled[t] <= limit[t]

\* The reservations as the entries of a BudgetBook.
Status(state) ==
    CASE state = "FREE" -> "blank"
      [] state \in Private \cup {"RESERVED"} -> "open"
      [] state = "RECONCILED" -> "settled"
      [] OTHER -> "returned"

Entries ==
    [i \in Ids |-> [tenant |-> reservations[i].tenant, amount |-> reservations[i].amount,
                    cost |-> reservations[i].actualCost,
                    status |-> Status(reservations[i].state)]]

Book == INSTANCE BudgetBook WITH book <- Entries

\* The manager implements the book of BudgetBook: each of its steps opens, settles
\* or returns one entry, sets a limit, or leaves the book alone, and a grant
\* decided from the counters is one the open and settled entries justify.
ImplementsBook == Book!Spec
=============================================================================
