------------------------- MODULE ReservationProofs -------------------------
(***************************************************************************)
(* Proofs about the reservation manager, for every set of tenants, every   *)
(* number of reservations and of concurrent ExpireStale calls, and every   *)
(* choice of amounts, costs, limits and ttl.                               *)
(***************************************************************************)
EXTENDS Reservation, SumsProofs, TLAPS

\* The provers' limits are wall-clock time: a minute instead of the default five
\* seconds, so that a loaded machine does not decide what is proved.
USE SMTT(60), ZenonT(60)

\* What the other invariants need of single records: the reconciled flag says
\* what the state says, only Reconcile sets a cost, a ttl that has not started to
\* run has not passed, and Reconcile has only answered from the cost it recorded.
RecordsConsistent ==
    \A i \in Ids :
        LET r == reservations[i] IN
        /\ r.reconciled <=> r.state = "RECONCILED"
        /\ r.state \in {"FREE", "CHARGED"} => r.left >= 0
        /\ r.state = "EXPIRED" => r.left < 0
        /\ r.state # "RECONCILED" => r.actualCost = 0
        /\ answers[i] # {} => r.state = "RECONCILED"
        /\ answers[i] \subseteq {ReconcileResult(r.amount, r.actualCost)}

\* A record on the list of an ExpireStale call is past its deadline.
ListedArePastDeadline ==
    \A s \in Sweepers : \A i \in sweep[s].list : reservations[i].left < 0

\* peak is an upper bound of the limits.
LimitBelowPeak == \A t \in Tenants : limit[t] <= peak[t]

\* The inductive invariant.
IInv ==
    /\ TypeOK
    /\ RecordsConsistent
    /\ ListedArePastDeadline
    /\ LimitBelowPeak
    /\ BooksBalance
    /\ ExposureBounded
-----------------------------------------------------------------------------
\* The record of a number that no Reserve call has used is a record.
LEMMA FreeType == Free \in Reservations
BY ReservationAssumptions DEF Free, Reservations, States

\* A record stays a record when its state changes.
LEMMA StateChange ==
    ASSUME NEW i \in Ids, reservations \in [Ids -> Reservations], NEW s \in States,
           reservations' = [reservations EXCEPT ![i].state = s]
    PROVE  reservations' \in [Ids -> Reservations]
<1>1. [reservations[i] EXCEPT !.state = s] \in Reservations
  BY Zenon DEF Reservations
<1>2. reservations' = [reservations EXCEPT ![i] = [reservations[i] EXCEPT !.state = s]]
  OBVIOUS
<1> QED
  BY <1>1, <1>2, Zenon

\* computeReconcileResult returns non-negative amounts.
LEMMA ResultType ==
    ASSUME NEW a \in Nat, NEW c \in Nat
    PROVE  ReconcileResult(a, c) \in Results
BY DEF ReconcileResult, Results

\* The initial state of NewManager is well typed.
LEMMA TypeInit == Init => TypeOK
BY FreeType, ReservationAssumptions DEF Init, TypeOK

\* Every operation of the manager keeps the types, action by action.
LEMMA TypeStep == TypeOK /\ [Next]_vars => TypeOK'
<1> SUFFICES ASSUME TypeOK, [Next]_vars PROVE TypeOK'
  OBVIOUS
<1> USE ReservationAssumptions
<1>1. ASSUME NEW t \in Tenants, NEW l \in Limits, SetBudget(t, l) PROVE TypeOK'
  BY <1>1 DEF TypeOK, SetBudget
<1>2. ASSUME NEW i \in Ids, NEW t \in Tenants, NEW a \in Amounts, ReserveCharge(i, t, a)
      PROVE  TypeOK'
  <2>1. [Free EXCEPT !.tenant = t, !.amount = a, !.state = "CHARGED"] \in Reservations
    BY FreeType, Zenon DEF Reservations, States, Private
  <2> QED
    BY <1>2, <2>1 DEF TypeOK, ReserveCharge
<1>3. ASSUME NEW i \in Ids, ReserveStamp(i) PROVE TypeOK'
  <2>1. reservations' \in [Ids -> Reservations]
    BY <1>3, StateChange, Zenon DEF TypeOK, ReserveStamp, States, Private
  <2> QED
    BY <1>3, <2>1 DEF TypeOK, ReserveStamp, accounts
<1>4. ASSUME NEW i \in Ids, ReservePublish(i) PROVE TypeOK'
  <2>1. reservations' \in [Ids -> Reservations]
    BY <1>4, StateChange, Zenon DEF TypeOK, ReservePublish, States
  <2> QED
    BY <1>4, <2>1 DEF TypeOK, ReservePublish, accounts
<1>5. ASSUME NEW i \in Ids, Release(i) PROVE TypeOK'
  <2>1. reservations' \in [Ids -> Reservations]
    BY <1>5, StateChange, Zenon DEF TypeOK, Release, States, Final
  <2>2. reserved' \in [Tenants -> Int]
    BY <1>5 DEF TypeOK, Release, Uncharge, Reservations
  <2> QED
    BY <1>5, <2>1, <2>2 DEF TypeOK, Release
<1>6. ASSUME NEW i \in Ids, NEW c \in Costs, ReconcileFirst(i, c) PROVE TypeOK'
  <2>1. reservations' \in [Ids -> Reservations]
    BY <1>6 DEF TypeOK, ReconcileFirst, Reservations, States, Final
  <2>2. answers' \in [Ids -> SUBSET Results]
    <3>1. reservations[i].amount \in Nat
      BY DEF TypeOK, Reservations
    <3>2. ReconcileResult(reservations[i].amount, c) \in Results
      BY <3>1, ResultType
    <3> QED
      BY <1>6, <3>2 DEF TypeOK, ReconcileFirst
  <2>3. reserved' \in [Tenants -> Int] /\ settled' \in [Tenants -> Nat]
    BY <1>6 DEF TypeOK, ReconcileFirst, Uncharge, Reservations
  <2> QED
    BY <1>6, <2>1, <2>2, <2>3 DEF TypeOK, ReconcileFirst
<1>7. ASSUME NEW i \in Ids, NEW c \in Costs, ReconcileAgain(i, c) PROVE TypeOK'
  <2>1. reservations[i].amount \in Nat /\ reservations[i].actualCost \in Nat
    BY DEF TypeOK, Reservations
  <2>2. ReconcileResult(reservations[i].amount, reservations[i].actualCost) \in Results
    BY <2>1, ResultType
  <2> QED
    BY <1>7, <2>2 DEF TypeOK, ReconcileAgain, accounts
<1>8. ASSUME NEW s \in Sweepers, ExpireNow(s) PROVE TypeOK'
  BY <1>8 DEF TypeOK, ExpireNow, accounts
<1>9. ASSUME NEW s \in Sweepers, ExpireScan(s) PROVE TypeOK'
  BY <1>9 DEF TypeOK, ExpireScan, accounts
<1>10. ASSUME NEW s \in Sweepers, NEW i \in Ids, ExpireOne(s, i) PROVE TypeOK'
  <2>1. sweep' \in [Sweepers -> [pc: {"idle", "scan", "sweep"}, list: SUBSET Ids]]
    BY <1>10 DEF TypeOK, ExpireOne
  <2>2. CASE /\ Uncharge(i)
             /\ reservations' = [reservations EXCEPT ![i].state = "EXPIRED"]
    <3>1. reserved' \in [Tenants -> Int]
      BY <2>2 DEF TypeOK, Uncharge, Reservations
    <3>2. reservations' \in [Ids -> Reservations]
      BY <2>2, StateChange, Zenon DEF TypeOK, States, Final
    <3> QED
      BY <1>10, <2>1, <3>1, <3>2 DEF TypeOK, ExpireOne
  <2>3. CASE UNCHANGED <<reserved, reservations>>
    BY <1>10, <2>1, <2>3 DEF TypeOK, ExpireOne
  <2> QED
    BY <1>10, <2>2, <2>3 DEF ExpireOne
<1>11. ASSUME NEW s \in Sweepers, ExpireReturn(s) PROVE TypeOK'
  BY <1>11 DEF TypeOK, ExpireReturn, accounts
<1>12. CASE Tick
  <2>1. \A i \in Ids : Running(i) => reservations[i].left - 1 \in Nat \cup {-1}
    BY DEF TypeOK, Reservations, Running
  <2> QED
    BY <1>12, <2>1 DEF TypeOK, Tick, accounts, Reservations
<1>13. CASE UNCHANGED vars
  BY <1>13 DEF TypeOK, vars
<1> QED
  BY <1>1, <1>2, <1>3, <1>4, <1>5, <1>6, <1>7, <1>8, <1>9, <1>10, <1>11, <1>12, <1>13
     DEF Next, ExpireStale
-----------------------------------------------------------------------------
\* How a step changes the books.
OpenStates == Private \cup {"RESERVED"}

\* The books of a tenant are functions on the reservations ...
LEMMA BookTypes ==
    ASSUME TypeOK, NEW t \in Tenants
    PROVE  /\ Held(t) \in [1..MaxReservations -> Int]
           /\ Spent(t) \in [1..MaxReservations -> Int]
           /\ Overages(t) \in [1..MaxReservations -> Int]
<1>1. \A i \in Ids : reservations[i].amount \in Nat /\ reservations[i].actualCost \in Nat
  BY DEF TypeOK, Reservations
<1>2. \A i \in Ids : ReconcileResult(reservations[i].amount, reservations[i].actualCost).overage \in Nat
  BY <1>1, ResultType, Zenon DEF Results
<1> QED
  BY <1>1, <1>2 DEF Held, Spent, Overages, Ids

\* ... and so they are after a step.
LEMMA BookTypesAfter ==
    ASSUME TypeOK', NEW t \in Tenants
    PROVE  /\ Held(t)' \in [1..MaxReservations -> Int]
           /\ Spent(t)' \in [1..MaxReservations -> Int]
           /\ Overages(t)' \in [1..MaxReservations -> Int]
<1>1. \A i \in Ids : reservations'[i].amount \in Nat /\ reservations'[i].actualCost \in Nat
  BY DEF TypeOK, Reservations
<1>2. \A i \in Ids : ReconcileResult(reservations'[i].amount, reservations'[i].actualCost).overage \in Nat
  BY <1>1, ResultType, Zenon DEF Results
<1> QED
  BY <1>1, <1>2 DEF Held, Spent, Overages, Ids

\* Overages only add up.
LEMMA OveragesNonNegative ==
    ASSUME TypeOK, NEW t \in Tenants
    PROVE  Total(Overages(t), MaxReservations) >= 0
<1>1. \A i \in Ids : reservations[i].amount \in Nat /\ reservations[i].actualCost \in Nat
  BY DEF TypeOK, Reservations
<1>2. \A i \in Ids : ReconcileResult(reservations[i].amount, reservations[i].actualCost).overage \in Nat
  BY <1>1, ResultType, Zenon DEF Results
<1>3. Overages(t) \in [1..MaxReservations -> Nat]
  BY <1>2 DEF Overages, Ids
<1> QED
  BY <1>3, TotalNonNegative, ReservationAssumptions

\* A step that keeps every record's amounts and does not open or close one
\* leaves the books as they are.
LEMMA SameBooks ==
    ASSUME TypeOK, TypeOK', NEW t \in Tenants,
           \A i \in Ids : /\ reservations'[i].tenant = reservations[i].tenant
                          /\ reservations'[i].amount = reservations[i].amount
                          /\ reservations'[i].actualCost = reservations[i].actualCost
                          /\ reservations'[i].state \in OpenStates
                               <=> reservations[i].state \in OpenStates
                          /\ reservations'[i].state = "RECONCILED"
                               <=> reservations[i].state = "RECONCILED"
    PROVE  Held(t)' = Held(t) /\ Spent(t)' = Spent(t) /\ Overages(t)' = Overages(t)
<1>1. Held(t)' = Held(t)
  BY DEF Held, OpenStates
<1>2. Spent(t)' = Spent(t)
  BY DEF Spent
<1>3. Overages(t)' = Overages(t)
  BY DEF Overages
<1> QED
  BY <1>1, <1>2, <1>3

\* A step on the record i alone moves each book by the change at i.
LEMMA OneRecordChanges ==
    ASSUME TypeOK, TypeOK', NEW t \in Tenants, NEW i \in Ids,
           \A k \in Ids : k # i => reservations'[k] = reservations[k]
    PROVE  /\ Total(Held(t)', MaxReservations)
                = Total(Held(t), MaxReservations) + Held(t)'[i] - Held(t)[i]
           /\ Total(Spent(t)', MaxReservations)
                = Total(Spent(t), MaxReservations) + Spent(t)'[i] - Spent(t)[i]
           /\ Total(Overages(t)', MaxReservations)
                = Total(Overages(t), MaxReservations) + Overages(t)'[i] - Overages(t)[i]
<1>1. \A k \in Ids : k # i => Held(t)'[k] = Held(t)[k]
  BY DEF Held
<1>2. \A k \in Ids : k # i => Spent(t)'[k] = Spent(t)[k]
  BY DEF Spent
<1>3. \A k \in Ids : k # i => Overages(t)'[k] = Overages(t)[k]
  BY DEF Overages
<1>4. MaxReservations \in Nat /\ Ids = 1..MaxReservations
  BY ReservationAssumptions DEF Ids
<1> QED
  BY <1>1, <1>2, <1>3, <1>4, BookTypes, BookTypesAfter, TotalUpdate, Zenon

\* Charging the account of t0 with a for the free record i.
LEMMA ChargeBooks ==
    ASSUME TypeOK, TypeOK', BooksBalance, ExposureBounded,
           NEW i \in Ids, NEW t0 \in Tenants, NEW a \in Amounts, ReserveCharge(i, t0, a),
           LimitBelowPeak
    PROVE  BooksBalance' /\ ExposureBounded'
<1> SUFFICES ASSUME NEW t \in Tenants
             PROVE  /\ reserved'[t] = Total(Held(t)', MaxReservations)
                    /\ settled'[t] = Total(Spent(t)', MaxReservations)
                    /\ reserved'[t] + settled'[t]
                         <= peak'[t] + Total(Overages(t)', MaxReservations)
  BY DEF BooksBalance, ExposureBounded
<1> DEFINE d == IF t = t0 THEN a ELSE 0
<1>1. a \in Nat /\ d \in Nat
  BY ReservationAssumptions
<1>2. \A k \in Ids : k # i => reservations'[k] = reservations[k]
  BY DEF ReserveCharge, TypeOK
<1>3. /\ reservations'[i].tenant = t0 /\ reservations'[i].amount = a
      /\ reservations'[i].state = "CHARGED" /\ reservations[i].state = "FREE"
  BY DEF ReserveCharge, TypeOK, Free
<1>4. /\ Held(t)[i] = 0 /\ Held(t)'[i] = d
      /\ Spent(t)[i] = 0 /\ Spent(t)'[i] = 0
      /\ Overages(t)[i] = 0 /\ Overages(t)'[i] = 0
  BY <1>3 DEF Held, Spent, Overages, Private
<1>5. reserved'[t] = reserved[t] + d /\ settled'[t] = settled[t] /\ peak'[t] = peak[t]
  BY <1>1 DEF ReserveCharge, TypeOK
<1>6. /\ Total(Held(t), MaxReservations) \in Int
      /\ Total(Spent(t), MaxReservations) \in Int
      /\ Total(Overages(t), MaxReservations) \in Int
  BY BookTypes, TotalType, ReservationAssumptions
<1>7. /\ Total(Held(t)', MaxReservations) = Total(Held(t), MaxReservations) + d
      /\ Total(Spent(t)', MaxReservations) = Total(Spent(t), MaxReservations)
      /\ Total(Overages(t)', MaxReservations) = Total(Overages(t), MaxReservations)
  BY <1>1, <1>2, <1>4, <1>6, OneRecordChanges
<1>8. /\ reserved[t] = Total(Held(t), MaxReservations)
      /\ settled[t] = Total(Spent(t), MaxReservations)
      /\ reserved[t] + settled[t] <= peak[t] + Total(Overages(t), MaxReservations)
  BY DEF BooksBalance, ExposureBounded
<1>9. Total(Overages(t), MaxReservations) >= 0
  BY OveragesNonNegative
<1>10. t = t0 => reserved[t] + a + settled[t] <= limit[t]
  BY <1>1 DEF ReserveCharge, Affords, Available, TypeOK
<1>11. reserved[t] \in Int /\ settled[t] \in Int /\ limit[t] \in Int /\ peak[t] \in Int
       /\ limit[t] <= peak[t]
  BY DEF TypeOK, LimitBelowPeak
<1> HIDE DEF d
<1>12. CASE t = t0
  BY <1>1, <1>5, <1>6, <1>7, <1>8, <1>9, <1>10, <1>11, <1>12 DEF d
<1>13. CASE t # t0
  BY <1>1, <1>5, <1>6, <1>7, <1>8, <1>11, <1>13 DEF d
<1> QED
  BY <1>12, <1>13

\* Closing the open record i without cost.
LEMMA ReturnBooks ==
    ASSUME TypeOK, TypeOK', BooksBalance, ExposureBounded,
           NEW i \in Ids, NEW st \in {"RELEASED", "EXPIRED"},
           StillReserved(i), Uncharge(i),
           reservations' = [reservations EXCEPT ![i].state = st],
           UNCHANGED <<settled, peak>>
    PROVE  BooksBalance' /\ ExposureBounded'
<1> SUFFICES ASSUME NEW t \in Tenants
             PROVE  /\ reserved'[t] = Total(Held(t)', MaxReservations)
                    /\ settled'[t] = Total(Spent(t)', MaxReservations)
                    /\ reserved'[t] + settled'[t]
                         <= peak'[t] + Total(Overages(t)', MaxReservations)
  BY DEF BooksBalance, ExposureBounded
<1> DEFINE d == IF t = reservations[i].tenant THEN reservations[i].amount ELSE 0
<1>1. d \in Nat /\ reservations[i].amount \in Nat /\ reservations[i].tenant \in Tenants
  BY DEF TypeOK, Reservations
<1>2. \A k \in Ids : k # i => reservations'[k] = reservations[k]
  BY DEF TypeOK
<1>3. reservations'[i].state = st /\ reservations[i].state = "RESERVED"
  BY DEF StillReserved, TypeOK, Reservations
<1>4. /\ Held(t)[i] = d /\ Held(t)'[i] = 0
      /\ Spent(t)[i] = 0 /\ Spent(t)'[i] = 0
      /\ Overages(t)[i] = 0 /\ Overages(t)'[i] = 0
  BY <1>3 DEF Held, Spent, Overages, Private
<1>5. reserved'[t] = reserved[t] - d /\ settled'[t] = settled[t] /\ peak'[t] = peak[t]
  BY <1>1 DEF Uncharge, TypeOK
<1>6. /\ Total(Held(t), MaxReservations) \in Int
      /\ Total(Spent(t), MaxReservations) \in Int
      /\ Total(Overages(t), MaxReservations) \in Int
  BY BookTypes, TotalType, ReservationAssumptions
<1> HIDE DEF d
<1>7. /\ Total(Held(t)', MaxReservations) = Total(Held(t), MaxReservations) - d
      /\ Total(Spent(t)', MaxReservations) = Total(Spent(t), MaxReservations)
      /\ Total(Overages(t)', MaxReservations) = Total(Overages(t), MaxReservations)
  BY <1>1, <1>2, <1>4, <1>6, OneRecordChanges
<1>8. /\ reserved[t] = Total(Held(t), MaxReservations)
      /\ settled[t] = Total(Spent(t), MaxReservations)
      /\ reserved[t] + settled[t] <= peak[t] + Total(Overages(t), MaxReservations)
  BY DEF BooksBalance, ExposureBounded
<1>9. reserved[t] \in Int /\ settled[t] \in Int /\ peak[t] \in Int
  BY DEF TypeOK
<1> QED
  BY <1>1, <1>5, <1>6, <1>7, <1>8, <1>9

\* Closing the open record i at the cost c.
LEMMA SettleBooks ==
    ASSUME TypeOK, TypeOK', BooksBalance, ExposureBounded,
           NEW i \in Ids, NEW c \in Costs, ReconcileFirst(i, c)
    PROVE  BooksBalance' /\ ExposureBounded'
<1> SUFFICES ASSUME NEW t \in Tenants
             PROVE  /\ reserved'[t] = Total(Held(t)', MaxReservations)
                    /\ settled'[t] = Total(Spent(t)', MaxReservations)
                    /\ reserved'[t] + settled'[t]
                         <= peak'[t] + Total(Overages(t)', MaxReservations)
  BY DEF BooksBalance, ExposureBounded
<1> DEFINE own == t = reservations[i].tenant
           d == IF own THEN reservations[i].amount ELSE 0
           e == IF own THEN c ELSE 0
           o == IF own /\ c > reservations[i].amount THEN c - reservations[i].amount ELSE 0
<1>1. /\ reservations[i].amount \in Nat /\ reservations[i].tenant \in Tenants /\ c \in Nat
      /\ d \in Nat /\ e \in Nat /\ o \in Nat /\ e - d <= o
  BY ReservationAssumptions DEF TypeOK, Reservations
<1>2. \A k \in Ids : k # i => reservations'[k] = reservations[k]
  BY DEF TypeOK, ReconcileFirst
<1>3. /\ reservations[i].state = "RESERVED" /\ reservations'[i].state = "RECONCILED"
      /\ reservations'[i].tenant = reservations[i].tenant
      /\ reservations'[i].amount = reservations[i].amount
      /\ reservations'[i].actualCost = c
  BY DEF StillReserved, ReconcileFirst, TypeOK, Reservations
<1>4. /\ Held(t)[i] = d /\ Held(t)'[i] = 0
      /\ Spent(t)[i] = 0 /\ Spent(t)'[i] = e
      /\ Overages(t)[i] = 0 /\ Overages(t)'[i] = o
  BY <1>3 DEF Held, Spent, Overages, Private, ReconcileResult
<1>5. reserved'[t] = reserved[t] - d /\ settled'[t] = settled[t] + e /\ peak'[t] = peak[t]
  BY <1>1 DEF Uncharge, TypeOK, ReconcileFirst
<1>6. /\ Total(Held(t), MaxReservations) \in Int
      /\ Total(Spent(t), MaxReservations) \in Int
      /\ Total(Overages(t), MaxReservations) \in Int
  BY BookTypes, TotalType, ReservationAssumptions
<1> HIDE DEF d, e, o
<1>7. /\ Total(Held(t)', MaxReservations) = Total(Held(t), MaxReservations) - d
      /\ Total(Spent(t)', MaxReservations) = Total(Spent(t), MaxReservations) + e
      /\ Total(Overages(t)', MaxReservations) = Total(Overages(t), MaxReservations) + o
  BY <1>1, <1>2, <1>4, <1>6, OneRecordChanges
<1>8. /\ reserved[t] = Total(Held(t), MaxReservations)
      /\ settled[t] = Total(Spent(t), MaxReservations)
      /\ reserved[t] + settled[t] <= peak[t] + Total(Overages(t), MaxReservations)
  BY DEF BooksBalance, ExposureBounded
<1>9. reserved[t] \in Int /\ settled[t] \in Int /\ peak[t] \in Int
  BY DEF TypeOK
<1> QED
  BY <1>1, <1>5, <1>6, <1>7, <1>8, <1>9

\* A step that leaves the counters and the books alone.
LEMMA UntouchedBooks ==
    ASSUME TypeOK, TypeOK', BooksBalance, ExposureBounded, UNCHANGED <<reserved, settled>>,
           \A t \in Tenants : peak[t] <= peak'[t],
           \A t \in Tenants :
              Held(t)' = Held(t) /\ Spent(t)' = Spent(t) /\ Overages(t)' = Overages(t)
    PROVE  BooksBalance' /\ ExposureBounded'
<1>1. BooksBalance'
  BY DEF BooksBalance
<1>2. ExposureBounded'
  <2> SUFFICES ASSUME NEW t \in Tenants
               PROVE  reserved[t] + settled[t]
                        <= peak'[t] + Total(Overages(t), MaxReservations)
    BY DEF ExposureBounded
  <2>1. Total(Overages(t), MaxReservations) \in Int
    BY BookTypes, TotalType, ReservationAssumptions
  <2>2. reserved[t] \in Int /\ settled[t] \in Int /\ peak[t] \in Int /\ peak'[t] \in Int
    BY DEF TypeOK
  <2>3. reserved[t] + settled[t] <= peak[t] + Total(Overages(t), MaxReservations)
    BY DEF ExposureBounded
  <2> QED
    BY <2>1, <2>2, <2>3
<1> QED
  BY <1>1, <1>2
-----------------------------------------------------------------------------
\* A new manager has empty accounts and empty books.
LEMMA IInvInit == Init => IInv
<1> SUFFICES ASSUME Init PROVE IInv
  OBVIOUS
<1>1. TypeOK
  BY TypeInit
<1>2. \A i \in Ids : /\ reservations[i].state = "FREE"
                    /\ reservations[i].left >= 0
                    /\ reservations[i].reconciled = FALSE
                    /\ reservations[i].actualCost = 0
                    /\ answers[i] = {}
  BY ReservationAssumptions DEF Init, Free
<1>3. RecordsConsistent
  BY <1>2 DEF RecordsConsistent
<1>4. ListedArePastDeadline
  BY DEF Init, ListedArePastDeadline
<1>5. LimitBelowPeak
  BY DEF Init, LimitBelowPeak
<1>6. ASSUME NEW t \in Tenants
      PROVE  /\ Total(Held(t), MaxReservations) = 0
             /\ Total(Spent(t), MaxReservations) = 0
             /\ Total(Overages(t), MaxReservations) = 0
  <2>1. \A i \in 1..MaxReservations : Held(t)[i] = 0 /\ Spent(t)[i] = 0 /\ Overages(t)[i] = 0
    BY <1>2 DEF Held, Spent, Overages, Private, Ids
  <2> QED
    BY <1>1, <2>1, BookTypes, TotalZero, ReservationAssumptions, Zenon
<1>7. BooksBalance /\ ExposureBounded
  BY <1>6 DEF Init, BooksBalance, ExposureBounded
<1> QED
  BY <1>1, <1>3, <1>4, <1>5, <1>7 DEF IInv

\* The facts about single records survive every step.
LEMMA RecordsStep ==
    ASSUME TypeOK, TypeOK', RecordsConsistent, ListedArePastDeadline, [Next]_vars
    PROVE  RecordsConsistent' /\ ListedArePastDeadline'
<1> USE ReservationAssumptions
<1>0. \A i \in Ids : reservations[i].left \in Nat \cup {-1}
  BY DEF TypeOK, Reservations
<1>1. ASSUME UNCHANGED <<reservations, answers, sweep>>
      PROVE  RecordsConsistent' /\ ListedArePastDeadline'
  BY <1>1 DEF RecordsConsistent, ListedArePastDeadline
<1>2. ASSUME NEW i \in Ids, NEW t \in Tenants, NEW a \in Amounts, ReserveCharge(i, t, a)
      PROVE  RecordsConsistent' /\ ListedArePastDeadline'
  <2>1. /\ reservations[i].state = "FREE" /\ reservations'[i].state = "CHARGED"
        /\ reservations'[i].left = TTL /\ ~reservations'[i].reconciled
        /\ reservations'[i].actualCost = 0
        /\ \A k \in Ids : k # i => reservations'[k] = reservations[k]
        /\ UNCHANGED <<answers, sweep>>
    BY <1>2 DEF ReserveCharge, TypeOK, Free
  <2>2. reservations[i].left >= 0 /\ answers[i] = {}
    BY <2>1 DEF RecordsConsistent
  <2>3. \A s \in Sweepers : i \notin sweep[s].list
    BY <1>0, <2>2 DEF ListedArePastDeadline
  <2>4. RecordsConsistent'
    BY <2>1, <2>2 DEF RecordsConsistent
  <2>5. ListedArePastDeadline'
    BY <2>1, <2>3 DEF ListedArePastDeadline, TypeOK
  <2> QED
    BY <2>4, <2>5
<1>3. ASSUME NEW i \in Ids, NEW st \in States, reservations' = [reservations EXCEPT ![i].state = st],
             UNCHANGED answers,
             \A s \in Sweepers : sweep'[s].list \subseteq sweep[s].list,
             reservations[i].state \in OpenStates, st \notin {"FREE", "CHARGED", "RECONCILED"},
             st = "EXPIRED" => reservations[i].left < 0
      PROVE  RecordsConsistent' /\ ListedArePastDeadline'
  <2>1. /\ reservations'[i].state = st
        /\ reservations'[i].left = reservations[i].left
        /\ reservations'[i].reconciled = reservations[i].reconciled
        /\ reservations'[i].actualCost = reservations[i].actualCost
        /\ \A k \in Ids : k # i => reservations'[k] = reservations[k]
    BY <1>3 DEF TypeOK, Reservations
  <2>2. ~reservations[i].reconciled /\ answers[i] = {} /\ reservations[i].actualCost = 0
    BY <1>3 DEF RecordsConsistent, OpenStates, Private
  <2>3. RecordsConsistent'
    BY <1>3, <2>1, <2>2 DEF RecordsConsistent
  <2>4. ListedArePastDeadline'
    BY <1>3, <2>1 DEF ListedArePastDeadline, TypeOK
  <2> QED
    BY <2>3, <2>4
<1>4. ASSUME NEW i \in Ids, ReserveStamp(i)
      PROVE  RecordsConsistent' /\ ListedArePastDeadline'
  <2>1. /\ reservations' = [reservations EXCEPT ![i].state = "STAMPED"]
        /\ UNCHANGED <<answers, sweep>>
        /\ "STAMPED" \in States /\ reservations[i].state \in OpenStates
    BY <1>4 DEF ReserveStamp, OpenStates, Private, States
  <2> QED
    BY <1>3, <2>1, Zenon
<1>5. ASSUME NEW i \in Ids, ReservePublish(i)
      PROVE  RecordsConsistent' /\ ListedArePastDeadline'
  <2>1. /\ reservations' = [reservations EXCEPT ![i].state = "RESERVED"]
        /\ UNCHANGED <<answers, sweep>>
        /\ "RESERVED" \in States /\ reservations[i].state \in OpenStates
    BY <1>5 DEF ReservePublish, OpenStates, Private, States
  <2> QED
    BY <1>3, <2>1, Zenon
<1>6. ASSUME NEW i \in Ids, Release(i)
      PROVE  RecordsConsistent' /\ ListedArePastDeadline'
  <2>1. /\ reservations' = [reservations EXCEPT ![i].state = "RELEASED"]
        /\ UNCHANGED <<answers, sweep>>
        /\ "RELEASED" \in States /\ reservations[i].state \in OpenStates
    BY <1>6 DEF Release, StillReserved, OpenStates, Final, States
  <2> QED
    BY <1>3, <2>1, Zenon
<1>7. ASSUME NEW i \in Ids, NEW c \in Costs, ReconcileFirst(i, c)
      PROVE  RecordsConsistent' /\ ListedArePastDeadline'
  <2>1. /\ reservations[i].state = "RESERVED" /\ reservations'[i].state = "RECONCILED"
        /\ reservations'[i].reconciled /\ reservations'[i].left = reservations[i].left
        /\ reservations'[i].amount = reservations[i].amount
        /\ reservations'[i].actualCost = c
        /\ \A k \in Ids : k # i => reservations'[k] = reservations[k] /\ answers'[k] = answers[k]
        /\ UNCHANGED sweep
    BY <1>7 DEF ReconcileFirst, StillReserved, TypeOK, Reservations
  <2>2. answers[i] = {}
    BY <2>1 DEF RecordsConsistent
  <2>3. answers'[i] = {ReconcileResult(reservations[i].amount, c)}
    BY <1>7, <2>2 DEF ReconcileFirst, TypeOK
  <2>4. RecordsConsistent'
    BY <2>1, <2>3 DEF RecordsConsistent
  <2>5. ListedArePastDeadline'
    BY <2>1 DEF ListedArePastDeadline, TypeOK
  <2> QED
    BY <2>4, <2>5
<1>8. ASSUME NEW i \in Ids, NEW c \in Costs, ReconcileAgain(i, c)
      PROVE  RecordsConsistent' /\ ListedArePastDeadline'
  <2>1. reservations[i].state = "RECONCILED"
    BY <1>8 DEF ReconcileAgain, RecordsConsistent
  <2>2. /\ answers'[i] = answers[i] \cup
                {ReconcileResult(reservations[i].amount, reservations[i].actualCost)}
        /\ \A k \in Ids : k # i => answers'[k] = answers[k]
        /\ UNCHANGED <<reservations, sweep>>
    BY <1>8 DEF ReconcileAgain, TypeOK
  <2>3. RecordsConsistent'
    BY <2>1, <2>2 DEF RecordsConsistent
  <2>4. ListedArePastDeadline'
    BY <2>2 DEF ListedArePastDeadline
  <2> QED
    BY <2>3, <2>4
<1>9. ASSUME NEW s \in Sweepers, ExpireNow(s) \/ ExpireScan(s) \/ ExpireReturn(s)
      PROVE  RecordsConsistent' /\ ListedArePastDeadline'
  <2>1. UNCHANGED <<reservations, answers>>
    BY <1>9 DEF ExpireNow, ExpireScan, ExpireReturn
  <2>2. \A u \in Sweepers : \A i \in sweep'[u].list :
           i \in sweep[u].list \/ reservations[i].left < 0
    BY <1>9 DEF ExpireNow, ExpireScan, ExpireReturn, TypeOK
  <2> QED
    BY <2>1, <2>2 DEF RecordsConsistent, ListedArePastDeadline
<1>10. ASSUME NEW s \in Sweepers, NEW i \in Ids, ExpireOne(s, i)
       PROVE  RecordsConsistent' /\ ListedArePastDeadline'
  <2>1. /\ \A u \in Sweepers : sweep'[u].list \subseteq sweep[u].list
        /\ reservations[i].left < 0 /\ UNCHANGED answers
    BY <1>10 DEF ExpireOne, TypeOK, ListedArePastDeadline
  <2>2. CASE StillReserved(i) /\ reservations' = [reservations EXCEPT ![i].state = "EXPIRED"]
    <3>1. "EXPIRED" \in States /\ reservations[i].state \in OpenStates
      BY <2>2 DEF StillReserved, OpenStates, States, Final
    <3> QED
      BY <1>3, <2>1, <2>2, <3>1, Zenon
  <2>3. CASE UNCHANGED reservations
    BY <2>1, <2>3 DEF RecordsConsistent, ListedArePastDeadline
  <2> QED
    BY <1>10, <2>2, <2>3 DEF ExpireOne
<1>11. CASE Tick
  <2>1. ASSUME NEW i \in Ids
        PROVE  /\ reservations'[i].state = reservations[i].state
               /\ reservations'[i].amount = reservations[i].amount
               /\ reservations'[i].actualCost = reservations[i].actualCost
               /\ reservations'[i].reconciled = reservations[i].reconciled
               /\ reservations[i].left < 0 => reservations'[i].left < 0
               /\ reservations'[i].state \in {"FREE", "CHARGED"}
                    => reservations'[i].left = reservations[i].left
    BY <1>0, <1>11 DEF Tick, Running, TypeOK, Reservations
  <2>2. UNCHANGED <<answers, sweep>>
    BY <1>11 DEF Tick
  <2>3. RecordsConsistent'
    BY <2>1, <2>2 DEF RecordsConsistent
  <2>4. ListedArePastDeadline'
    BY <2>1, <2>2 DEF ListedArePastDeadline, TypeOK
  <2> QED
    BY <2>3, <2>4
<1>12. CASE UNCHANGED vars
  BY <1>1, <1>12 DEF vars
<1>13. ASSUME NEW t \in Tenants, NEW l \in Limits, SetBudget(t, l)
       PROVE  RecordsConsistent' /\ ListedArePastDeadline'
  BY <1>1, <1>13 DEF SetBudget
<1> QED
  BY <1>2, <1>4, <1>5, <1>6, <1>7, <1>8, <1>9, <1>10, <1>11, <1>12, <1>13
     DEF Next, ExpireStale

\* Every operation of the manager preserves the inductive invariant.
LEMMA IInvStep == IInv /\ [Next]_vars => IInv'
<1> SUFFICES ASSUME IInv, [Next]_vars PROVE IInv'
  OBVIOUS
<1>1. /\ TypeOK /\ RecordsConsistent /\ ListedArePastDeadline /\ LimitBelowPeak
      /\ BooksBalance /\ ExposureBounded
  BY DEF IInv
<1>2. TypeOK'
  BY <1>1, TypeStep
<1>3. RecordsConsistent' /\ ListedArePastDeadline'
  BY <1>1, <1>2, RecordsStep
<1>4. ASSUME NEW t \in Tenants, NEW l \in Limits, SetBudget(t, l)
      PROVE  LimitBelowPeak' /\ BooksBalance' /\ ExposureBounded'
  <2>1. \A u \in Tenants : peak[u] <= peak'[u] /\ limit'[u] <= peak'[u]
    BY <1>1, <1>4, ReservationAssumptions DEF SetBudget, TypeOK, LimitBelowPeak
  <2>2. UNCHANGED <<reserved, settled, reservations>>
    BY <1>4 DEF SetBudget
  <2>3. \A u \in Tenants :
           Held(u)' = Held(u) /\ Spent(u)' = Spent(u) /\ Overages(u)' = Overages(u)
    BY <1>1, <1>2, <2>2, SameBooks
  <2>4. BooksBalance' /\ ExposureBounded'
    BY <1>1, <1>2, <2>1, <2>2, <2>3, UntouchedBooks
  <2> QED
    BY <2>1, <2>4 DEF LimitBelowPeak
<1>5. ASSUME UNCHANGED <<limit, reserved, settled, peak>>,
             \A i \in Ids : /\ reservations'[i].tenant = reservations[i].tenant
                            /\ reservations'[i].amount = reservations[i].amount
                            /\ reservations'[i].actualCost = reservations[i].actualCost
                            /\ reservations'[i].state \in OpenStates
                                 <=> reservations[i].state \in OpenStates
                            /\ reservations'[i].state = "RECONCILED"
                                 <=> reservations[i].state = "RECONCILED"
      PROVE  LimitBelowPeak' /\ BooksBalance' /\ ExposureBounded'
  <2>1. \A t \in Tenants :
           Held(t)' = Held(t) /\ Spent(t)' = Spent(t) /\ Overages(t)' = Overages(t)
    BY <1>1, <1>2, <1>5, SameBooks
  <2>2. \A t \in Tenants : peak[t] <= peak'[t]
    BY <1>1, <1>5 DEF TypeOK
  <2>3. BooksBalance' /\ ExposureBounded'
    BY <1>1, <1>2, <1>5, <2>1, <2>2, UntouchedBooks
  <2> QED
    BY <1>1, <1>5, <2>3 DEF LimitBelowPeak
<1>6. ASSUME NEW i \in Ids, NEW t \in Tenants, NEW a \in Amounts, ReserveCharge(i, t, a)
      PROVE  LimitBelowPeak' /\ BooksBalance' /\ ExposureBounded'
  <2>1. BooksBalance' /\ ExposureBounded'
    BY <1>1, <1>2, <1>6, ChargeBooks
  <2> QED
    BY <1>1, <1>6, <2>1 DEF ReserveCharge, LimitBelowPeak
<1>7. ASSUME NEW i \in Ids, ReserveStamp(i) \/ ReservePublish(i)
      PROVE  LimitBelowPeak' /\ BooksBalance' /\ ExposureBounded'
  <2>1. UNCHANGED <<limit, reserved, settled, peak>>
    BY <1>7 DEF ReserveStamp, ReservePublish, accounts
  <2>2. /\ reservations[i].state \in OpenStates /\ "RECONCILED" \notin OpenStates
        /\ \E st \in OpenStates : reservations' = [reservations EXCEPT ![i].state = st]
    BY <1>7 DEF ReserveStamp, ReservePublish, OpenStates, Private
  <2>3. \A k \in Ids : k # i => reservations'[k] = reservations[k]
    BY <1>1, <2>2 DEF TypeOK
  <2>4. /\ reservations'[i].tenant = reservations[i].tenant
        /\ reservations'[i].amount = reservations[i].amount
        /\ reservations'[i].actualCost = reservations[i].actualCost
        /\ reservations'[i].state \in OpenStates
    BY <1>1, <2>2 DEF TypeOK, Reservations
  <2> QED
    BY <1>5, <2>1, <2>2, <2>3, <2>4
<1>8. ASSUME NEW i \in Ids, Release(i)
      PROVE  LimitBelowPeak' /\ BooksBalance' /\ ExposureBounded'
  <2>1. BooksBalance' /\ ExposureBounded'
    BY <1>1, <1>2, <1>8, ReturnBooks, Zenon DEF Release
  <2> QED
    BY <1>1, <1>8, <2>1 DEF Release, LimitBelowPeak
<1>9. ASSUME NEW i \in Ids, NEW c \in Costs, ReconcileFirst(i, c)
      PROVE  LimitBelowPeak' /\ BooksBalance' /\ ExposureBounded'
  <2>1. BooksBalance' /\ ExposureBounded'
    BY <1>1, <1>2, <1>9, SettleBooks
  <2> QED
    BY <1>1, <1>9, <2>1 DEF ReconcileFirst, LimitBelowPeak
<1>10. ASSUME UNCHANGED <<limit, reserved, settled, reservations, peak>>
       PROVE  LimitBelowPeak' /\ BooksBalance' /\ ExposureBounded'
  BY <1>5, <1>10
<1>11. ASSUME NEW s \in Sweepers, NEW i \in Ids, ExpireOne(s, i)
       PROVE  LimitBelowPeak' /\ BooksBalance' /\ ExposureBounded'
  <2>1. CASE /\ StillReserved(i) /\ Uncharge(i)
             /\ reservations' = [reservations EXCEPT ![i].state = "EXPIRED"]
    <3>1. BooksBalance' /\ ExposureBounded'
      BY <1>1, <1>2, <1>11, <2>1, ReturnBooks, Zenon DEF ExpireOne
    <3> QED
      BY <1>1, <1>11, <3>1 DEF ExpireOne, LimitBelowPeak
  <2>2. CASE UNCHANGED <<reserved, reservations>>
    BY <1>10, <1>11, <2>2 DEF ExpireOne
  <2> QED
    BY <1>11, <2>1, <2>2 DEF ExpireOne
<1>12. ASSUME Tick
       PROVE  LimitBelowPeak' /\ BooksBalance' /\ ExposureBounded'
  <2>1. \A k \in Ids : /\ reservations'[k].tenant = reservations[k].tenant
                       /\ reservations'[k].amount = reservations[k].amount
                       /\ reservations'[k].actualCost = reservations[k].actualCost
                       /\ reservations'[k].state = reservations[k].state
    BY <1>1, <1>12 DEF Tick, TypeOK, Reservations
  <2>2. UNCHANGED <<limit, reserved, settled, peak>>
    BY <1>12 DEF Tick, accounts
  <2> QED
    BY <1>5, <2>1, <2>2
<1>13. ASSUME \/ \E i \in Ids, c \in Costs : ReconcileAgain(i, c)
              \/ \E s \in Sweepers : ExpireNow(s) \/ ExpireScan(s) \/ ExpireReturn(s)
              \/ UNCHANGED vars
       PROVE  LimitBelowPeak' /\ BooksBalance' /\ ExposureBounded'
  <2>1. UNCHANGED <<limit, reserved, settled, reservations, peak>>
    BY <1>13 DEF ReconcileAgain, ExpireNow, ExpireScan, ExpireReturn, accounts, vars
  <2> QED
    BY <1>10, <2>1
<1>14. LimitBelowPeak' /\ BooksBalance' /\ ExposureBounded'
  BY <1>4, <1>6, <1>7, <1>8, <1>9, <1>11, <1>12, <1>13 DEF Next, ExpireStale
<1> QED
  BY <1>2, <1>3, <1>14 DEF IInv

\* The inductive invariant holds throughout.
THEOREM InductiveInvariant == Spec => []IInv
BY IInvInit, IInvStep, PTL DEF Spec

\* Every variable keeps its type, whatever the goroutines of the manager do.
THEOREM TypeCorrect == Spec => []TypeOK
BY InductiveInvariant, PTL DEF IInv

\* The account counters always equal the sums over the reservations (Reserve,
\* Release, Reconcile and ExpireStale in any interleaving).
THEOREM BooksAlwaysBalance == Spec => []BooksBalance
BY InductiveInvariant, PTL DEF IInv

\* Reserve never overcommits an account: only overages reported by Reconcile can
\* take a tenant past the highest limit SetBudget has given it.
THEOREM ExposureAlwaysBounded == Spec => []ExposureBounded
BY InductiveInvariant, PTL DEF IInv

\* The two ways past a budget: a reconciled cost above what was reserved for it, and,
\* when it is the current limit that is exceeded, a SetBudget that lowered it.
Overran(t) ==
    \E i \in Ids : /\ reservations[i].tenant = t /\ reservations[i].state = "RECONCILED"
                   /\ reservations[i].actualCost > reservations[i].amount
OverspendReported ==
    \A t \in Tenants : /\ reserved[t] + settled[t] > peak[t] => Overran(t)
                       /\ reserved[t] + settled[t] > limit[t] => Overran(t) \/ limit[t] < peak[t]

\* Without an overrun no reservation has an overage, and their sum is zero.
LEMMA OverspendFromExposure == IInv => OverspendReported
<1> SUFFICES ASSUME IInv, NEW t \in Tenants
             PROVE  /\ reserved[t] + settled[t] > peak[t] => Overran(t)
                    /\ reserved[t] + settled[t] > limit[t] => Overran(t) \/ limit[t] < peak[t]
  BY Zenon DEF OverspendReported
<1> SUFFICES ASSUME ~Overran(t)
             PROVE  /\ ~(reserved[t] + settled[t] > peak[t])
                    /\ reserved[t] + settled[t] > limit[t] => limit[t] < peak[t]
  BY Zenon
<1>1. /\ MaxReservations \in Nat /\ Ids = 1..MaxReservations /\ reservations \in [Ids -> Reservations]
      /\ reserved[t] \in Int /\ settled[t] \in Int /\ peak[t] \in Int /\ limit[t] \in Int
  BY ReservationAssumptions DEF IInv, TypeOK, Ids
<1>2. ASSUME NEW i \in Ids PROVE Overages(t)[i] = 0
  <2>1. reservations[i].amount \in Nat /\ reservations[i].actualCost \in Nat
    BY <1>1 DEF Reservations
  <2>2. CASE reservations[i].tenant = t /\ reservations[i].state = "RECONCILED"
    <3>1. ~(reservations[i].actualCost > reservations[i].amount)
      BY <2>2, Zenon DEF Overran
    <3> QED
      BY <2>1, <2>2, <3>1 DEF Overages, ReconcileResult
  <2>3. CASE ~(reservations[i].tenant = t /\ reservations[i].state = "RECONCILED")
    BY <2>3, Zenon DEF Overages
  <2> QED
    BY <2>2, <2>3, Zenon
<1>3. Overages(t) \in [1..MaxReservations -> Int]
  <2>1. \A i \in Ids : Overages(t)[i] \in Int
    BY <1>2
  <2>2. Overages(t) = [i \in Ids |-> Overages(t)[i]]
    BY DEF Overages
  <2> HIDE DEF Overages
  <2> QED
    BY <1>1, <2>1, <2>2, Zenon
<1>4. Total(Overages(t), MaxReservations) = 0
  BY <1>1, <1>2, <1>3, TotalZero, Zenon
<1>5. reserved[t] + settled[t] <= peak[t] + Total(Overages(t), MaxReservations) /\ limit[t] <= peak[t]
  BY DEF IInv, ExposureBounded, LimitBelowPeak
<1> QED
  BY <1>1, <1>4, <1>5

\* "At no point can total (reserved + settled) exceed the tenant's configured limit",
\* the package comment, holds but for two exceptions: a Reconcile whose cost was above
\* the amount reserved for it, and a limit that was lowered below an earlier one.
THEOREM OverspendAlwaysReported == Spec => []OverspendReported
BY InductiveInvariant, OverspendFromExposure, PTL

\* ExpireStale never takes the budget of a reservation before its deadline.
THEOREM NeverExpiredEarly == Spec => []ExpiredOnlyAfterDeadline
<1>1. IInv => ExpiredOnlyAfterDeadline
  BY DEF IInv, RecordsConsistent, ExpiredOnlyAfterDeadline
<1> QED
  BY <1>1, InductiveInvariant, PTL

\* Successful Reconcile calls for one reservation all return the same result.
THEOREM ReconcileIdempotent == Spec => []ReconcileAnswersAgree
<1>1. IInv => ReconcileAnswersAgree
  BY DEF IInv, RecordsConsistent, ReconcileAnswersAgree
<1> QED
  BY <1>1, InductiveInvariant, PTL

\* Of Release, Reconcile and ExpireStale racing for a record exactly one closes
\* it: no step of any of them changes a closed record.
THEOREM ClosedStaysClosed == Spec => ClosedIsFinal
<1>1. ASSUME TypeOK, [Next]_vars, NEW i \in Ids, reservations[i].state \in Final
      PROVE  reservations'[i] = reservations[i]
  <2>1. reservations[i].state \notin {"FREE", "CHARGED", "STAMPED", "RESERVED"}
    BY <1>1 DEF Final
  <2>2. ASSUME NEW k \in Ids, NEW t \in Tenants, NEW a \in Amounts, ReserveCharge(k, t, a)
        PROVE  reservations'[i] = reservations[i]
    BY <1>1, <2>1, <2>2 DEF ReserveCharge, TypeOK
  <2>3. ASSUME NEW k \in Ids, ReserveStamp(k) \/ ReservePublish(k) \/ Release(k)
        PROVE  reservations'[i] = reservations[i]
    BY <1>1, <2>1, <2>3 DEF ReserveStamp, ReservePublish, Release, StillReserved, TypeOK
  <2>4. ASSUME NEW k \in Ids, NEW c \in Costs, ReconcileFirst(k, c)
        PROVE  reservations'[i] = reservations[i]
    BY <1>1, <2>1, <2>4 DEF ReconcileFirst, StillReserved, TypeOK
  <2>5. ASSUME NEW s \in Sweepers, NEW k \in Ids, ExpireOne(s, k)
        PROVE  reservations'[i] = reservations[i]
    BY <1>1, <2>1, <2>5 DEF ExpireOne, StillReserved, TypeOK
  <2>6. ASSUME Tick
        PROVE  reservations'[i] = reservations[i]
    BY <1>1, <2>1, <2>6 DEF Tick, Running, TypeOK
  <2>7. ASSUME \/ \E t \in Tenants, l \in Limits : SetBudget(t, l)
               \/ \E k \in Ids, c \in Costs : ReconcileAgain(k, c)
               \/ \E s \in Sweepers : ExpireNow(s) \/ ExpireScan(s) \/ ExpireReturn(s)
               \/ UNCHANGED vars
        PROVE  reservations'[i] = reservations[i]
    BY <2>7 DEF SetBudget, ReconcileAgain, ExpireNow, ExpireScan, ExpireReturn, vars
  <2> QED
    BY <1>1, <2>2, <2>3, <2>4, <2>5, <2>6, <2>7, Zenon DEF Next, ExpireStale
<1> DEFINE Keep == \A i \in Ids : reservations[i].state \in Final
                                     => reservations'[i] = reservations[i]
<1>2. TypeOK /\ [Next]_vars => [Keep]_vars
  BY <1>1
<1> QED
  BY <1>2, TypeCorrect, PTL DEF Spec, ClosedIsFinal
-----------------------------------------------------------------------------
\* The sums of the book are those of the manager.
LEMMA BookSums ==
    ASSUME NEW t \in Tenants
    PROVE  Book!Open(t) = Held(t) /\ Book!Spent(t) = Spent(t)
<1>1. \A i \in Ids : /\ Entries[i].tenant = reservations[i].tenant
                     /\ Entries[i].amount = reservations[i].amount
                     /\ Entries[i].cost = reservations[i].actualCost
                     /\ Entries[i].status = "open" <=> reservations[i].state \in OpenStates
                     /\ Entries[i].status = "settled" <=> reservations[i].state = "RECONCILED"
  BY DEF Entries, Status, OpenStates, Private
<1>2. Book!Ids = Ids
  BY DEF Book!Ids, Ids
<1> QED
  BY <1>1, <1>2 DEF Book!Open, Book!Spent, Held, Spent, OpenStates

\* A step that keeps the entries and the limits is a stuttering step of the book.
LEMMA EntriesKept ==
    ASSUME UNCHANGED limit,
           \A i \in Ids : /\ reservations'[i].tenant = reservations[i].tenant
                          /\ reservations'[i].amount = reservations[i].amount
                          /\ reservations'[i].actualCost = reservations[i].actualCost
                          /\ Status(reservations'[i].state) = Status(reservations[i].state)
    PROVE  UNCHANGED Book!vars
<1>1. Entries' = Entries
  BY DEF Entries, Status
<1> QED
  BY <1>1 DEF Book!vars

\* A step on the record i alone rewrites the entry i.
LEMMA OneEntryChanges ==
    ASSUME NEW i \in Ids, \A k \in Ids : k # i => reservations'[k] = reservations[k],
           NEW t, reservations'[i].tenant = t,
           NEW a, reservations'[i].amount = a,
           NEW c, reservations'[i].actualCost = c,
           NEW st, Status(reservations'[i].state) = st
    PROVE  Entries' = [Entries EXCEPT ![i] = [tenant |-> t, amount |-> a, cost |-> c, status |-> st]]
<1> DEFINE E == [Entries EXCEPT ![i] = [tenant |-> t, amount |-> a, cost |-> c, status |-> st]]
<1>1. Entries'[i] = E[i]
  BY DEF Entries, Status
<1>2. \A k \in Ids : k # i => Entries'[k] = E[k]
  BY DEF Entries, Status
<1>3. E = [k \in Ids |-> E[k]] /\ Entries' = [k \in Ids |-> Entries'[k]]
  BY Zenon DEF Entries
<1> HIDE DEF E
<1>4. Entries' = E
  BY <1>1, <1>2, <1>3
<1> QED
  BY <1>4 DEF E
-----------------------------------------------------------------------------
\* A new manager is an empty book.
LEMMA BookInit == Init => Book!Init
<1> SUFFICES ASSUME Init PROVE Book!Init
  OBVIOUS
<1>1. \A i \in Ids : reservations[i].state = "FREE"
  BY DEF Init, Free
<1>2. \A i \in Ids : Entries[i].status = "blank"
  <2>1. Status("FREE") = "blank"
    BY DEF Status, Private
  <2> QED
    BY <1>1, <2>1 DEF Entries
<1> QED
  BY <1>2 DEF Init, Book!Init, Book!Ids, Ids

\* Every operation of the manager is a step of the book or leaves it alone.
LEMMA BookStep == IInv /\ [Next]_vars => [Book!Next]_(Book!vars)
<1> SUFFICES ASSUME IInv, [Next]_vars PROVE Book!Next \/ UNCHANGED Book!vars
  OBVIOUS
<1>1. TypeOK /\ BooksBalance /\ RecordsConsistent
  BY DEF IInv
<1>2. Book!Ids = Ids
  BY DEF Book!Ids, Ids
<1>3. ASSUME NEW t \in Tenants, NEW l \in Limits, SetBudget(t, l) PROVE Book!Next
  <2>1. Entries' = Entries
    BY <1>3 DEF SetBudget, Entries, Status
  <2>2. Book!SetLimit(t, l)
    BY <1>3, <2>1 DEF SetBudget, Book!SetLimit
  <2> QED
    BY <2>2 DEF Book!Next
<1>4. ASSUME NEW i \in Ids, NEW t \in Tenants, NEW a \in Amounts, ReserveCharge(i, t, a)
      PROVE  Book!Next
  <2>1. /\ reservations'[i].tenant = t /\ reservations'[i].amount = a
        /\ reservations'[i].actualCost = 0 /\ reservations'[i].state = "CHARGED"
        /\ \A k \in Ids : k # i => reservations'[k] = reservations[k]
    BY <1>1, <1>4 DEF ReserveCharge, TypeOK, Free
  <2>2. Status(reservations'[i].state) = "open" /\ Entries[i].status = "blank"
    BY <1>4, <2>1 DEF ReserveCharge, Status, Private, Entries
  <2>3. Entries' = [Entries EXCEPT ![i] = [tenant |-> t, amount |-> a, cost |-> 0, status |-> "open"]]
    BY <2>1, <2>2, OneEntryChanges
  <2>4. Book!Exposure(t) = reserved[t] + settled[t]
    <3>1. Book!Exposure(t) = Total(Held(t), MaxReservations) + Total(Spent(t), MaxReservations)
      BY BookSums, Zenon DEF Book!Exposure, Book!Total, Total, Book!PartialSums, PartialSums
    <3> QED
      BY <1>1, <3>1 DEF BooksBalance
  <2>5. reserved[t] + settled[t] + a <= limit[t]
    <3>1. reserved[t] \in Int /\ settled[t] \in Int /\ limit[t] \in Int /\ a \in Int
      BY <1>1, ReservationAssumptions DEF TypeOK
    <3> QED
      BY <1>4, <3>1 DEF ReserveCharge, Affords, Available
  <2>6. Book!Grant(i, t, a)
    BY <1>4, <2>2, <2>3, <2>4, <2>5 DEF ReserveCharge, Book!Grant
  <2> QED
    BY <1>2, <2>6 DEF Book!Next
<1>5. ASSUME NEW i \in Ids, NEW c \in Costs, ReconcileFirst(i, c) PROVE Book!Next
  <2>1. /\ reservations'[i].tenant = reservations[i].tenant
        /\ reservations'[i].amount = reservations[i].amount
        /\ reservations'[i].actualCost = c /\ reservations'[i].state = "RECONCILED"
        /\ \A k \in Ids : k # i => reservations'[k] = reservations[k]
    BY <1>1, <1>5 DEF ReconcileFirst, TypeOK, Reservations
  <2>2. Status(reservations'[i].state) = "settled" /\ Entries[i].status = "open"
    BY <1>5, <2>1 DEF ReconcileFirst, StillReserved, Status, Private, Entries
  <2>3. Entries' = [Entries EXCEPT ![i] = [tenant |-> reservations[i].tenant,
                                           amount |-> reservations[i].amount,
                                           cost |-> c, status |-> "settled"]]
    BY <2>1, <2>2, OneEntryChanges
  <2>4. Entries[i].tenant = reservations[i].tenant /\ Entries[i].amount = reservations[i].amount
    BY DEF Entries
  <2>5. Book!Settle(i, c)
    BY <1>5, <2>2, <2>3, <2>4 DEF ReconcileFirst, Book!Settle, Book!Close
  <2> QED
    BY <1>2, <2>5 DEF Book!Next
<1>6. ASSUME NEW i \in Ids, NEW st \in {"RELEASED", "EXPIRED"}, StillReserved(i),
             reservations' = [reservations EXCEPT ![i].state = st], UNCHANGED limit
      PROVE  Book!Next
  <2>1. /\ reservations'[i].tenant = reservations[i].tenant
        /\ reservations'[i].amount = reservations[i].amount
        /\ reservations'[i].actualCost = 0
        /\ reservations'[i].state = st
        /\ \A k \in Ids : k # i => reservations'[k] = reservations[k]
    BY <1>1, <1>6 DEF TypeOK, Reservations, RecordsConsistent, StillReserved
  <2>2. Status(reservations'[i].state) = "returned" /\ Entries[i].status = "open"
    BY <1>6, <2>1 DEF StillReserved, Status, Private, Entries
  <2>3. Entries' = [Entries EXCEPT ![i] = [tenant |-> reservations[i].tenant,
                                           amount |-> reservations[i].amount,
                                           cost |-> 0, status |-> "returned"]]
    BY <2>1, <2>2, OneEntryChanges
  <2>4. Entries[i].tenant = reservations[i].tenant /\ Entries[i].amount = reservations[i].amount
    BY DEF Entries
  <2>5. Book!Return(i)
    BY <1>6, <2>2, <2>3, <2>4 DEF Book!Return, Book!Close
  <2> QED
    BY <1>2, <2>5 DEF Book!Next
<1>7. ASSUME NEW i \in Ids, Release(i) PROVE Book!Next
  BY <1>6, <1>7, Zenon DEF Release
<1>8. ASSUME NEW s \in Sweepers, NEW i \in Ids, ExpireOne(s, i)
      PROVE  Book!Next \/ UNCHANGED Book!vars
  <2>1. CASE StillReserved(i) /\ reservations' = [reservations EXCEPT ![i].state = "EXPIRED"]
    BY <1>6, <1>8, <2>1, Zenon DEF ExpireOne
  <2>2. CASE UNCHANGED reservations
    BY <1>8, <2>2, EntriesKept DEF ExpireOne
  <2> QED
    BY <1>8, <2>1, <2>2 DEF ExpireOne
<1>9. ASSUME NEW i \in Ids, ReserveStamp(i) \/ ReservePublish(i) PROVE UNCHANGED Book!vars
  <2>1. /\ UNCHANGED limit /\ reservations[i].state \in OpenStates
        /\ \E st \in OpenStates : reservations' = [reservations EXCEPT ![i].state = st]
    BY <1>9 DEF ReserveStamp, ReservePublish, OpenStates, Private, accounts
  <2>2. \A k \in Ids : k # i => reservations'[k] = reservations[k]
    BY <1>1, <2>1 DEF TypeOK
  <2>3. /\ reservations'[i].tenant = reservations[i].tenant
        /\ reservations'[i].amount = reservations[i].amount
        /\ reservations'[i].actualCost = reservations[i].actualCost
        /\ reservations'[i].state \in OpenStates
    BY <1>1, <2>1 DEF TypeOK, Reservations
  <2>4. Status(reservations'[i].state) = Status(reservations[i].state)
    BY <2>1, <2>3 DEF Status, OpenStates, Private
  <2> QED
    BY <2>1, <2>2, <2>3, <2>4, EntriesKept
<1>10. ASSUME Tick PROVE UNCHANGED Book!vars
  <2>1. \A k \in Ids : /\ reservations'[k].tenant = reservations[k].tenant
                       /\ reservations'[k].amount = reservations[k].amount
                       /\ reservations'[k].actualCost = reservations[k].actualCost
                       /\ reservations'[k].state = reservations[k].state
    BY <1>1, <1>10 DEF Tick, TypeOK, Reservations
  <2> QED
    BY <1>10, <2>1, EntriesKept DEF Tick, accounts
<1>11. ASSUME \/ \E i \in Ids, c \in Costs : ReconcileAgain(i, c)
              \/ \E s \in Sweepers : ExpireNow(s) \/ ExpireScan(s) \/ ExpireReturn(s)
              \/ UNCHANGED vars
       PROVE  UNCHANGED Book!vars
  <2>1. UNCHANGED <<limit, reservations>>
    BY <1>11 DEF ReconcileAgain, ExpireNow, ExpireScan, ExpireReturn, accounts, vars
  <2> QED
    BY <2>1, EntriesKept
<1> QED
  BY <1>3, <1>4, <1>5, <1>7, <1>8, <1>9, <1>10, <1>11 DEF Next, ExpireStale

\* The manager, with its counters, its private records and its concurrent
\* sweepers, implements the book in which every grant is decided from the
\* reservations themselves and every reservation is closed at most once.
THEOREM ManagerImplementsBook == Spec => ImplementsBook
BY BookInit, BookStep, InductiveInvariant, PTL DEF Spec, ImplementsBook, Book!Spec
=============================================================================
