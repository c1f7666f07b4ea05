----------------------------- MODULE BudgetBook -----------------------------
(***************************************************************************)
(* What the reservation manager promises, without its counters, its map,   *)
(* its clock or its sweeper: a book with one entry per granted reservation *)
(* in which every decision is taken from the entries themselves.           *)
(*                                                                         *)
(*  - an entry is opened only if the tenant's open entries, its settled    *)
(*    costs and the new amount together fit in the limit in force;         *)
(*  - an open entry is closed once, by settling a cost or by returning the *)
(*    amount, and a closed entry never changes again;                      *)
(*  - the limit may be set to anything at any time.                        *)
(***************************************************************************)
EXTENDS Sums

CONSTANTS Tenants, MaxReservations, Amounts, Costs, Limits

VARIABLES
    limit,   \* [Tenants -> Limits]
    book     \* [Ids -> Entry]

vars == <<limit, book>>

Ids == 1..MaxReservations

\* What tenant t has open, and what it has spent, entry by entry.
Open(t)  == [i \in Ids |-> IF book[i].tenant = t /\ book[i].status = "open"
                           THEN book[i].amount ELSE 0]
Spent(t) == [i \in Ids |-> IF book[i].tenant = t /\ book[i].status = "settled"
                           THEN book[i].cost ELSE 0]

Exposure(t) == Total(Open(t), MaxReservations) + Total(Spent(t), MaxReservations)

Init ==
    /\ limit = [t \in Tenants |-> 0]
    /\ \A i \in Ids : book[i].status = "blank"

SetLimit(t, l) ==
    /\ limit' = [limit EXCEPT ![t] = l]
    /\ UNCHANGED book

Grant(i, t, a) ==
    /\ book[i].status = "blank"
    /\ Exposure(t) + a <= limit[t]
    /\ book' = [book EXCEPT ![i] = [tenant |-> t, amount |-> a, cost |-> 0, status |-> "open"]]
    /\ UNCHANGED limit

\* An open entry is closed; nothing leads from a closed entry.
Close(i, c, status) ==
    /\ book[i].status = "open"
    /\ book' = [book EXCEPT ![i] = [tenant |-> book[i].tenant, amount |-> book[i].amount,
                                    cost |-> c, status |-> status]]
    /\ UNCHANGED limit

Settle(i, c) == Close(i, c, "settled")
Return(i)    == Close(i, 0, "returned")

Next ==
    \/ \E t \in Tenants, l \in Limits : SetLimit(t, l)
    \/ \E i \in Ids, t \in Tenants, a \in Amounts : Grant(i, t, a)
    \/ \E i \in Ids, c \in Costs : Settle(i, c)
    \/ \E i \in Ids : Return(i)

Spec == Init /\ [][Next]_vars
=============================================================================
