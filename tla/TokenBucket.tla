---------------------------- MODULE TokenBucket ----------------------------
(***************************************************************************)
(* What a rate limiter promises: for every key one bucket that starts      *)
(* full, gains rate per tick up to burst, and pays Cost for every request  *)
(* it lets through.  It is kept for ever, with one exception: if the rate  *)
(* is too slow to fill a bucket within IdleTTL, a key that has not asked   *)
(* for longer than IdleTTL may be forgotten, and is full when it returns.  *)
(***************************************************************************)
EXTENDS Naturals

CONSTANTS Keys, Cost, IdleTTL

VARIABLES
    limits,   \* the rate and the burst; no limit if either is zero
    level,    \* what is in each bucket
    quiet,    \* how long each key has not asked, as far as IdleTTL tells it apart
    passed    \* the answer to the last request of each key, and whether there was one

vars == <<limits, level, quiet, passed>>

Min(a, b) == IF a < b THEN a ELSE b
Limited == limits.rate > 0 /\ limits.burst > 0

Init ==
    /\ level = [k \in Keys |-> limits.burst]
    /\ quiet = [k \in Keys |-> IdleTTL + 1]
    /\ passed = [k \in Keys |-> "none"]

Answer(k, answer) ==
    /\ passed' = [passed EXCEPT ![k] = answer]
    /\ UNCHANGED limits

Pass(k) ==
    /\ Limited
    /\ level[k] >= Cost
    /\ level' = [level EXCEPT ![k] = @ - Cost]
    /\ quiet' = [quiet EXCEPT ![k] = 0]
    /\ Answer(k, "yes")

Refuse(k) ==
    /\ Limited
    /\ level[k] < Cost
    /\ quiet' = [quiet EXCEPT ![k] = 0]
    /\ Answer(k, "no")
    /\ UNCHANGED level

\* Without a limit every request passes and nothing is counted.
WaveThrough(k) ==
    /\ ~Limited
    /\ Answer(k, "yes")
    /\ UNCHANGED <<level, quiet>>

Refill ==
    /\ level' = [k \in Keys |-> Min(limits.burst, level[k] + limits.rate)]
    /\ quiet' = [k \in Keys |-> Min(IdleTTL + 1, quiet[k] + 1)]
    /\ UNCHANGED <<limits, passed>>

Forget ==
    /\ limits.rate * IdleTTL < limits.burst
    /\ \E forgotten \in SUBSET {k \in Keys : quiet[k] > IdleTTL} :
           level' = [k \in Keys |-> IF k \in forgotten THEN limits.burst ELSE level[k]]
    /\ UNCHANGED <<limits, quiet, passed>>

Textbook == Refill \/ \E k \in Keys : Pass(k) \/ Refuse(k) \/ WaveThrough(k)

Next == Textbook \/ Forget

Spec == Init /\ [][Next]_vars

\* The bucket that is never forgotten.
TextbookSpec == Init /\ [][Textbook]_vars
=============================================================================
