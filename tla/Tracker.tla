------------------------------ MODULE Tracker -------------------------------
(***************************************************************************)
(* A tenant's spend tracker and the risk score made from it (internal/     *)
(* risk): three rolling windows and a learned baseline, written by the     *)
(* requests that record their usage and read, under one lock after the     *)
(* other, by the requests being evaluated.                                 *)
(*                                                                         *)
(* The kill switches, the breaker and the reservation around the score are *)
(* in Gateway, where the score may be anything.  Velocities are multiples  *)
(* of 1/Scale per tick, subscores of a hundredth of a percent, rounded     *)
(* down, where the code has floating-point numbers.                        *)
(***************************************************************************)
EXTENDS Sums, Sequences, FiniteSetsExt

CONSTANTS
    Lookback,     \* the length of each window in ticks
    Scale,        \* velocity units per unit of cost and tick
    Costs,        \* costs a request may turn out to have
    Exposures,    \* <<committed, limit>> an evaluation may find in the budget
    Recorders,    \* bound: requests that record usage at a time
    MaxRecords    \* bound: costs recorded

Windows == {"short", "medium", "long"}

ASSUME TrackerAssumptions ==
    /\ Lookback \in [Windows -> Nat \ {0}]
    /\ Lookback["short"] <= Lookback["medium"] /\ Lookback["medium"] <= Lookback["long"]
    /\ Scale \in Nat \ {0} /\ \A w \in Windows : Scale % Lookback[w] = 0
    /\ Costs \subseteq Nat
    /\ Exposures \subseteq Nat \X Nat
    /\ Recorders \in Nat
    /\ MaxRecords \in Nat

VARIABLES
    windows,      \* the samples each window still holds, oldest first
    baseline,     \* the learned velocity
    seeded,       \* initOnce has run
    recorders,    \* what each recording request does next, and its cost
    evaluation,   \* one request being evaluated: what it has read so far
    records,      \* how many costs have been recorded
    recent,       \* history: the samples each window was given, Spent beyond its lookback
    range         \* history: lowest and highest long velocity the baseline was fed

vars == <<windows, baseline, seeded, recorders, evaluation, records, recent, range>>

Samples == [age: Nat, cost: Costs]
\* What is left in the history of a sample that is older than the lookback of w.
Spent(w) == [age |-> Lookback[w] + 1, cost |-> 0]

\* base, now: a velocity read and not yet used.  velocity, accel: what the reads gave.
\* calm: no spend in the short lookback before the evaluation or during it.
NoEvaluation == [pc |-> "idle", base |-> 0, now |-> 0, velocity |-> 0, accel |-> 0,
                 calm |-> FALSE, exposure |-> <<0, 0>>, verdict |-> "none"]

\* The windows hold samples, the baseline is a velocity, and each request is at a
\* point of Record or of Evaluate.
TypeOK ==
    /\ \A w \in Windows : windows[w] \in Seq(Samples) /\ recent[w] \in Seq(Samples \cup {Spent(w)})
    /\ baseline \in Nat
    /\ seeded \in BOOLEAN
    /\ recorders \in [1..Recorders -> [pc: Windows \cup {"idle", "baseline"}, cost: Costs \cup {0}]]
    /\ evaluation.pc \in {"idle", "current", "short", "medium", "score"}
    /\ evaluation.verdict \in {"none", "allow", "throttle", "block"}
    /\ records \in 0..MaxRecords
    /\ range \in Nat \X Nat

Init ==
    /\ windows = [w \in Windows |-> <<>>]
    /\ baseline = 0
    /\ seeded = FALSE
    /\ recorders = [r \in 1..Recorders |-> [pc |-> "idle", cost |-> 0]]
    /\ evaluation = NoEvaluation
    /\ records = 0
    /\ recent = [w \in Windows |-> <<>>]
    /\ range = <<0, 0>>
-----------------------------------------------------------------------------
CostOf(samples) == Total([i \in DOMAIN samples |-> samples[i].cost], Len(samples))

\* Faulty variant of Evicted: a sample as old as the lookback is dropped.
EvictedEarly(w) ==
    LET fresh == {i \in DOMAIN windows[w] : windows[w][i].age < Lookback[w]}
    IN  IF fresh = {} THEN <<>> ELSE SubSeq(windows[w], Min(fresh), Len(windows[w]))

\* Faulty variant of Evicted: nothing is dropped.
EvictedNever(w) == windows[w]

\* evictLocked drops the samples before the first one that is young enough.
Evicted(w) ==
    LET fresh == {i \in DOMAIN windows[w] : windows[w][i].age <= Lookback[w]}
    IN  IF fresh = {} THEN <<>> ELSE SubSeq(windows[w], Min(fresh), Len(windows[w]))

Evict(w) == windows' = [windows EXCEPT ![w] = Evicted(w)]

\* RollingWindow.Sum and VelocityPerSec.
Sum(w) == CostOf(Evicted(w))
Velocity(w) == (Sum(w) * Scale) \div Lookback[w]
-----------------------------------------------------------------------------
\* A request has been reconciled: RecordUsage calls Record with its cost.  The
\* requests are interchangeable, so the first one that is idle is taken.
BeginRecord(r, cost) ==
    /\ recorders[r].pc = "idle"
    /\ \A q \in 1..(r-1) : recorders[q].pc # "idle"
    /\ records < MaxRecords
    /\ records' = records + 1
    /\ recorders' = [recorders EXCEPT ![r] = [pc |-> "short", cost |-> cost]]
    /\ UNCHANGED <<windows, baseline, seeded, evaluation, recent, range>>

\* Faulty variant of After: Record leaves the medium window out.
AfterSkipping == [short |-> "long", medium |-> "long", long |-> "baseline"]

\* The step of Record after the one on a window.
After == [short |-> "medium", medium |-> "long", long |-> "baseline"]

\* RollingWindow.Record of one window: append the sample, then evict.
RecordIn(r, w) ==
    LET sample == [age |-> 0, cost |-> recorders[r].cost]
    IN  /\ recorders[r].pc = w
        /\ windows' = [windows EXCEPT ![w] = Append(Evicted(w), sample)]
        /\ recent' = [recent EXCEPT ![w] = Append(@, sample)]
        /\ recorders' = [recorders EXCEPT ![r].pc = After[w]]
        /\ evaluation' = IF w = "short" THEN [evaluation EXCEPT !.calm = FALSE] ELSE evaluation
        /\ UNCHANGED <<baseline, seeded, records, range>>

\* Faulty variant of Learned: the old average is subtracted.
LearnedNegative(current) == IF seeded THEN (current - 49 * baseline) \div 50 ELSE current

\* Faulty variant of Learned: initOnce is missing, the baseline starts at zero.
LearnedUnseeded(current) == (current + 49 * baseline) \div 50

\* The moving average with alpha = 0.02, seeded with the first velocity.
Learned(current) == IF seeded THEN (current + 49 * baseline) \div 50 ELSE current

\* The end of Record, under the tracker's own lock.
RecordBaseline(r) ==
    LET current == Velocity("long")
    IN  /\ recorders[r].pc = "baseline"
        /\ Evict("long")
        /\ baseline' = Learned(current)
        /\ seeded' = TRUE
        /\ range' = IF seeded THEN <<Min({range[1], current}), Max({range[2], current})>>
                              ELSE <<current, current>>
        /\ recorders' = [recorders EXCEPT ![r] = [pc |-> "idle", cost |-> 0]]
        /\ UNCHANGED <<evaluation, records, recent>>
-----------------------------------------------------------------------------
\* clamp01 of a quotient, as hundredths of a percent.
Clamp01(n, d) == IF n <= 0 THEN 0 ELSE IF n >= d THEN 10000 ELSE (10000 * n) \div d

\* Faulty variant of VelocitySub: the quotient is upside down.
VelocitySubInverted(base, short) == Clamp01(base, 20 * short)

\* VelocityMultiplier is 1 without a baseline; 20 (VelocityTargetMult) is full risk.
VelocitySub(base, short) ==
    IF base > 0 THEN Clamp01(short, 20 * base)
                ELSE IF short > 0 THEN Clamp01(1, 20) ELSE 0

\* Only spend that still ramps up counts, in multiples of the baseline.
AccelSub(base, accel) == Clamp01(accel, IF base > 0 THEN base ELSE Scale)

BudgetSub(exposure) == IF exposure[2] > 0 THEN Clamp01(exposure[1], exposure[2]) ELSE 0

\* handleProxy always says one request is in flight; MaxConcurrency is 50.
ConcurrencySub == Clamp01(1, 50)

\* Faulty variant of Score: the weights do not add up to one.
ScoreHeavy(exposure, velocity, accel) ==
    (30 * BudgetSub(exposure) + 50 * velocity + 20 * accel + 10 * ConcurrencySub) \div 10000

\* DefaultWeights, and int() of the blend.
Score(exposure, velocity, accel) ==
    (30 * BudgetSub(exposure) + 40 * velocity + 20 * accel + 10 * ConcurrencySub) \div 10000

\* ThrottleThreshold and BlockThreshold.
Verdict(score) == CASE score >= 90 -> "block"
                    [] score >= 70 /\ score < 90 -> "throttle"
                    [] OTHER -> "allow"

-----------------------------------------------------------------------------
\* VelocityMultiplier reads the baseline ...
ReadBaseline ==
    /\ evaluation.pc = "idle"
    /\ evaluation' = [NoEvaluation EXCEPT !.pc = "current", !.base = baseline,
                                          !.calm = (CostOf(recent["short"]) = 0)]
    /\ UNCHANGED <<windows, baseline, seeded, recorders, records, recent, range>>

\* ... and the short window; Acceleration reads it again ...
ReadCurrent ==
    /\ evaluation.pc = "current"
    /\ Evict("short")
    /\ evaluation' = [evaluation EXCEPT !.pc = "short", !.base = 0,
                         !.velocity = VelocitySub(evaluation.base, Velocity("short"))]
    /\ UNCHANGED <<baseline, seeded, recorders, records, recent, range>>

ReadShort ==
    /\ evaluation.pc = "short"
    /\ Evict("short")
    /\ evaluation' = [evaluation EXCEPT !.pc = "medium", !.now = Velocity("short")]
    /\ UNCHANGED <<baseline, seeded, recorders, records, recent, range>>

\* ... and then the medium window.  Negative acceleration is of no account.
ReadMedium ==
    /\ evaluation.pc = "medium"
    /\ Evict("medium")
    /\ evaluation' = [evaluation EXCEPT !.pc = "score", !.now = 0,
                         !.accel = Max({0, evaluation.now - Velocity("medium")})]
    /\ UNCHANGED <<baseline, seeded, recorders, records, recent, range>>

\* ProjectedExposure reads short and medium window again, for a figure that is only
\* reported; score reads the baseline once more, and Evaluate acts on the score.
Decide(exposure) ==
    /\ evaluation.pc = "score"
    /\ windows' = [windows EXCEPT !["short"] = Evicted("short"), !["medium"] = Evicted("medium")]
    /\ evaluation' = [NoEvaluation EXCEPT !.calm = evaluation.calm, !.exposure = exposure,
                         !.verdict = Verdict(Score(exposure, evaluation.velocity,
                                                   AccelSub(baseline, evaluation.accel)))]
    /\ UNCHANGED <<baseline, seeded, recorders, records, recent, range>>
-----------------------------------------------------------------------------
\* Older than its lookback, a sample's age no longer matters.
Aged(w) == [i \in DOMAIN windows[w] |->
               [windows[w][i] EXCEPT !.age = Min({@ + 1, Lookback[w] + 1})]]

\* The history a tick later: the reference for what eviction leaves.
StillRecent(w) ==
    [i \in DOMAIN recent[w] |->
        IF recent[w][i].age < Lookback[w] THEN [recent[w][i] EXCEPT !.age = @ + 1] ELSE Spent(w)]

\* Time passes.
Tick ==
    /\ windows' = [w \in Windows |-> Aged(w)]
    /\ recent' = [w \in Windows |-> StillRecent(w)]
    /\ UNCHANGED <<baseline, seeded, recorders, evaluation, records, range>>

Next ==
    \/ \E r \in 1..Recorders : \/ \E cost \in Costs : BeginRecord(r, cost)
                            \/ \E w \in Windows : RecordIn(r, w)
                            \/ RecordBaseline(r)
    \/ ReadBaseline
    \/ ReadCurrent
    \/ ReadShort
    \/ ReadMedium
    \/ \E exposure \in Exposures : Decide(exposure)
    \/ Tick

\* The clock does not stop.
Spec == Init /\ [][Next]_vars /\ WF_vars(Tick)
-----------------------------------------------------------------------------
\* RollingWindow.Sum, "total spend within the lookback window": whatever the order of
\* records, reads and time, and although samples are dropped only when somebody looks
\* and only from the front, a read gives the cost of the samples recorded within the
\* lookback, no more and no less.
SumIsRecentSpend == \A w \in Windows : Sum(w) = CostOf(recent[w])

InFlight(w) == Total([r \in 1..Recorders |-> IF recorders[r].pc = w THEN recorders[r].cost ELSE 0],
                     Recorders)

\* Record updates the windows one after the other, each under its own lock, so a
\* reader may find a cost in the short window that the medium one does not have yet.
\* A longer window lags a shorter one by no more than the costs being recorded.
WindowsNested ==
    /\ Sum("short") <= Sum("medium") + InFlight("medium")
    /\ Sum("medium") <= Sum("long") + InFlight("long")

\* The baseline "should represent 'normal'": whatever requests race to seed and to
\* update it, it stays between the lowest and the highest long-window velocity that
\* any Record has seen.
BaselineInRange == range[1] <= baseline /\ baseline <= range[2]

\* Recovery: an evaluation that starts with no spend recorded in the short lookback,
\* and during which none is recorded, is never throttled or blocked by its score,
\* whatever the baseline, the other windows and the budget hold.
CalmIsAllowed == evaluation.calm => evaluation.verdict \in {"none", "allow"}

\* The weights: with the concurrency the proxy reports, velocity and acceleration
\* at their worst do not block a tenant; only one whose commitments, with this
\* request's estimate, come to 99% of its limit is blocked by its score.
BlockNeedsBudget ==
    evaluation.verdict = "block" => BudgetSub(evaluation.exposure) >= 9900

\* A burst is forgotten: once requests stop recording, an evaluation finds the short
\* window empty, and so a velocity of zero, without any call to clean up.
BurstForgotten == <>[](Evicted("short") = <<>>)
=============================================================================
