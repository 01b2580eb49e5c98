--------------------------- MODULE EgressGovernor ---------------------------
(***************************************************************************)
(* The daily byte budget between the pipeline's flush and the sink         *)
(* (src/sf2loki/egress.py, EgressGovernor).  The consumers of all lanes    *)
(* share one governor: admit() may await midnight, and the bytes are       *)
(* accounted only after the push, so lanes act on each other's stale view. *)
(* The rate caps are TokenBucket.                                          *)
(***************************************************************************)
EXTENDS Integers, FiniteSets

CONSTANTS
    Lanes,       \* the lanes whose consumers share the governor
    Budget,      \* daily_byte_budget
    BatchSizes,  \* sizes of the batches
    Actions,     \* the values of budget_action that are looked at
    MaxBatch,    \* the largest of them
    MaxUsed,     \* bound on the counter: no batch is flushed beyond it
    MaxDay,      \* bound on the wall clock, in days
    MaxRuns      \* bound: how many times Pipeline.run starts the governor

ASSUME EgressAssumption ==
    /\ IsFiniteSet(Lanes) /\ Lanes # {}
    /\ Budget \in Nat \ {0}
    /\ MaxBatch \in Nat \ {0} /\ BatchSizes \subseteq 1..MaxBatch
    /\ Actions \subseteq {"pause", "drop"}
    /\ MaxUsed \in Nat /\ MaxDay \in Nat /\ MaxRuns \in Nat

VARIABLES
    action,      \* budget_action, as configured
    today,       \* the UTC date
    date,        \* _date, the day _used counts for
    used,        \* _used
    paused,      \* _paused, what readiness and the metric report
    saved,       \* the persisted counter: day and bytes
    lane,        \* [Lanes -> where the consumer's flush is]
    size,        \* [Lanes -> bytes of the batch being flushed]
    wake,        \* [Lanes -> the midnight its pause waits for]
    stop,        \* the stop event of this run
    running,     \* Pipeline.run is between start() and its return
    runs,        \* how often it was started
    recorded     \* [days -> bytes recorded for that day, by every process]

egressVars == <<action, today, date, used, paused, saved, lane, size, wake, stop, running, runs, recorded>>
laneState  == <<lane, size, wake>>

EgressInit ==
    /\ action \in Actions
    /\ today = 0 /\ date = 0 /\ used = 0 /\ paused = FALSE
    /\ saved = [day |-> 0, bytes |-> 0]
    /\ lane = [l \in Lanes |-> "idle"]
    /\ size = [l \in Lanes |-> 0]
    /\ wake = [l \in Lanes |-> 0]
    /\ stop = FALSE /\ running = FALSE /\ runs = 0
    /\ recorded = [d \in 0..MaxDay |-> 0]

-----------------------------------------------------------------------------

\* Mutant: a counter persisted on an earlier day is taken over.
SavedCountStale == saved.bytes
\* A persisted counter of another day counts for nothing.
SavedCount == IF saved.day = today THEN saved.bytes ELSE 0

\* start().  The process may be a new one (_paused is initialised), or the
\* same one on a new acquisition (it keeps its value).
Start ==
    /\ ~running /\ runs < MaxRuns
    /\ date' = today
    /\ used' = SavedCount
    /\ paused' \in {paused, FALSE}
    /\ running' = TRUE /\ stop' = FALSE
    /\ runs' = runs + 1
    /\ UNCHANGED <<today, saved, laneState, recorded>>

\* _maybe_rollover, as the counter it leaves.
UsedToday == IF today # date THEN 0 ELSE used

\* Mutant: the batch itself is left out of the comparison.
OverBudgetAfter(b) == UsedToday > Budget
\* The batch would exceed the budget.
OverBudget(b) == UsedToday + b > Budget

Enter(l, where, b) ==
    /\ lane' = [lane EXCEPT ![l] = where]
    /\ size' = [size EXCEPT ![l] = b]

\* admit(): push, drop, or pause until midnight.  With stop set the pause is
\* over before it begins, and _paused stays set.
Admit(l, b) ==
    /\ running /\ lane[l] = "idle" /\ used <= MaxUsed
    /\ date' = today /\ used' = UsedToday
    /\ \/ /\ ~OverBudget(b)
          /\ Enter(l, "push", b)
          /\ UNCHANGED <<paused, wake>>
       \/ /\ OverBudget(b) /\ action = "drop"
          /\ UNCHANGED <<lane, size, paused, wake>>
       \/ /\ OverBudget(b) /\ action = "pause"
          /\ paused' = TRUE
          /\ Enter(l, IF stop THEN "push" ELSE "paused", b)
          /\ wake' = [wake EXCEPT ![l] = IF stop THEN @ ELSE today + 1]
    /\ UNCHANGED <<today, saved, stop, running, runs, recorded>>

\* The timer of the pause fires.  The lane that finds an old date rolls over
\* and goes on; a lane that finds today's date waits for the next midnight.
Wake(l) ==
    /\ lane[l] = "paused" /\ ~stop /\ today >= wake[l]
    /\ \/ /\ today # date
          /\ date' = today /\ used' = 0 /\ paused' = FALSE
          /\ lane' = [lane EXCEPT ![l] = "push"]
          /\ UNCHANGED wake
       \/ /\ today = date
          /\ wake' = [wake EXCEPT ![l] = today + 1]
          /\ UNCHANGED <<date, used, paused, lane>>
    /\ UNCHANGED <<today, saved, size, stop, running, runs, recorded>>

\* stop ends the pause; admit() returns True and _paused stays set.
StopDuringPause(l) ==
    /\ lane[l] = "paused" /\ stop
    /\ lane' = [lane EXCEPT ![l] = "push"]
    /\ UNCHANGED <<today, date, used, paused, saved, size, wake, stop, running, runs, recorded>>

\* The push succeeded: record() rolls over, counts and persists.
Record(l) ==
    /\ lane[l] = "push"
    /\ date' = today
    /\ used' = UsedToday + size[l]
    /\ saved' = [day |-> today, bytes |-> used']
    /\ recorded' = [recorded EXCEPT ![today] = @ + size[l]]
    /\ Enter(l, "idle", 0)
    /\ UNCHANGED <<today, paused, wake, stop, running, runs>>

\* The batch was refused for good, or abandoned by a shutdown: nothing to record.
PushGivesUp(l) ==
    /\ lane[l] = "push"
    /\ Enter(l, "idle", 0)
    /\ UNCHANGED <<today, date, used, paused, saved, wake, stop, running, runs, recorded>>

SetStop ==
    /\ running /\ ~stop
    /\ stop' = TRUE
    /\ UNCHANGED <<today, date, used, paused, saved, laneState, running, runs, recorded>>

\* Pipeline.run drained and returned, or the process died.
RunEnds ==
    /\ running
    /\ \/ stop /\ (\A l \in Lanes : lane[l] = "idle") /\ UNCHANGED paused
       \/ paused' = FALSE
    /\ running' = FALSE
    /\ lane' = [l \in Lanes |-> "idle"]
    /\ size' = [l \in Lanes |-> 0]
    /\ UNCHANGED <<today, date, used, saved, wake, stop, runs, recorded>>

\* Midnight: the pauses it ends are over before the next one.
Midnight ==
    /\ today < MaxDay
    /\ \A l \in Lanes : lane[l] = "paused" => wake[l] > today
    /\ today' = today + 1
    /\ UNCHANGED <<date, used, paused, saved, laneState, stop, running, runs, recorded>>

EgressNext ==
    /\ \/ Start \/ SetStop \/ RunEnds \/ Midnight
       \/ \E l \in Lanes : \/ \E b \in BatchSizes : Admit(l, b)
                           \/ Wake(l) \/ StopDuringPause(l) \/ Record(l) \/ PushGivesUp(l)
    /\ UNCHANGED action

EgressSpec == EgressInit /\ [][EgressNext]_egressVars

-----------------------------------------------------------------------------

\* Every variable has its type.
EgressTypeOK ==
    /\ action \in Actions
    /\ today \in 0..MaxDay /\ date \in 0..MaxDay /\ used \in Nat
    /\ saved \in [day : 0..MaxDay, bytes : Nat]
    /\ lane \in [Lanes -> {"idle", "paused", "push"}]
    /\ size \in [Lanes -> 0..MaxBatch]
    /\ wake \in [Lanes -> 0..MaxDay + 1]
    /\ paused \in BOOLEAN /\ stop \in BOOLEAN /\ running \in BOOLEAN
    /\ runs \in Nat
    /\ recorded \in [0..MaxDay -> Nat]

\* The counter and the restart: _used is what all runs together recorded for
\* the day it counts for, whenever the process was stopped or killed.
UsedSurvivesRestart == running => used = recorded[date]

\* What makes it inductive: the persisted counter is the last day's total,
\* nothing was recorded for a later day, and the days are in order.
SavedIsLastDay ==
    /\ saved.bytes = recorded[saved.day]
    /\ \A d \in 0..MaxDay : d > saved.day => recorded[d] = 0
    /\ saved.day <= date /\ date <= today
\* No flush is under way between two runs.
IdleWhenStopped == running \/ \A l \in Lanes : lane[l] = "idle"
EgressInv == EgressTypeOK /\ SavedIsLastDay /\ IdleWhenStopped /\ UsedSurvivesRestart

\* How far concurrent lanes overshoot: a batch is admitted against what has
\* been recorded, so in drop mode each of the other lanes can add one batch.
OvershootBounded ==
    action = "drop" => used <= Budget + (Cardinality(Lanes) - 1) * MaxBatch

\* Pause mode holds a batch until the next UTC midnight, not a later one.
ReleasedAtMidnight ==
    [][\A l \in Lanes : (lane[l] = "paused" /\ lane'[l] = "paused") => wake'[l] = wake[l]]_egressVars
=============================================================================
