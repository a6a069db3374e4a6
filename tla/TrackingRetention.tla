------------------------- MODULE TrackingRetention -------------------------
(***************************************************************************)
(* The nightly retention of page views: views older than the window are    *)
(* counted into a row of their day (TrackingRollupService) and deleted,    *)
(* batch by batch and at most so many batches a night. A job may stop at   *)
(* any point, and one asked for by hand may overlap the nightly one.       *)
(*                                                                         *)
(* All views are of one host and path; the visitors of a day are counted   *)
(* by the same statement as its views.                                     *)
(***************************************************************************)
EXTENDS Naturals, FiniteSetsExt

CONSTANTS
    Jobs,              \* requests of /internal/tracking/retention
    Days,              \* days, 1..Days
    RETENTION,         \* EVENT_RETENTION_DAYS
    SWEEP_BATCH,
    MAX_SWEEP_PASSES,
    MaxViews           \* bound: views of a day

ASSUME TrackingRetentionAssumption ==
    /\ Days \in Nat \ {0} /\ MaxViews \in Nat
    /\ RETENTION \in Nat \ {0}
    /\ SWEEP_BATCH \in Nat \ {0}
    /\ MAX_SWEEP_PASSES \in Nat \ {0}

VARIABLES
    rows,    \* how many trackedEvent rows each day has
    daily,   \* trackedPageDaily.views of each day
    today,
    job,     \* the local state of each job
    seen     \* history: the views of each day

retentionVars == <<rows, daily, today, job, seen>>

JobRow == [pc : {"idle", "roll", "sweep"}, before : 0..Days,
           pass : 0..(MAX_SWEEP_PASSES - 1)]
NoJob == [pc |-> "idle", before |-> 0, pass |-> 0]

RetentionTypeOK ==
    /\ rows \in [1..Days -> 0..MaxViews]
    /\ daily \in [1..Days -> 0..MaxViews]
    /\ seen \in [1..Days -> 0..MaxViews]
    /\ today \in 1..Days
    /\ job \in [Jobs -> JobRow]

RetentionInit ==
    /\ rows = [d \in 1..Days |-> 0]
    /\ daily = rows
    /\ seen = rows
    /\ today = 1
    /\ job = [j \in Jobs |-> NoJob]

(* A page view is stored; the page may date it back by a day (occurredAt). *)
View(d) ==
    /\ d \in {today - 1, today} \ {0}
    /\ seen[d] < MaxViews
    /\ rows' = [rows EXCEPT ![d] = @ + 1]
    /\ seen' = [seen EXCEPT ![d] = @ + 1]
    /\ UNCHANGED <<daily, today, job>>

DayPasses ==
    /\ today < Days
    /\ today' = today + 1
    /\ UNCHANGED <<rows, daily, job, seen>>

Begin(j) ==
    /\ job[j].pc = "idle"
    /\ today > RETENTION
    /\ job' = [job EXCEPT ![j] =
          [pc |-> "roll", before |-> today - RETENTION, pass |-> 0]]
    /\ UNCHANGED <<rows, daily, today, seen>>

(* Mutant: what is counted last replaces what was counted before.          *)
Counted_mutant(d) == rows[d]

(* GREATEST(daily, counted).                                               *)
Counted(d) == IF rows[d] > daily[d] THEN rows[d] ELSE daily[d]

RollUp(j) ==
    /\ job[j].pc = "roll"
    /\ daily' = [d \in 1..Days |->
          IF d < job[j].before THEN Counted(d) ELSE daily[d]]
    /\ job' = [job EXCEPT ![j].pc = "sweep"]
    /\ UNCHANGED <<rows, today, seen>>

(* One DELETE: all that is old, or a full batch of it.                     *)
Old(j) == {d \in 1..Days : d < job[j].before}
Left(old) == {left \in [old -> 0..MaxViews] : \A d \in old : left[d] <= rows[d]}
Sum(count, days) == FoldSet(LAMBDA d, n : count[d] + n, 0, days)
Deleted(j) == LET all == Sum(rows, Old(j)) IN
              IF all < SWEEP_BATCH THEN all ELSE SWEEP_BATCH

(* A batch that is not full, or the last of the night, ends the job.       *)
AfterBatch(j) ==
    IF Deleted(j) < SWEEP_BATCH \/ job[j].pass + 1 = MAX_SWEEP_PASSES THEN NoJob
    ELSE [job[j] EXCEPT !.pass = @ + 1]

Sweep(j) ==
    /\ job[j].pc = "sweep"
    /\ \E left \in Left(Old(j)) :
          /\ Sum(left, Old(j)) = Sum(rows, Old(j)) - Deleted(j)
          /\ rows' = [d \in 1..Days |-> IF d \in Old(j) THEN left[d] ELSE rows[d]]
    /\ job' = [job EXCEPT ![j] = AfterBatch(j)]
    /\ UNCHANGED <<daily, today, seen>>

(* A statement throws, or the process stops.                               *)
JobStops(j) ==
    /\ job[j].pc # "idle"
    /\ job' = [job EXCEPT ![j] = NoJob]
    /\ UNCHANGED <<rows, daily, today, seen>>

RetentionNext ==
    \/ \E d \in 1..Days : View(d)
    \/ \E j \in Jobs : Begin(j) \/ RollUp(j) \/ Sweep(j) \/ JobStops(j)
    \/ DayPasses

RetentionSpec == RetentionInit /\ [][RetentionNext]_retentionVars
-----------------------------------------------------------------------------
(* "Roll before you delete" (docs/tracking.md): of a day that lost a row   *)
(* all views are counted, though a night deletes a part of them, the next  *)
(* counts what is left, jobs overlap and stop half-way.                    *)
NoViewLost == \A d \in 1..Days : rows[d] < seen[d] => daily[d] = seen[d]
=============================================================================
