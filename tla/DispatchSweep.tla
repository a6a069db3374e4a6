--------------------------- MODULE DispatchSweep ---------------------------
(***************************************************************************)
(* The dispatch sweep of the agent: the cron tick and the API's pokes both *)
(* call drainAll (apps/agent/agent/lib/dispatch.ts), which collapses the   *)
(* calls (lib/pool.ts), runs the visible and the research lane side by     *)
(* side, abandons a sweep that overruns and refuses to start another while *)
(* an abandoned one is in flight; dispatchHealth reports it.  What a call  *)
(* does after drainAll (queueing due runs, deliveries) is its tail.        *)
(*                                                                         *)
(* One agent process: nothing here is persisted, a stop resets it all.     *)
(* JavaScript is single-threaded: what runs between two awaits is a step,  *)
(* and the end of a sweep, the release of its callers and the catch-up it  *)
(* owes them are one.  Timers fire on time, and what does not hang returns *)
(* by its deadline: time moves (Minute) when nothing else must happen.     *)
(***************************************************************************)
EXTENDS Naturals, FiniteSets

CONSTANTS Ticks, Pokes,      \* calls of drainAll that may be under way at once
      Sweeps,            \* bound: sweeps in flight at once
          TIMEOUT,           \* sweep.timeoutMs
          ITEM,              \* sweep.itemTimeoutMs, of startTimeoutMs too
          GRACE,             \* sweep.abandonGraceMs
          MAX_ABANDONED,     \* sweep.maxAbandoned
          ROUNDS,            \* visible.batch / visible.concurrency
          MaxTroubles        \* bound: database calls that hang or throw

Callers == Ticks \cup Pokes

ASSUME SweepConstants ==
    /\ Ticks \cap Pokes = {} /\ Sweeps \subseteq Nat /\ IsFiniteSet(Sweeps)
    /\ TIMEOUT \in Nat \ {0} /\ ITEM \in Nat \ {0} /\ GRACE \in Nat
    /\ ITEM < GRACE
    /\ MAX_ABANDONED \in Nat \ {0} /\ ROUNDS \in Nat \ {0} /\ MaxTroubles \in Nat

VARIABLES
    caller,      \* caller[c]: where a call is
    due,         \* due[c]: bound, c has not called in this minute yet
    active,      \* the promise of the pass under way is set
    trailing,    \* a call waits for the catch-up
    failed,      \* a pass of this chain has failed
    catchUp,     \* history: the pass under way followed another at once
    stage,       \* stage[p]: "running", "unsettled", "forgotten" or "orphaned"
    age,         \* age[p]: minutes it runs, or since it was abandoned
    aborted,     \* the AbortController's signal
    lane, spent, \* lane[p][l], and the minutes of its present round
    rounds,      \* rounds[p]: handled, in rounds of the concurrency
    hung,        \* hung[p]: lanes whose database call does not return
    shown,       \* lastSweepFinishedAt < lastSweepStartedAt
    owed,        \* history: a call since a pass last began or was refused
    troubles     \* history: database calls that hung or threw

pool    == <<caller, due, active, trailing, failed, catchUp, owed>>
flight  == <<stage, age, aborted, lane, spent, rounds, hung>>
vars    == <<pool, flight, shown, troubles>>

Lanes == {"visible", "research"}

TypeOK ==
    /\ caller \in [Callers -> {"idle", "leads", "joined", "tail"}]
    /\ due \in [Callers -> BOOLEAN]
    /\ active \in BOOLEAN /\ trailing \in BOOLEAN /\ failed \in BOOLEAN /\ catchUp \in BOOLEAN /\ owed \in BOOLEAN
    /\ stage \in [Sweeps -> {"none", "running", "unsettled", "forgotten", "orphaned"}]
    /\ age \in [Sweeps -> 0 .. TIMEOUT + GRACE]
    /\ aborted \in [Sweeps -> BOOLEAN]
    /\ lane \in [Sweeps -> [Lanes -> {"claim", "round", "done"}]]
    /\ spent \in [Sweeps -> [Lanes -> 0 .. ITEM]]
    /\ rounds \in [Sweeps -> 0 .. ROUNDS]
    /\ hung \in [Sweeps -> SUBSET Lanes]
    /\ shown \in BOOLEAN
    /\ troubles \in 0 .. MaxTroubles

Init ==
    /\ caller = [c \in Callers |-> "idle"] /\ due = [c \in Callers |-> TRUE]
    /\ active = FALSE /\ trailing = FALSE /\ failed = FALSE /\ catchUp = FALSE /\ owed = FALSE
    /\ stage = [p \in Sweeps |-> "none"] /\ age = [p \in Sweeps |-> 0]
    /\ aborted = [p \in Sweeps |-> FALSE]
    /\ lane = [p \in Sweeps |-> [l \in Lanes |-> "done"]]
    /\ spent = [p \in Sweeps |-> [l \in Lanes |-> 0]]
    /\ rounds = [p \in Sweeps |-> 0] /\ hung = [p \in Sweeps |-> {}]
    /\ shown = FALSE /\ troubles = 0

InFlight == {p \in Sweeps : stage[p] # "none"}
Settled(p) == \A l \in Lanes : lane[p][l] = "done"

-----------------------------------------------------------------------------
(* drainAll: refusing, beginning and ending a pass.  In what follows st, ag, *)
(* ab and ln are stage, age, aborted and lane after what ended the pass.     *)

Refuses(st) == Cardinality({p \in Sweeps : st[p] = "unsettled"}) >= MAX_ABANDONED

\* startedAt and the finish of the pass before may fall in one millisecond when
\* the pass is its catch-up.
Begin(st, ag, ab, ln) ==
    \E q \in Sweeps :
       /\ st[q] = "none" /\ \A r \in Sweeps : r < q => st[r] # "none"
       /\ stage' = [st EXCEPT ![q] = "running"]
       /\ age' = [ag EXCEPT ![q] = 0]
       /\ aborted' = [ab EXCEPT ![q] = FALSE]
       /\ lane' = [ln EXCEPT ![q] = [l \in Lanes |-> "claim"]]
       /\ spent' = [spent EXCEPT ![q] = [l \in Lanes |-> 0]]
       /\ rounds' = [rounds EXCEPT ![q] = 0]
       /\ catchUp' = active
       /\ shown' \in IF active THEN BOOLEAN ELSE {TRUE}

\* The leader hears of the first failure of its chain, a joined caller of its pass.
Released(ok, chainOver) ==
    caller' = [c \in Callers |->
                 CASE caller[c] = "joined" -> IF ok THEN "tail" ELSE "idle"
                   [] caller[c] = "leads" /\ chainOver ->
                        IF ok /\ ~failed THEN "tail" ELSE "idle"
                   [] OTHER -> caller[c]]

\* Mutant: a pass that fails forgets the call that waits for its catch-up.
CatchesUp_mutant(ok, st) == ok /\ trailing /\ ~Refuses(st)

\* A catch-up is owed, and the refusal finds no reason against it.
CatchesUp(ok, st) == trailing /\ ~Refuses(st)

\* Mutant: the failure outlives its chain.
Remembers_mutant(ok, chainOver) == failed \/ ~ok

Remembers(ok, chainOver) == ~chainOver /\ (failed \/ ~ok)

\* The pass under way is over: its catch-up begins at once, or is refused.
PassOver(ok, st, ag, ab, ln) ==
    LET over == ~CatchesUp(ok, st)
    IN /\ Released(ok, over)
       /\ trailing' = FALSE /\ active' = ~over
       /\ failed' = Remembers(ok, over)
       /\ \/ ~over /\ Begin(st, ag, ab, ln) /\ owed' = FALSE
          \/ /\ over
             /\ stage' = st /\ age' = ag /\ aborted' = ab /\ lane' = ln
             /\ catchUp' = FALSE /\ shown' = FALSE
             /\ owed' = (owed /\ ~(trailing /\ Refuses(st)))
             /\ UNCHANGED <<spent, rounds>>
       /\ UNCHANGED <<due, hung>>

-----------------------------------------------------------------------------
(* A tick or a poke. *)

Joins(c) ==
    /\ active
    /\ caller' = [caller EXCEPT ![c] = "joined"]
    /\ trailing' = TRUE /\ owed' = TRUE
    /\ UNCHANGED <<active, failed, catchUp, flight, shown>>

Leads(c) ==
    /\ ~active /\ ~Refuses(stage)
    /\ caller' = [caller EXCEPT ![c] = "leads"]
    /\ Begin(stage, age, aborted, lane)
    /\ active' = TRUE /\ owed' = FALSE
    /\ UNCHANGED <<trailing, failed, hung>>

\* Mutant: the start is noted before the check.
Refused_mutant(c) ==
    /\ ~active /\ Refuses(stage)
    /\ caller' = [caller EXCEPT ![c] = "tail"]
    /\ owed' = FALSE /\ shown' = TRUE
    /\ UNCHANGED <<active, trailing, failed, catchUp, flight>>

\* Refused, and not an error: the caller goes on to its tail.
Refused(c) ==
    /\ ~active /\ Refuses(stage)
    /\ caller' = [caller EXCEPT ![c] = "tail"]
    /\ owed' = FALSE
    /\ UNCHANGED <<active, trailing, failed, catchUp, flight, shown>>

Call(c) ==
    /\ caller[c] = "idle" /\ due[c] /\ due' = [due EXCEPT ![c] = FALSE]
    /\ Joins(c) \/ Leads(c) \/ Refused(c)
    /\ UNCHANGED troubles

Tail(c) ==
    /\ caller[c] = "tail" /\ caller' = [caller EXCEPT ![c] = "idle"]
    /\ UNCHANGED <<due, active, trailing, failed, catchUp, owed, flight, shown, troubles>>

-----------------------------------------------------------------------------
(* The lanes: runVisibleLane, runResearchLane and the rounds of runLimited. *)

LaneStep(p, l, to) ==
    /\ lane' = [lane EXCEPT ![p] = [lane[p] EXCEPT ![l] = to]]
    /\ spent' = [spent EXCEPT ![p] = [spent[p] EXCEPT ![l] = 0]]
    /\ hung' = [hung EXCEPT ![p] = @ \ {l}]
    /\ UNCHANGED <<pool, stage, age, aborted, shown, troubles>>

\* claimDue returns: nothing, or rows.  An aborted lane hands none of them out.
Claimed(p, l) ==
    /\ lane[p][l] = "claim"
    /\ \/ /\ LaneStep(p, l, "done")
          /\ rounds' = [rounds EXCEPT ![p] = IF l = "visible" THEN 0 ELSE rounds[p]]
       \/ ~aborted[p] /\ LaneStep(p, l, "round") /\ UNCHANGED rounds

\* A round of handlers is over, each done or past its deadline.
VisibleRound(p) ==
    /\ lane[p]["visible"] = "round"
    /\ \/ /\ aborted[p] \/ rounds[p] + 1 >= ROUNDS
          /\ rounds' = [rounds EXCEPT ![p] = 0] /\ LaneStep(p, "visible", "done")
       \/ /\ ~aborted[p] /\ rounds[p] + 1 < ROUNDS
          /\ rounds' = [rounds EXCEPT ![p] = rounds[p] + 1] /\ LaneStep(p, "visible", "claim")

ResearchRound(p) ==
    /\ lane[p]["research"] = "round"
    /\ LaneStep(p, "research", "done")
    /\ UNCHANGED rounds

LaneReturns(p, l) ==
    /\ stage[p] # "none"
    /\ \/ Claimed(p, l)
       \/ l = "visible" /\ VisibleRound(p)
       \/ l = "research" /\ ResearchRound(p)

\* A database call does not return for as long as it pleases.
Hangs(p, l) ==
    /\ troubles < MaxTroubles /\ troubles' = troubles + 1
    /\ stage[p] # "none" /\ lane[p][l] # "done" /\ l \notin hung[p]
    /\ hung' = [hung EXCEPT ![p] = @ \cup {l}]
    /\ UNCHANGED <<pool, stage, age, aborted, lane, spent, rounds, shown>>

-----------------------------------------------------------------------------
(* How a sweep ends. *)

Gone(p)  == [stage EXCEPT ![p] = "none"]
Timed(p) == [age EXCEPT ![p] = 0]                \* its timer is cleared or set anew

\* Both lanes are done: the race is won, or an abandoned sweep has settled.
Settles(p) ==
    /\ stage[p] # "none" /\ Settled(p)
    /\ IF stage[p] = "running"
       THEN PassOver(TRUE, Gone(p), Timed(p), aborted, lane)
       ELSE /\ stage' = Gone(p) /\ age' = Timed(p) /\ aborted' = [aborted EXCEPT ![p] = FALSE]
            /\ UNCHANGED <<pool, lane, spent, rounds, hung, shown>>
    /\ UNCHANGED troubles

\* claimDue throws: Promise.all rejects while the other lane goes on.
Throws(p, l) ==
    /\ troubles < MaxTroubles /\ troubles' = troubles + 1
    /\ stage[p] \in {"running", "unsettled"} /\ lane[p][l] = "claim" /\ l \notin hung[p]
    /\ LET st == [stage EXCEPT ![p] = "orphaned"]
           ln == [lane EXCEPT ![p] = [lane[p] EXCEPT ![l] = "done"]]
       IN IF stage[p] = "running"
          THEN PassOver(FALSE, st, Timed(p), aborted, ln)
          ELSE /\ stage' = st /\ age' = Timed(p) /\ lane' = ln
               /\ UNCHANGED <<pool, aborted, spent, rounds, hung, shown>>

\* Mutant: the lanes are not told.
Abandon_mutant(p) ==
    /\ stage[p] = "running" /\ age[p] = TIMEOUT /\ ~Settled(p)
    /\ PassOver(FALSE, [stage EXCEPT ![p] = "unsettled"], Timed(p), aborted, lane)
    /\ UNCHANGED troubles

\* The sweep's timer: the lanes are told to stop, the callers that it failed.
Abandon(p) ==
    /\ stage[p] = "running" /\ age[p] = TIMEOUT /\ ~Settled(p)
    /\ PassOver(FALSE, [stage EXCEPT ![p] = "unsettled"], Timed(p),
                [aborted EXCEPT ![p] = TRUE], lane)
    /\ UNCHANGED troubles

\* Mutant: the timer does not take the sweep out of the set.
Forget_mutant(p) == FALSE /\ UNCHANGED vars

\* The grace timer: dispatch starts again without it.
Forget(p) ==
    /\ stage[p] = "unsettled" /\ age[p] = GRACE /\ ~Settled(p)
    /\ stage' = [stage EXCEPT ![p] = "forgotten"] /\ age' = Timed(p)
    /\ UNCHANGED <<pool, aborted, lane, spent, rounds, hung, shown, troubles>>

-----------------------------------------------------------------------------
\* A minute passes when no timer is due and nothing that answers is outstanding.
Quiet(p) ==
    /\ ~Settled(p)
    /\ stage[p] = "running" => age[p] < TIMEOUT
    /\ stage[p] = "unsettled" => age[p] < GRACE
    /\ \A l \in Lanes \ hung[p] :
          /\ lane[p][l] # "claim"
          /\ lane[p][l] = "round" => spent[p][l] < ITEM

Minute ==
    /\ \A p \in InFlight : Quiet(p)
    /\ age' = [p \in Sweeps |-> IF stage[p] \in {"running", "unsettled"}
                                THEN age[p] + 1 ELSE age[p]]
    /\ spent' = [p \in Sweeps |-> [l \in Lanes |->
                   IF lane[p][l] = "round" /\ l \notin hung[p]
                   THEN spent[p][l] + 1 ELSE spent[p][l]]]
    /\ due' = [c \in Callers |-> TRUE]
    /\ UNCHANGED <<caller, active, trailing, failed, catchUp, owed, stage, aborted,
                   lane, rounds, hung, shown, troubles>>

Answers == \E p \in Sweeps : \E l \in Lanes \ hung[p] : LaneReturns(p, l)
Timers  == \E p \in Sweeps : Settles(p) \/ Abandon(p) \/ Forget(p)

Next ==
    \/ \E c \in Callers : Call(c) \/ Tail(c)
    \/ \E p \in Sweeps, l \in Lanes : LaneReturns(p, l) \/ Hangs(p, l) \/ Throws(p, l)
    \/ Timers
    \/ Minute

Spec == Init /\ [][Next]_vars

\* The cron tick comes every minute and its tail ends; a database call that hangs
\* may never return.  Nothing is assumed of pokes.
Fairness ==
    /\ \A c \in Ticks : WF_vars(Call(c))
    /\ \A c \in Callers : WF_vars(Tail(c))
    /\ WF_vars(Answers) /\ WF_vars(Timers) /\ WF_vars(Minute)

FairSpec == Spec /\ Fairness

-----------------------------------------------------------------------------
(* Properties *)

\* A call that joined a pass too late to be seen by it is owed the pass that
\* follows at once, whatever became of the first.
OwedIsNext == owed => active /\ trailing

\* Health calls a sweep running only when drainAll still counts on one, and it
\* misses none but one that began in the millisecond of the last finish.  That is
\* a catch-up here; a call that leads in that very millisecond, which the model
\* puts after it, is missed as well.
HealthTells ==
    LET known == {p \in Sweeps : stage[p] \in {"running", "unsettled"}}
        running == shown \/ \E p \in Sweeps : stage[p] = "unsettled"
    IN /\ running => known # {}
       /\ known # {} => running \/ catchUp

\* "A new sweep is refused rather than stacked on top of stuck work"
\* (docs/agent.md): as long as no database call hangs or throws, however slow the
\* handlers are, an abandoned sweep is over before it is forgotten.
NotStacked == troubles = 0 => Cardinality(InFlight) <= MAX_ABANDONED

\* Sweeps that hang, one after the other, do not end dispatching.
PassesGoOn == []<>(\E p \in Sweeps : stage[p] = "running")

\* Once passes end in time again, ticks and pokes come to their tails again.
PassFails == \E p \in Sweeps : stage[p] = "running" /\ stage'[p] \in {"unsettled", "orphaned"}
TailRuns  == \E c \in Callers : caller[c] = "tail" /\ caller'[c] = "idle"
TailsResume == <>[][~PassFails]_vars => []<><<TailRuns>>_vars
=============================================================================
