----------------------------- MODULE TaskQueue -----------------------------
(***************************************************************************)
(* The work queue of the agent: the rows of the "agentTask" table and what *)
(* may happen to a row (apps/agent/agent/lib/tasks.ts, the writes of       *)
(* lib/stale-tasks.ts and AgentTriggerService.enqueue).                    *)
(*                                                                         *)
(* This module is the promise of the queue.  It leaves out who takes a     *)
(* step and why; ResearchLane adds the dispatchers, sessions and sweeps,   *)
(* and is shown to take only the steps described here.                     *)
(*                                                                         *)
(* Time is kept as an order.  leasedUntil is "none" (NULL), "live" (in the *)
(* future) or "expired" (in the past); dueAt is the boolean due.           *)
(***************************************************************************)
EXTENDS Naturals, FiniteSets

CONSTANTS Tasks,         \* the row ids that may be created
          Subjects,      \* the contacts and companies a row may name
          Kinds,         \* the task kinds in play
          NoSubject,     \* the subject of a row that does not exist yet
          MAX_ATTEMPTS   \* how many times a row is handed out

ASSUME QueueConstants ==
    /\ MAX_ATTEMPTS \in Nat \ {0}
    /\ NoSubject \notin Subjects
    /\ "none" \notin Kinds

VARIABLE task   \* task[t] is the row with id t

States   == {"absent", "open", "finished"}      \* open: finishedAt IS NULL
Leases   == {"none", "live", "expired"}
Outcomes == {"none", "ran", "stopped", "retired", "landed"}

Row == [state    : States,
        kind     : Kinds \cup {"none"},
        subject  : Subjects \cup {NoSubject},
        attempts : 0 .. MAX_ATTEMPTS,
        due      : BOOLEAN,
        lease    : Leases,
        outcome  : Outcomes]

NoRow == [state |-> "absent", kind |-> "none", subject |-> NoSubject,
          attempts |-> 0, due |-> FALSE, lease |-> "none", outcome |-> "none"]

TypeOK == task \in [Tasks -> Row]

Init == task = [t \in Tasks |-> NoRow]

-----------------------------------------------------------------------------
Open(t)     == task[t].state = "open"
Finished(t) == task[t].state = "finished"
Leased(t)   == task[t].lease = "live"

\* An open row of kind k about s: what every de-duplication looks for.
Booked(k, s) == \E t \in Tasks : Open(t) /\ task[t].kind = k /\ task[t].subject = s

Claimable(t, kinds) ==
    /\ Open(t) /\ task[t].due /\ ~Leased(t)
    /\ task[t].attempts < MAX_ATTEMPTS
    /\ task[t].kind \in kinds

\* Mutant: one attempt too many before giving up.
Exhausted_mutant(t) == Open(t) /\ ~Leased(t) /\ task[t].attempts > MAX_ATTEMPTS

Exhausted(t) == Open(t) /\ ~Leased(t) /\ task[t].attempts >= MAX_ATTEMPTS

\* INSERT INTO "agentTask": a new row, waiting, due now or later.
Insert(t, k, s, due) ==
    /\ task[t].state = "absent"
    /\ task' = [task EXCEPT ![t] =
                  [state |-> "open", kind |-> k, subject |-> s, attempts |-> 0,
                   due |-> due, lease |-> "none", outcome |-> "none"]]

\* enqueue: the look-up and the insert are one transaction under an advisory
\* lock on the kind and the subject.
Enqueue(t, k, s) == ~Booked(k, s) /\ Insert(t, k, s, TRUE)

\* scheduleTask on a row it found open: the row is moved to a later day.
Postpone(t) == Open(t) /\ task' = [task EXCEPT ![t].due = FALSE]

\* claimDue: one statement leases every row of S and counts the attempt.
Claim(S, kinds) ==
    /\ S # {} /\ \A t \in S : Claimable(t, kinds)
    /\ task' = [t \in Tasks |->
                  IF t \in S
                  THEN [task[t] EXCEPT !.lease = "live", !.attempts = @ + 1]
                  ELSE task[t]]

\* Every closing write sets finishedAt and the outcome of the rows of S.  The
\* table keeps leasedUntil and dueAt of a closed row; nothing reads them again
\* and the model forgets them.
Close(S, outcome) ==
    task' = [t \in Tasks |->
               IF t \in S
               THEN [task[t] EXCEPT !.state = "finished", !.outcome = outcome,
                                    !.lease = "none", !.due = FALSE]
               ELSE task[t]]

\* completeTask: whoever reports first closes the row, leased or not.
Complete(t, outcome) == Open(t) /\ Close({t}, outcome)

\* retireExhausted: rows with no attempt left and no live lease.
Retire(S) == S # {} /\ (\A t \in S : Exhausted(t)) /\ Close(S, "retired")

\* runSweep, "landed": rows whose record turned out to be up to date.
Land(S) ==
    /\ S # {} /\ \A t \in S : Open(t) /\ ~Leased(t) /\ task[t].attempts > 0
    /\ Close(S, "landed")

\* runSweep, "dead": an expired lease is cleared.
Release(S) ==
    /\ S # {} /\ \A t \in S : Open(t) /\ task[t].lease = "expired"
    /\ task' = [t \in Tasks |->
                  IF t \in S THEN [task[t] EXCEPT !.lease = "none"] ELSE task[t]]

\* Time: leasedUntil, or dueAt, falls into the past.
Lapse(t)   == Open(t) /\ Leased(t) /\ task' = [task EXCEPT ![t].lease = "expired"]
ComeDue(t) == Open(t) /\ ~task[t].due /\ task' = [task EXCEPT ![t].due = TRUE]

-----------------------------------------------------------------------------
QueueStep ==
    \/ \E t \in Tasks, k \in Kinds, s \in Subjects, due \in BOOLEAN : Insert(t, k, s, due)
    \/ \E t \in Tasks : Postpone(t)
    \/ \E S \in SUBSET Tasks : Claim(S, Kinds)
    \/ \E t \in Tasks, o \in {"ran", "stopped"} : task[t].attempts > 0 /\ Complete(t, o)
    \/ \E S \in SUBSET Tasks : Retire(S)
    \/ \E S \in SUBSET Tasks : Land(S)
    \/ \E S \in SUBSET Tasks : Release(S)
    \/ \E t \in Tasks : Lapse(t)
    \/ \E t \in Tasks : ComeDue(t)

QueueSpec == Init /\ [][QueueStep]_task
=============================================================================
