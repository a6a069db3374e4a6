------------------------------ MODULE AgentRuns ------------------------------
(***************************************************************************)
(* The runs of one deployed agent: how they are queued, handed to eve, put *)
(* before a person, taken back, timed out, stopped and ended, with every   *)
(* process that may do so at once.  The sources are                        *)
(* apps/agent/agent/lib/custom-agent-dispatch.ts, lib/run-runtime.ts,      *)
(* hooks/audit.ts, channels/crm.ts and, in the API,                        *)
(* agent/agent-runs.service.ts and agent/agent-definitions.service.ts.     *)
(*                                                                         *)
(* A transaction that locks the run (or the agent) first is one step; what *)
(* is read before a lock is a step of its own.  The age of startedAt is    *)
(* "stale" past the delivery lease and "overrun" past the execution        *)
(* timeout.  What a run does to its actions is in RunActions; here only    *)
(* the decision about its waiting Slack post is kept, and the poster that  *)
(* resumes a run claims the action in the same step.                       *)
(***************************************************************************)
EXTENDS Naturals

CONSTANTS Runs,         \* row ids; createdAt orders them as numbers
          Deliveries,   \* dispatchAgentRun calls in flight
          Turns,        \* turns eve has accepted
          LateCommits,  \* an event run's insert may still be open when others commit
          Bridge,       \* AGENT_BRIDGE_SECRET is set
          MaxCrashes    \* bound: how often the agent stops

ASSUME RunConstants ==
    /\ Runs \subseteq Nat
    /\ LateCommits \in BOOLEAN /\ Bridge \in BOOLEAN /\ MaxCrashes \in Nat
    /\ "none" \notin Turns /\ 0 \notin Runs

VARIABLES agent,      \* agentDefinition.status
          run,        \* run[r]: the row with id r
          delivery,   \* delivery[d]: a dispatchAgentRun call
          turn,       \* turn[u]: a turn of eve, whose id is the session id
          overdue,    \* runs a pass of timeOutOverrunningRuns is about to fail
          posting,    \* runs resumed by postApproved that have not been finished
          crashes,
          late        \* history: runs that became visible after a younger one was taken up

procs == <<delivery, turn, overdue, posting>>
vars  == <<agent, run, delivery, turn, overdue, posting, crashes, late>>

Statuses == {"absent", "inserting", "QUEUED", "RUNNING", "WAITING_FOR_APPROVAL",
             "SUCCEEDED", "FAILED", "CANCELLED"}

Run      == [status : Statuses, session : Turns \cup {"none"},
             age : {"none", "fresh", "stale", "overrun"},
             approval : {"none", "PENDING", "APPROVED", "REJECTED"}]
Delivery == [pc : {"idle", "picked", "claimed", "accepted"}, run : Runs \cup {0},
             turn : Turns \cup {"none"}]
Turn     == [pc : {"unused", "accepted", "finishing", "over"}, run : Runs \cup {0}]

\* At rest a delivery and a turn hold no run, written 0.
Idle     == [pc |-> "idle", run |-> 0, turn |-> "none"]
Gone     == [pc |-> "over", run |-> 0]
NoRow    == [status |-> "absent", session |-> "none", age |-> "none", approval |-> "none"]

TypeOK ==
    /\ agent \in {"LIVE", "PAUSED", "ARCHIVED", "DELETED"}
    /\ run \in [Runs -> Run]
    /\ delivery \in [Deliveries -> Delivery]
    /\ turn \in [Turns -> Turn]
    /\ overdue \subseteq Runs
    /\ posting \subseteq Runs
    /\ crashes \in 0 .. MaxCrashes
    /\ late \subseteq Runs
    /\ \A r \in Runs : run[r].status \in {"absent", "inserting", "QUEUED"} =>
          run[r].age = "none" /\ run[r].session = "none"

Init ==
    /\ agent = "LIVE"
    /\ run = [r \in Runs |-> NoRow]
    /\ delivery = [d \in Deliveries |-> Idle]
    /\ turn = [u \in Turns |-> [pc |-> "unused", run |-> 0]]
    /\ overdue = {} /\ posting = {} /\ crashes = 0 /\ late = {}

-----------------------------------------------------------------------------
Status(r) == run[r].status
Ended(r)  == Status(r) \in {"SUCCEEDED", "FAILED", "CANCELLED"}
Active(r) == Status(r) \in {"RUNNING", "WAITING_FOR_APPROVAL"}
Cancellable(r) == Status(r) \in {"QUEUED", "RUNNING", "WAITING_FOR_APPROVAL"}

\* Rows as the updates of the code leave them.  No step modelled here reads the
\* other columns of an ended run, and the model forgets them.
Moved(row, status) == [row EXCEPT !.status = status]
Over(end)    == [NoRow EXCEPT !.status = end]
Begun(row)   == [[row EXCEPT !.status = "RUNNING"] EXCEPT !.age = "fresh"]
Linked(row, u) == [row EXCEPT !.session = u]
Resumed(row) == [Begun(row) EXCEPT !.approval = "none"]
Waiting(row) == [[row EXCEPT !.status = "WAITING_FOR_APPROVAL"] EXCEPT !.approval = "PENDING"]
Requeued(row) == [[row EXCEPT !.status = "QUEUED"] EXCEPT !.age = "none"]

Set(r, row) == run' = [run EXCEPT ![r] = row]

\* Mutant: a waiting run is failed like any other.
Failable_mutant(r) == Cancellable(r)

\* failRun leaves an ended run alone, and one whose post a person has yet to
\* decide on.
Failable(r) ==
    Cancellable(r) /\ ~(Status(r) = "WAITING_FOR_APPROVAL" /\ run[r].approval = "PENDING")

FailRun(r) == IF Failable(r) THEN Set(r, Over("FAILED")) ELSE UNCHANGED run

\* Mutant: no look at the status under the lock.
CancelRun_mutant(r) == Set(r, Over("CANCELLED"))

CancelRun(r) == IF Cancellable(r) THEN Set(r, Over("CANCELLED")) ELSE UNCHANGED run

\* finishRun, and failRun when it throws.  A run whose manifest declares an
\* action it did not perform ends as FAILED.
FinishRun(r) ==
    IF Status(r) = "RUNNING"
    THEN \E end \in {"SUCCEEDED", "FAILED"} : Set(r, Over(end))
    ELSE FailRun(r)

-----------------------------------------------------------------------------
(* Queueing.  createdAt is taken when the row is written, and rows become  *)
(* visible when the transaction commits.                                   *)

Newest(r) == Status(r) = "absent" /\ \A q \in Runs : Status(q) # "absent" => q < r

\* runNow and retryRun (free) and queueDueAgentRuns, under the agent's lock.
QueueRun(r, manual) ==
    /\ agent = "LIVE" /\ Newest(r)
    /\ manual => \A q \in Runs : ~Cancellable(q)
    /\ Set(r, Moved(run[r], "QUEUED"))
    /\ UNCHANGED <<agent, procs, crashes, late>>

\* queueEventAgentRuns asks for a live agent without locking it.
InsertEventRun(r) ==
    /\ agent = "LIVE" /\ Newest(r)
    /\ Set(r, Moved(run[r], IF LateCommits THEN "inserting" ELSE "QUEUED"))
    /\ UNCHANGED <<agent, procs, crashes, late>>

\* A run that is active, or that a delivery or a turn holds.
Touched(r) ==
    \/ Active(r)
    \/ \E d \in Deliveries : delivery[d].run = r
    \/ \E u \in Turns : turn[u].run = r

CommitEventRun(r) ==
    /\ Status(r) = "inserting" /\ Set(r, Moved(run[r], "QUEUED"))
    /\ late' = IF \E q \in Runs : r < q /\ Touched(q) /\ ~Ended(q)
               THEN late \cup {r} ELSE late
    /\ UNCHANGED <<agent, procs, crashes>>

-----------------------------------------------------------------------------
(* Delivery: pendingAgentRunIds and dispatchAgentRun. *)

\* Mutant: no order by createdAt.
Oldest_mutant(r) == Status(r) = "QUEUED"

Oldest(r) == Status(r) = "QUEUED" /\ \A q \in Runs : Status(q) = "QUEUED" => r <= q

Runnable(r) == agent = "LIVE" /\ (\A q \in Runs : ~Active(q)) /\ Oldest(r)

PickRun(d, r) ==
    /\ delivery[d].pc = "idle" /\ Runnable(r)
    /\ delivery' = [delivery EXCEPT ![d] = [pc |-> "picked", run |-> r, turn |-> "none"]]
    /\ UNCHANGED <<agent, run, turn, overdue, posting, crashes, late>>

\* A dependency of its version is missing: the run fails at once.
DependencyFails(r) ==
    /\ Runnable(r) /\ FailRun(r)
    /\ UNCHANGED <<agent, procs, crashes, late>>

ClaimRun(d) ==
    /\ delivery[d].pc = "picked"
    /\ LET r == delivery[d].run
       IN  IF agent = "LIVE" /\ Status(r) = "QUEUED" /\ \A q \in Runs \ {r} : ~Active(q)
           THEN /\ Set(r, Begun(run[r]))
                /\ delivery' = [delivery EXCEPT ![d].pc = "claimed"]
           ELSE /\ delivery' = [delivery EXCEPT ![d] = Idle]
                /\ UNCHANGED run
    /\ UNCHANGED <<agent, turn, overdue, posting, crashes, late>>

\* eve accepts the message, and the turn is on its way before send returns.
SendAccepted(d, u) ==
    /\ delivery[d].pc = "claimed" /\ turn[u].pc = "unused"
    /\ turn' = [turn EXCEPT ![u] = [pc |-> "accepted", run |-> delivery[d].run]]
    /\ delivery' = [delivery EXCEPT ![d] =
                    [pc |-> "accepted", run |-> delivery[d].run, turn |-> u]]
    /\ UNCHANGED <<agent, run, overdue, posting, crashes, late>>

LinkSession(d) ==
    /\ delivery[d].pc = "accepted"
    /\ delivery' = [delivery EXCEPT ![d] = Idle]
    /\ LET r == delivery[d].run
       IN  IF Status(r) = "RUNNING" THEN Set(r, Linked(run[r], delivery[d].turn))
                                    ELSE UNCHANGED run
    /\ UNCHANGED <<agent, turn, overdue, posting, crashes, late>>

\* eve refuses, or answers no more.
SendFails(d) ==
    /\ delivery[d].pc = "claimed"
    /\ delivery' = [delivery EXCEPT ![d] = Idle]
    /\ FailRun(delivery[d].run)
    /\ UNCHANGED <<agent, turn, overdue, posting, crashes, late>>

-----------------------------------------------------------------------------
(* The turn, as the audit hook, its tools and the channel report it. *)

SessionStarted(u) ==
    /\ turn[u].pc = "accepted"
    /\ LET r == turn[u].run
       IN  IF Status(r) \in {"QUEUED", "RUNNING"}
           THEN Set(r, Linked(IF run[r].age = "none" THEN Begun(run[r])
                                                     ELSE Moved(run[r], "RUNNING"), u))
           ELSE UNCHANGED run
    /\ UNCHANGED <<agent, procs, crashes, late>>

RequestApproval(u) ==
    /\ turn[u].pc = "accepted" /\ Status(turn[u].run) = "RUNNING"
    /\ Set(turn[u].run, Waiting(run[turn[u].run]))
    /\ UNCHANGED <<agent, procs, crashes, late>>

\* session.completed reads the row, then finishes it.
SessionCompleted(u) ==
    /\ turn[u].pc = "accepted"
    /\ turn' = [turn EXCEPT ![u] = IF Status(turn[u].run) = "RUNNING"
                                   THEN [pc |-> "finishing", run |-> turn[u].run]
                                   ELSE Gone]
    /\ UNCHANGED <<agent, run, delivery, overdue, posting, crashes, late>>

FinishTurn(u) ==
    /\ turn[u].pc = "finishing"
    /\ turn' = [turn EXCEPT ![u] = Gone]
    /\ FinishRun(turn[u].run)
    /\ UNCHANGED <<agent, delivery, overdue, posting, crashes, late>>

\* turn.failed or session.failed, and turn.cancelled.
TurnFails(u) ==
    /\ turn[u].pc = "accepted"
    /\ turn' = [turn EXCEPT ![u] = Gone]
    /\ FailRun(turn[u].run)
    /\ UNCHANGED <<agent, delivery, overdue, posting, crashes, late>>

TurnCancelled(u) ==
    /\ turn[u].pc = "accepted"
    /\ turn' = [turn EXCEPT ![u] = Gone]
    /\ CancelRun(turn[u].run)
    /\ UNCHANGED <<agent, delivery, overdue, posting, crashes, late>>

-----------------------------------------------------------------------------
(* A person: cancelRun and decideApproval. *)

Stop(r) ==
    /\ Cancellable(r) /\ CancelRun(r)
    /\ UNCHANGED <<agent, procs, crashes, late>>

Decide(r, decision) ==
    /\ Status(r) = "WAITING_FOR_APPROVAL" /\ run[r].approval = "PENDING"
    /\ Set(r, [run[r] EXCEPT !.approval = decision])
    /\ UNCHANGED <<agent, procs, crashes, late>>

\* settleSlackApprovals is called by drainAgentRuns, and that only by the
\* routes the API pokes with the bridge secret.
SettleRejected(r) ==
    /\ Bridge /\ Status(r) = "WAITING_FOR_APPROVAL" /\ run[r].approval = "REJECTED"
    /\ CancelRun(r)
    /\ UNCHANGED <<agent, procs, crashes, late>>

\* Mutant: only for an agent that is live.
ResumeApproved_mutant(r) ==
    /\ agent = "LIVE"
    /\ Bridge /\ Status(r) = "WAITING_FOR_APPROVAL" /\ run[r].approval = "APPROVED"
    /\ Set(r, Resumed(run[r]))
    /\ posting' = posting \cup {r}
    /\ UNCHANGED <<agent, delivery, turn, overdue, crashes, late>>

ResumeApproved(r) ==
    /\ Bridge /\ Status(r) = "WAITING_FOR_APPROVAL" /\ run[r].approval = "APPROVED"
    /\ Set(r, Resumed(run[r]))
    /\ posting' = posting \cup {r}
    /\ UNCHANGED <<agent, delivery, turn, overdue, crashes, late>>

\* postApproved: what throws before the run is resumed ends in failRun.
ApprovedFails(r) ==
    /\ Bridge /\ Status(r) = "WAITING_FOR_APPROVAL" /\ run[r].approval = "APPROVED"
    /\ FinishRun(r)
    /\ UNCHANGED <<agent, procs, crashes, late>>

FinishApproved(r) ==
    /\ r \in posting /\ posting' = posting \ {r}
    /\ FinishRun(r)
    /\ UNCHANGED <<agent, delivery, turn, overdue, crashes, late>>

-----------------------------------------------------------------------------
(* Recovery, on every tick: timeOutOverrunningRuns and recoverAgentRuns. *)

Overrun(r) == Status(r) = "RUNNING" /\ run[r].session # "none" /\ run[r].age = "overrun"

FindOverrun(r) ==
    /\ Overrun(r) /\ r \notin overdue
    /\ overdue' = overdue \cup {r}
    /\ UNCHANGED <<agent, run, delivery, turn, posting, crashes, late>>

TimeOut(r) ==
    /\ r \in overdue /\ overdue' = overdue \ {r}
    /\ FailRun(r)
    /\ UNCHANGED <<agent, delivery, turn, posting, crashes, late>>

\* Mutant: the recovery skips runs whose agent is not deployed any more.
Undelivered_mutant(r) ==
    /\ agent \in {"LIVE", "PAUSED"}
    /\ Status(r) = "RUNNING" /\ run[r].session = "none" /\ run[r].age \in {"stale", "overrun"}

Undelivered(r) ==
    Status(r) = "RUNNING" /\ run[r].session = "none" /\ run[r].age \in {"stale", "overrun"}

RecoverRun(r) ==
    /\ Undelivered(r)
    /\ Set(r, IF agent \in {"LIVE", "PAUSED"} THEN Requeued(run[r])
                                              ELSE Over("CANCELLED"))
    /\ UNCHANGED <<agent, procs, crashes, late>>

-----------------------------------------------------------------------------
(* The agent: changeStatus and deploy, and remove. *)

Transitions ==
    {<<"LIVE", "PAUSED">>, <<"PAUSED", "LIVE">>, <<"LIVE", "ARCHIVED">>,
     <<"PAUSED", "ARCHIVED">>, <<"ARCHIVED", "PAUSED">>, <<"ARCHIVED", "LIVE">>}

ChangeStatus(to) ==
    /\ <<agent, to>> \in Transitions /\ agent' = to
    /\ UNCHANGED <<run, procs, crashes, late>>

\* What remove cancels; a run that has a session is left to end by itself.
Withdrawn(r) ==
    \/ Status(r) \in {"QUEUED", "WAITING_FOR_APPROVAL"}
    \/ Status(r) = "RUNNING" /\ run[r].session = "none"

Remove ==
    /\ agent # "DELETED" /\ agent' = "DELETED"
    /\ run' = [r \in Runs |-> IF Withdrawn(r) THEN Over("CANCELLED") ELSE run[r]]
    /\ UNCHANGED <<procs, crashes, late>>

-----------------------------------------------------------------------------
(* Time passes, and the agent process stops. *)

\* An insert is open for seconds at most (Prisma's transaction timeout), so
\* no startedAt grows old meanwhile.
Age(r) ==
    /\ run[r].age \in {"fresh", "stale"} /\ \A q \in Runs : Status(q) # "inserting"
    /\ Set(r, [run[r] EXCEPT !.age = IF @ = "fresh" THEN "stale" ELSE "overrun"])
    /\ UNCHANGED <<agent, procs, crashes, late>>

\* eve's sessions are durable and go on.
AgentStops ==
    /\ crashes < MaxCrashes /\ crashes' = crashes + 1
    /\ delivery' = [d \in Deliveries |-> Idle]
    /\ overdue' = {} /\ posting' = {}
    /\ UNCHANGED <<agent, run, turn, late>>

-----------------------------------------------------------------------------
RunStep(r) ==
    \/ \E manual \in BOOLEAN : QueueRun(r, manual)
    \/ InsertEventRun(r) \/ CommitEventRun(r) \/ DependencyFails(r)
    \/ Stop(r) \/ \E decision \in {"APPROVED", "REJECTED"} : Decide(r, decision)
    \/ SettleRejected(r) \/ ResumeApproved(r) \/ ApprovedFails(r) \/ FinishApproved(r)
    \/ FindOverrun(r) \/ TimeOut(r) \/ RecoverRun(r) \/ Age(r)

DeliveryStep(d) ==
    \/ \E r \in Runs : PickRun(d, r)
    \/ ClaimRun(d) \/ LinkSession(d) \/ SendFails(d)
    \/ \E u \in Turns : SendAccepted(d, u)

TurnStep(u) ==
    \/ SessionStarted(u) \/ RequestApproval(u) \/ SessionCompleted(u)
    \/ FinishTurn(u) \/ TurnFails(u) \/ TurnCancelled(u)

Next ==
    \/ \E r \in Runs : RunStep(r)
    \/ \E d \in Deliveries : DeliveryStep(d)
    \/ \E u \in Turns : TurnStep(u)
    \/ \E to \in {"LIVE", "PAUSED", "ARCHIVED"} : ChangeStatus(to)
    \/ Remove \/ AgentStops

Spec == Init /\ [][Next]_vars

\* Time passes and every tick recovers and times out; every poke of the API
\* settles what was decided.  Nothing is assumed of eve, a send or a person.
FairSpec ==
    /\ Spec
    /\ \A r \in Runs :
          /\ WF_vars(CommitEventRun(r)) /\ WF_vars(Age(r))
          /\ WF_vars(FindOverrun(r)) /\ WF_vars(TimeOut(r)) /\ WF_vars(RecoverRun(r))
          /\ WF_vars(SettleRejected(r)) /\ WF_vars(ResumeApproved(r))

-----------------------------------------------------------------------------
(* Properties. *)

\* The agent works on one run at a time, though deliveries hang, are recovered
\* and repeated, and eve reports the start of a turn late.  The exception is a run
\* of an event whose insert commits when a younger run has been taken up: if the
\* younger one is put back, the older is delivered and both may then run.
OneActive ==
    \A r, q \in Runs : Active(r) /\ Active(q) /\ r < q => r \in late

\* A run whose post a person has yet to decide on waits for that decision: a
\* failing turn, a late delivery error or the timeout do not end it.
PendingWaits ==
    [][\A r \in Runs :
          Status(r) = "WAITING_FOR_APPROVAL" /\ run[r].approval = "PENDING" =>
             Status(r)' \in {"WAITING_FOR_APPROVAL", "CANCELLED"}]_vars

\* The run keeps the promise of its status, whoever writes it.
Visible == [r \in Runs |-> IF Status(r) = "inserting" THEN "absent" ELSE Status(r)]
Life == INSTANCE RunLifecycle WITH status <- Visible
Lifecycle == Life!Spec

\* No run stays RUNNING for ever: it ends, is taken back, or waits for a person,
\* though sessions hang, deliveries are lost and the agent stops.
NoRunHangs == \A r \in Runs : Status(r) = "RUNNING" ~> Status(r) # "RUNNING"

\* A person's decision about a post is carried out, though sends hang and the
\* agent stops, as long as the bridge is there: its secret, for the schedule of
\* the agent never calls settleSlackApprovals.
DecisionSettled ==
    \A r \in Runs : Status(r) = "WAITING_FOR_APPROVAL" /\ run[r].approval # "PENDING"
                      ~> Status(r) # "WAITING_FOR_APPROVAL"
=============================================================================
