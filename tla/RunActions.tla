------------------------------ MODULE RunActions ------------------------------
(***************************************************************************)
(* What one run of a deployed agent does: the activities it creates and    *)
(* the Slack messages it posts, each behind a row of "agentAction" that is *)
(* claimed with a lease, and the approval a person gives or refuses.  The  *)
(* sources are apps/agent/agent/lib/run-runtime.ts, the approval part of   *)
(* lib/custom-agent-dispatch.ts and, in the API,                           *)
(* agent/agent-runs.service.ts.                                            *)
(*                                                                         *)
(* A call is one callId of eve, the idempotency key of its row; a step of  *)
(* eve that is repeated makes the same call again.  An execution is one    *)
(* passage of createRunActivity, postRunSlackMessage or postApproved, and  *)
(* each of its transactions and requests is a step.  The run has been      *)
(* delivered and has a session; AgentRuns has its life before.             *)
(***************************************************************************)
EXTENDS Naturals

CONSTANTS Notes, Posts,   \* calls of create_crm_activity and of post_slack_message
          Execs,          \* executions in flight
          NoActionTrigger,\* the trigger is one of noActionTriggerTypes
          MaxCrashes      \* bound: how often the agent stops

Calls == Notes \cup Posts

\* Calls are numbers from 1 on, posts in the order of plannedAt.
ASSUME ActionConstants ==
    /\ Calls \subseteq Nat \ {0} /\ Notes \cap Posts = {}
    /\ "none" \notin Execs
    /\ NoActionTrigger \in BOOLEAN /\ MaxCrashes \in Nat

VARIABLES asks,      \* the manifest's requiresApproval, which no step changes
          run,       \* agentRun.status
          excused,   \* agentRun.result holds noActionNeeded
          action,    \* action[c]: the row whose idempotencyKey ends in c
          exec,      \* exec[e]: an execution
          turn,      \* the turn of eve: live, finishing (session.completed has read the run), over
          notes,     \* activities with the id agent-action-<row>
          slack,     \* messages Slack holds; it drops a repeated client_msg_id
          unheard,   \* messages whose acceptance no execution ever heard of
          crashes

world == <<notes, slack, unheard>>
vars  == <<asks, run, excused, action, exec, turn, notes, slack, unheard, crashes>>

Row  == [status : {"absent", "PLANNED", "RUNNING", "SUCCEEDED", "FAILED", "CANCELLED"},
         approval : {"none", "PENDING", "APPROVED", "REJECTED"},
         holder : Execs \cup {"none"},   \* whose claimedAt is startedAt
         expired : BOOLEAN,              \* startedAt is older than ACTION_LEASE_MS
         external : BOOLEAN]             \* externalId is set
Exec == [pc : {"idle", "begun", "planned", "claimed", "held", "accepted", "outside", "failing",
               "settling", "finishing"},
         call : Calls \cup {0}]

NoRow == [status |-> "absent", approval |-> "none", holder |-> "none", expired |-> FALSE,
          external |-> FALSE]
Idle  == [pc |-> "idle", call |-> 0]

TypeOK ==
    /\ asks \in BOOLEAN /\ excused \in BOOLEAN
    /\ run \in {"RUNNING", "WAITING_FOR_APPROVAL", "SUCCEEDED", "FAILED", "CANCELLED"}
    /\ action \in [Calls -> Row]
    /\ exec \in [Execs -> Exec]
    /\ turn \in {"live", "finishing", "over"}
    /\ notes \subseteq Notes /\ slack \subseteq Posts /\ unheard \subseteq slack
    /\ crashes \in 0 .. MaxCrashes
    /\ \A e \in Execs : exec[e].pc # "idle" =>
          exec[e].call \in Calls /\ (exec[e].pc # "begun" => action[exec[e].call].status # "absent")

Init ==
    /\ asks \in BOOLEAN
    /\ run = "RUNNING" /\ excused = FALSE /\ turn = "live"
    /\ action = [c \in Calls |-> NoRow]
    /\ exec = [e \in Execs |-> Idle]
    /\ notes = {} /\ slack = {} /\ unheard = {} /\ crashes = 0

-----------------------------------------------------------------------------
Has(c, status) == action[c].status = status
Open(c)  == action[c].status \in {"PLANNED", "RUNNING"}
Ended    == run \in {"SUCCEEDED", "FAILED", "CANCELLED"}
Holds(e) == LET c == exec[e].call IN Has(c, "RUNNING") /\ action[c].holder = e

Goto(e, pc)  == exec' = [exec EXCEPT ![e] = [pc |-> pc, call |-> exec[e].call]]

\* Only an approved post is executed when the manifest asks for approval, and
\* postApproved then finishes the run.
Leave(e) == IF asks /\ exec[e].call \in Posts
            THEN Goto(e, "finishing") ELSE exec' = [exec EXCEPT ![e] = Idle]

Put(c, row) == action' = [action EXCEPT ![c] = row]
SetStatus(c, status) == Put(c, [action[c] EXCEPT !.status = status])

Done(row) == [[row EXCEPT !.status = "SUCCEEDED"] EXCEPT !.external = TRUE]
Claimed(row, e) == [[[row EXCEPT !.status = "RUNNING"] EXCEPT !.holder = e] EXCEPT !.expired = FALSE]

Requested(row) == [[row EXCEPT !.status = "PLANNED"] EXCEPT !.approval = "PENDING"]

\* A waiting run whose post is undecided is not failed.
HoldsPending == \E c \in Posts : Has(c, "PLANNED") /\ action[c].approval = "PENDING"
FailRun == run' = IF Ended \/ (run = "WAITING_FOR_APPROVAL" /\ HoldsPending)
                  THEN run ELSE "FAILED"

\* Mutant: a row that is under way counts as performed.
Performed_mutant(calls) == \E c \in calls : Has(c, "SUCCEEDED") \/ Has(c, "RUNNING")

\* requiredActionFailure finds a row of the declared type that succeeded.
Performed(calls) == \E c \in calls : Has(c, "SUCCEEDED")

\* The manifest declares both types.  finishRun, and failRun when it throws.
FinishRun(accepted) ==
    IF run = "RUNNING"
    THEN run' = IF accepted \/ (Performed(Notes) /\ Performed(Posts))
                THEN "SUCCEEDED" ELSE "FAILED"
    ELSE FailRun

\* cancelRun, here and in the API.
CancelRun ==
    IF Ended THEN UNCHANGED <<run, action>>
    ELSE /\ run' = "CANCELLED"
         /\ action' = [c \in Calls |-> IF Open(c) THEN [action[c] EXCEPT !.status = "CANCELLED"]
                                                  ELSE action[c]]

-----------------------------------------------------------------------------
(* A call of create_crm_activity, or of post_slack_message without approval. *)

\* The run is read, and so is the row: one that succeeded is only replayed.
BeginCall(e, c) ==
    /\ exec[e].pc = "idle" /\ turn = "live" /\ run = "RUNNING"
    /\ (c \in Posts => ~asks) /\ ~Has(c, "SUCCEEDED")
    /\ exec' = [exec EXCEPT ![e] = [pc |-> "begun", call |-> c]]
    /\ UNCHANGED <<asks, run, excused, action, turn, world, crashes>>

\* The row is created unless it is there.
PlanAction(e) ==
    /\ exec[e].pc = "begun" /\ Goto(e, "planned")
    /\ LET c == exec[e].call
       IN  IF Has(c, "absent") THEN SetStatus(c, "PLANNED") ELSE UNCHANGED action
    /\ UNCHANGED <<asks, run, excused, turn, world, crashes>>

Claimable(c) ==
    action[c].status \in {"PLANNED", "FAILED"} \/ (Has(c, "RUNNING") /\ action[c].expired)

\* claimRunAction.  It does not look at the run.
ClaimAction(e) ==
    /\ exec[e].pc = "planned"
    /\ LET c == exec[e].call
       IN  IF Claimable(c) THEN Put(c, Claimed(action[c], e)) /\ Goto(e, "claimed")
                           ELSE UNCHANGED action /\ Leave(e)
    /\ UNCHANGED <<asks, run, excused, turn, world, crashes>>

\* Under the run's lock the activity is written and its row closed, whoever
\* holds the claim.
WriteActivity(e) ==
    /\ exec[e].pc = "claimed" /\ exec[e].call \in Notes /\ run = "RUNNING"
    /\ notes' = notes \cup {exec[e].call}
    /\ Put(exec[e].call, Done(action[exec[e].call])) /\ Leave(e)
    /\ UNCHANGED <<asks, run, excused, turn, slack, unheard, crashes>>

-----------------------------------------------------------------------------
(* deliverSlackClaim. *)

HoldClaim(e) ==
    /\ exec[e].pc = "claimed" /\ exec[e].call \in Posts
    /\ run = "RUNNING" /\ Holds(e)
    /\ Goto(e, "held")
    /\ UNCHANGED <<asks, run, excused, action, turn, world, crashes>>

\* Slack takes the message, and the answer arrives or is lost.
SlackAccepts(e, heard) ==
    /\ exec[e].pc = "held"
    /\ slack' = slack \cup {exec[e].call}
    /\ IF heard THEN Goto(e, "accepted") /\ unheard' = unheard \ {exec[e].call}
                ELSE Goto(e, "failing") /\ unheard' = unheard \cup {exec[e].call}
    /\ UNCHANGED <<asks, run, excused, action, turn, notes, crashes>>

\* Mutant: an acceptance that comes after the claim was lost is forgotten.
RecordPost_mutant(e) ==
    /\ exec[e].pc = "accepted"
    /\ LET c == exec[e].call
       IN  IF Holds(e) THEN Put(c, Done(action[c])) /\ Leave(e)
                       ELSE UNCHANGED action /\ Goto(e, "failing")
    /\ UNCHANGED <<asks, run, excused, turn, world, crashes>>

RecordPost(e) ==
    /\ exec[e].pc = "accepted"
    /\ LET c == exec[e].call
       IN  IF Holds(e) THEN Put(c, Done(action[c])) /\ Leave(e)
                       ELSE UNCHANGED action /\ Goto(e, "outside")
    /\ UNCHANGED <<asks, run, excused, turn, world, crashes>>

\* recordDeliveryOutsideClaim: the message's id goes to a row of another state.
RecordOutside(e) ==
    /\ exec[e].pc = "outside" /\ Goto(e, "failing")
    /\ LET c == exec[e].call
       IN  Put(c, [action[c] EXCEPT !.external = TRUE])
    /\ UNCHANGED <<asks, run, excused, turn, world, crashes>>

-----------------------------------------------------------------------------
\* The run is not RUNNING, the claim is lost, or a step throws.
Refused(e) ==
    /\ exec[e].pc \in {"claimed", "held"} /\ Goto(e, "failing")
    /\ UNCHANGED <<asks, run, excused, action, turn, world, crashes>>

\* Mutant: the claim is not compared.
FailAction_mutant(e) ==
    /\ exec[e].pc = "failing" /\ Leave(e)
    /\ SetStatus(exec[e].call, "FAILED")
    /\ UNCHANGED <<asks, run, excused, turn, world, crashes>>

\* failRunAction.
FailAction(e) ==
    /\ exec[e].pc = "failing" /\ Leave(e)
    /\ IF Holds(e) THEN SetStatus(exec[e].call, "FAILED") ELSE UNCHANGED action
    /\ UNCHANGED <<asks, run, excused, turn, world, crashes>>

-----------------------------------------------------------------------------
(* Approval. *)

\* Mutant: a repeated call puts the run before a person again.
RequestApproval_mutant(c) ==
    /\ asks /\ turn = "live" /\ run = "RUNNING" /\ ~Has(c, "SUCCEEDED")
    /\ \A q \in Posts : Has(q, "absent") \/ q <= c
    /\ Put(c, IF Has(c, "absent") THEN Requested(action[c]) ELSE action[c])
    /\ run' = "WAITING_FOR_APPROVAL"
    /\ UNCHANGED <<asks, excused, exec, turn, world, crashes>>

\* requestSlackApproval; a call whose row is there gets the same answer again.
RequestApproval(c) ==
    /\ asks /\ turn = "live" /\ run = "RUNNING" /\ Has(c, "absent")
    /\ \A q \in Posts : Has(q, "absent") \/ q < c
    /\ Put(c, Requested(action[c]))
    /\ run' = "WAITING_FOR_APPROVAL"
    /\ UNCHANGED <<asks, excused, exec, turn, world, crashes>>

\* The post a decision is about: the one planned first.
Asked(c) == Has(c, "PLANNED") /\ \A q \in Posts : Has(q, "PLANNED") => c <= q

Undecided(c) == action[c].approval = "PENDING"

Decide(c, decision) ==
    /\ run = "WAITING_FOR_APPROVAL" /\ Asked(c) /\ Undecided(c)
    /\ Put(c, [action[c] EXCEPT !.approval = decision])
    /\ UNCHANGED <<asks, run, excused, exec, turn, world, crashes>>

\* Mutant: all that is not rejected counts as approved.
Approved_mutant(c) == action[c].approval \in {"PENDING", "APPROVED"}

Approved(c) == action[c].approval = "APPROVED"
Rejected(c) == action[c].approval = "REJECTED"

\* settleSlackApprovals lists what is decided, and then acts on it.
PickDecided(e, c) ==
    /\ exec[e].pc = "idle" /\ run = "WAITING_FOR_APPROVAL"
    /\ Has(c, "PLANNED") /\ (Approved(c) \/ Rejected(c))
    /\ exec' = [exec EXCEPT ![e] = [pc |-> "settling", call |-> c]]
    /\ UNCHANGED <<asks, run, excused, action, turn, world, crashes>>

SettleRejected(e) ==
    /\ exec[e].pc = "settling" /\ Rejected(exec[e].call)
    /\ exec' = [exec EXCEPT ![e] = Idle] /\ CancelRun
    /\ UNCHANGED <<asks, excused, turn, world, crashes>>

\* postApprovedSlackAction: a run that does not wait any more is left alone.
ResumeApproved(e) ==
    /\ exec[e].pc = "settling" /\ Approved(exec[e].call)
    /\ IF run = "WAITING_FOR_APPROVAL"
       THEN run' = "RUNNING" /\ Goto(e, "planned")
       ELSE UNCHANGED run /\ exec' = [exec EXCEPT ![e] = Idle]
    /\ UNCHANGED <<asks, excused, action, turn, world, crashes>>

\* finishRun with an empty result.
FinishApproved(e) ==
    /\ exec[e].pc = "finishing" /\ exec' = [exec EXCEPT ![e] = Idle]
    /\ FinishRun(FALSE)
    /\ excused' = (excused /\ ~(run = "RUNNING" /\ run' = "SUCCEEDED"))
    /\ UNCHANGED <<asks, action, turn, world, crashes>>

-----------------------------------------------------------------------------
(* The turn and the run. *)

\* stageRunResult: the model may say that nothing needed doing where the
\* trigger lets it.
StageResult(said) ==
    /\ turn = "live" /\ run = "RUNNING" /\ (said => NoActionTrigger)
    /\ excused' = said
    /\ UNCHANGED <<asks, run, action, exec, turn, world, crashes>>

SessionCompleted ==
    /\ turn = "live" /\ turn' = IF run = "RUNNING" THEN "finishing" ELSE "over"
    /\ UNCHANGED <<asks, run, excused, action, exec, world, crashes>>

FinishTurn ==
    /\ turn = "finishing" /\ turn' = "over" /\ FinishRun(excused)
    /\ UNCHANGED <<asks, excused, action, exec, world, crashes>>

TurnFails ==
    /\ turn = "live" /\ turn' = "over" /\ FailRun
    /\ UNCHANGED <<asks, excused, action, exec, world, crashes>>

\* timeOutOverrunningRuns, from a list that may be old, or a late delivery error.
TimeOut ==
    /\ ~Ended /\ FailRun
    /\ UNCHANGED <<asks, excused, action, exec, turn, world, crashes>>

TurnCancelled ==
    /\ turn = "live" /\ turn' = "over" /\ CancelRun
    /\ UNCHANGED <<asks, excused, exec, world, crashes>>

Stop ==
    /\ ~Ended /\ CancelRun
    /\ UNCHANGED <<asks, excused, exec, turn, world, crashes>>

\* The agent is removed: its actions stay as they are, and a run with a
\* session goes on.
Remove ==
    /\ run = "WAITING_FOR_APPROVAL" /\ run' = "CANCELLED"
    /\ UNCHANGED <<asks, excused, action, exec, turn, world, crashes>>

LeaseExpires(c) ==
    /\ Has(c, "RUNNING") /\ ~action[c].expired
    /\ Put(c, [action[c] EXCEPT !.expired = TRUE])
    /\ UNCHANGED <<asks, run, excused, exec, turn, world, crashes>>

\* What Slack had just accepted is heard of by nobody.
AgentStops ==
    /\ crashes < MaxCrashes /\ crashes' = crashes + 1
    /\ exec' = [e \in Execs |-> Idle]
    /\ unheard' = unheard \cup {exec[e].call : e \in {x \in Execs : exec[x].pc \in {"accepted", "outside"}}}
    /\ UNCHANGED <<asks, run, excused, action, turn, notes, slack>>

-----------------------------------------------------------------------------
ExecStep(e) ==
    \/ \E c \in Calls : BeginCall(e, c)
    \/ PlanAction(e) \/ ClaimAction(e) \/ WriteActivity(e)
    \/ HoldClaim(e) \/ RecordPost(e) \/ RecordOutside(e)
    \/ \E heard \in BOOLEAN : SlackAccepts(e, heard)
    \/ Refused(e) \/ FailAction(e)
    \/ \E c \in Posts : PickDecided(e, c)
    \/ SettleRejected(e) \/ ResumeApproved(e) \/ FinishApproved(e)

CallStep(c) ==
    \/ c \in Posts /\ RequestApproval(c)
    \/ c \in Posts /\ \E decision \in {"APPROVED", "REJECTED"} : Decide(c, decision)
    \/ LeaseExpires(c)

RunStep ==
    \/ \E said \in BOOLEAN : StageResult(said)
    \/ SessionCompleted \/ FinishTurn \/ TurnFails \/ TimeOut \/ TurnCancelled
    \/ Stop \/ Remove

Next ==
    \/ \E e \in Execs : ExecStep(e)
    \/ \E c \in Calls : CallStep(c)
    \/ RunStep \/ AgentStops

Spec == Init /\ [][Next]_vars

-----------------------------------------------------------------------------
(* Properties. *)

\* Where the manifest asks for it, Slack only ever gets what a person approved,
\* though drains overlap, posts are retried and the agent stops in between.
ApprovedOnly == asks => \A c \in slack : action[c].approval = "APPROVED"

\* A waiting run has a post that waits: somebody can decide it, or a drain
\* will act on the decision.  No waiting run is stuck.
WaitingHasRequest ==
    run = "WAITING_FOR_APPROVAL" =>
        \E c \in Posts : Has(c, "PLANNED") /\ action[c].approval # "none"

\* A run that succeeded without saying that nothing needed doing has done what
\* its manifest declares: an activity is in the CRM and a message in Slack.
SuccessIsEarned == run = "SUCCEEDED" /\ ~excused => notes # {} /\ slack # {}

\* The rows tell what was done, though leases run out, calls are repeated and
\* the run is stopped at any point: an activity exists exactly if its row
\* succeeded, and a post that succeeded is in Slack.
LedgerTells ==
    /\ \A c \in Notes : c \in notes <=> action[c].status = "SUCCEEDED"
    /\ \A c \in Posts : action[c].status = "SUCCEEDED" => c \in slack

\* A message that Slack acknowledged leaves its id in its row, even if the run
\* was stopped or the claim lost meanwhile.
DeliveryRecorded ==
    \A c \in slack \ unheard : (\A e \in Execs : exec[e].call # c) => action[c].external
=============================================================================
