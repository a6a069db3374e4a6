--------------------------- MODULE RunActionsProofs ---------------------------
(***************************************************************************)
(* Proofs about RunActions, for any calls, executions and stops: type      *)
(* correctness, that nothing is posted which nobody approved, that the     *)
(* rows tell what was done, that a success is earned, and that no waiting  *)
(* run is stuck.  Rows only ever grow (Grows); what an execution may       *)
(* assume of its row (Fit) follows from that.                              *)
(***************************************************************************)
EXTENDS RunActions, TLAPS

\* What no step takes from a row.
Better(old, new) ==
    /\ new \in Row
    /\ old.status # "absent" => new.status # "absent"
    /\ old.approval = "APPROVED" => new.approval = "APPROVED"
    /\ old.external => new.external
    /\ old.status = "SUCCEEDED" => new.status = "SUCCEEDED"
    /\ new.status = "absent" => new = old

Grows == action' \in [Calls -> Row] /\ \A c \in Calls : Better(action[c], action'[c])

LEMMA SameRow == ASSUME NEW row \in Row PROVE Better(row, row)
  BY DEF Better

LEMMA NoChange == ASSUME TypeOK, UNCHANGED action PROVE Grows
  BY SameRow DEF TypeOK, Grows

LEMMA PutGrows ==
    ASSUME TypeOK, NEW c \in Calls, NEW row, Better(action[c], row), Put(c, row)
    PROVE  Grows
<1>1. action \in [Calls -> Row] /\ action' = [action EXCEPT ![c] = row]
  BY DEF TypeOK, Put
<1>2. action' \in [Calls -> Row]
  BY <1>1 DEF Better
<1>3. ASSUME NEW d \in Calls PROVE Better(action[d], action'[d])
  BY <1>1, SameRow
<1> QED BY <1>2, <1>3 DEF Grows

LEMMA StatusSet ==
    ASSUME NEW row \in Row, NEW status \in {"PLANNED", "RUNNING", "SUCCEEDED", "FAILED", "CANCELLED"},
           row.status # "SUCCEEDED"
    PROVE  LET new == [row EXCEPT !.status = status]
           IN  Better(row, new) /\ new.status = status /\ new.approval = row.approval
  BY DEF Row, Better

LEMMA DoneRow ==
    ASSUME NEW row \in Row PROVE Better(row, Done(row)) /\ Done(row).status = "SUCCEEDED"
                                 /\ Done(row).external /\ Done(row).approval = row.approval
<1> DEFINE mid == [row EXCEPT !.status = "SUCCEEDED"]
<1>1. mid \in Row /\ mid.status = "SUCCEEDED" /\ mid.approval = row.approval
  BY DEF Row
<1>2. Done(row) = [mid EXCEPT !.external = TRUE]
  BY DEF Done
<1> HIDE DEF mid
<1> QED BY <1>1, <1>2 DEF Row, Better

LEMMA ClaimedRow ==
    ASSUME NEW row \in Row, NEW e \in Execs, row.status # "SUCCEEDED"
    PROVE  Better(row, Claimed(row, e)) /\ Claimed(row, e).status = "RUNNING"
           /\ Claimed(row, e).approval = row.approval /\ Claimed(row, e).external = row.external
<1> DEFINE mid == [row EXCEPT !.status = "RUNNING"]
           last == [mid EXCEPT !.holder = e]
<1>1. mid \in Row /\ mid.status = "RUNNING" /\ mid.approval = row.approval /\ mid.external = row.external
  BY DEF Row
<1>2. last = [mid EXCEPT !.holder = e] /\ Claimed(row, e) = [last EXCEPT !.expired = FALSE]
  BY DEF Claimed
<1> HIDE DEF mid
<1>3. last \in Row /\ last.status = "RUNNING" /\ last.approval = row.approval /\ last.external = row.external
  BY <1>1, <1>2 DEF Row
<1> HIDE DEF last
<1> QED BY <1>2, <1>3 DEF Row, Better

LEMMA RequestedRow ==
    ASSUME NEW row \in Row, row.status = "absent", row.approval = "none"
    PROVE  Better(row, Requested(row)) /\ Requested(row).status = "PLANNED"
           /\ Requested(row).approval = "PENDING"
<1> DEFINE mid == [row EXCEPT !.status = "PLANNED"]
<1>1. mid \in Row /\ mid.status = "PLANNED" /\ mid.external = row.external
  BY DEF Row
<1>2. Requested(row) = [mid EXCEPT !.approval = "PENDING"]
  BY DEF Requested
<1> HIDE DEF mid
<1> QED BY <1>1, <1>2 DEF Row, Better

-----------------------------------------------------------------------------
(* What an execution may rely on. *)

\* An execution x is under way for a call whose row exists; only posts are
\* delivered; their message is in Slack once Slack has answered; and where
\* approval is asked for, only approved posts get as far as a claim.
Fit(x) ==
    /\ x \in Exec
    /\ x.pc # "idle" => x.call \in Calls
    /\ x.pc \notin {"idle", "begun"} => action[x.call].status # "absent"
    /\ x.pc \in {"held", "accepted", "outside"} => x.call \in Posts
    /\ x.pc \in {"accepted", "outside"} => x.call \in slack
    /\ x.pc = "begun" /\ x.call \in Posts => ~asks
    /\ asks /\ x.call \in Posts /\ x.pc \notin {"idle", "begun", "settling"} =>
          action[x.call].approval = "APPROVED"

Unasked == \A c \in Calls : Has(c, "absent") => action[c].approval = "none"

AInv == TypeOK /\ Unasked /\ \A e \in Execs : Fit(exec[e])

LEMMA ActionsStart == Init => AInv
<1> SUFFICES ASSUME Init PROVE AInv
  OBVIOUS
<1>1. NoRow \in Row /\ Idle \in Exec
  BY DEF NoRow, Row, Idle, Exec
<1>2. action \in [Calls -> Row] /\ exec \in [Execs -> Exec]
  BY <1>1 DEF Init
<1>3. \A e \in Execs : exec[e].pc = "idle"
  BY DEF Init, Idle
<1>4. TypeOK
  <2>1. crashes \in 0 .. MaxCrashes
    BY ActionConstants DEF Init
  <2>2. asks \in BOOLEAN /\ excused \in BOOLEAN
    BY Zenon DEF Init
  <2>3. run = "RUNNING" /\ turn = "live" /\ notes = {} /\ slack = {} /\ unheard = {}
    BY DEF Init
  <2> QED BY <1>2, <1>3, <2>1, <2>2, <2>3 DEF TypeOK
<1>5. Unasked
  BY DEF Init, Unasked, NoRow
<1> QED BY <1>2, <1>3, <1>4, <1>5 DEF AInv, Fit

LEMMA CancelGrows ==
    ASSUME TypeOK, CancelRun PROVE Grows
<1>1. CASE Ended
  BY <1>1, NoChange DEF CancelRun
<1>2. CASE ~Ended
  <2>1. action \in [Calls -> Row]
    BY DEF TypeOK
  <2>2. action' = [c \in Calls |-> IF Open(c) THEN [action[c] EXCEPT !.status = "CANCELLED"]
                                              ELSE action[c]]
    BY <1>2 DEF CancelRun
  <2>3. ASSUME NEW c \in Calls PROVE Better(action[c], action'[c])
    <3>1. CASE Open(c)
      BY <2>1, <2>2, <3>1, StatusSet DEF Open
    <3>2. CASE ~Open(c)
      BY <2>1, <2>2, <3>2, SameRow
    <3> QED BY <3>1, <3>2
  <2> QED BY <2>2, <2>3 DEF Grows, Better
<1> QED BY <1>1, <1>2

LEMMA ExecGrows ==
    ASSUME AInv, NEW e \in Execs, ExecStep(e)
    PROVE  Grows
<1> DEFINE c == exec[e].call
<1>t. TypeOK /\ action \in [Calls -> Row]
  BY DEF AInv, TypeOK
<1>c. exec[e].pc # "idle" => c \in Calls /\ action[c] \in Row
  BY DEF AInv, TypeOK
<1> HIDE DEF c
<1>1. CASE PlanAction(e)
  <2>1. CASE Has(c, "absent")
    <3>1. Put(c, [action[c] EXCEPT !.status = "PLANNED"]) /\ c \in Calls
      BY <1>1, <1>c, <2>1 DEF PlanAction, SetStatus, c
    <3>2. Better(action[c], [action[c] EXCEPT !.status = "PLANNED"])
      BY <2>1, <3>1, <1>t, StatusSet DEF Has
    <3> QED BY <1>t, <3>1, <3>2, PutGrows
  <2>2. CASE ~Has(c, "absent")
    BY <1>1, <1>t, <2>2, NoChange DEF PlanAction, c
  <2> QED BY <2>1, <2>2
<1>2. CASE ClaimAction(e)
  <2>1. CASE Claimable(c)
    <3>1. Put(c, Claimed(action[c], e)) /\ c \in Calls
      BY <1>2, <1>c, <2>1 DEF ClaimAction, c
    <3>2. action[c].status # "SUCCEEDED"
      BY <2>1 DEF Claimable, Has
    <3> QED BY <1>t, <3>1, <3>2, ClaimedRow, PutGrows
  <2>2. CASE ~Claimable(c)
    BY <1>2, <1>t, <2>2, NoChange DEF ClaimAction, c
  <2> QED BY <2>1, <2>2
<1>3. CASE WriteActivity(e)
  <2>1. Put(c, Done(action[c])) /\ c \in Calls
    BY <1>3, <1>c DEF WriteActivity, c
  <2> QED BY <1>t, <2>1, DoneRow, PutGrows
<1>4. CASE RecordPost(e)
  <2>1. CASE Holds(e)
    <3>1. Put(c, Done(action[c])) /\ c \in Calls
      BY <1>4, <1>c, <2>1 DEF RecordPost, c
    <3> QED BY <1>t, <3>1, DoneRow, PutGrows
  <2>2. CASE ~Holds(e)
    BY <1>4, <1>t, <2>2, NoChange DEF RecordPost
  <2> QED BY <2>1, <2>2
<1>5. CASE RecordOutside(e)
  <2>1. Put(c, [action[c] EXCEPT !.external = TRUE]) /\ c \in Calls /\ action[c].status # "absent"
    BY <1>5, <1>c DEF RecordOutside, c, AInv, TypeOK
  <2>2. Better(action[c], [action[c] EXCEPT !.external = TRUE])
    BY <1>t, <2>1 DEF Better, Row
  <2> QED BY <1>t, <2>1, <2>2, PutGrows
<1>6. CASE FailAction(e)
  <2>1. CASE Holds(e)
    <3>1. Put(c, [action[c] EXCEPT !.status = "FAILED"]) /\ c \in Calls
      BY <1>6, <1>c, <2>1 DEF FailAction, SetStatus, c
    <3>2. action[c].status # "SUCCEEDED"
      BY <2>1 DEF Holds, Has, c
    <3> QED BY <1>t, <3>1, <3>2, StatusSet, PutGrows
  <2>2. CASE ~Holds(e)
    BY <1>6, <1>t, <2>2, NoChange DEF FailAction
  <2> QED BY <2>1, <2>2
<1>7. CASE SettleRejected(e)
  BY <1>7, <1>t, CancelGrows DEF SettleRejected
<1>8. CASE UNCHANGED action
  BY <1>8, <1>t, NoChange
<1> QED BY <1>1, <1>2, <1>3, <1>4, <1>5, <1>6, <1>7, <1>8
        DEF ExecStep, BeginCall, HoldClaim, SlackAccepts, Refused, PickDecided, ResumeApproved,
            FinishApproved

LEMMA CallGrows ==
    ASSUME AInv, NEW c \in Calls, CallStep(c)
    PROVE  Grows
<1>t. TypeOK /\ action[c] \in Row
  BY DEF AInv, TypeOK
<1>1. CASE RequestApproval(c)
  <2>1. action[c].status = "absent" /\ action[c].approval = "none" /\ Put(c, Requested(action[c]))
    BY <1>1 DEF RequestApproval, Has, AInv, Unasked
  <2> QED BY <1>t, <2>1, RequestedRow, PutGrows
<1>2. ASSUME NEW decision \in {"APPROVED", "REJECTED"}, Decide(c, decision) PROVE Grows
  <2>1. action[c].status = "PLANNED" /\ action[c].approval = "PENDING"
        /\ Put(c, [action[c] EXCEPT !.approval = decision])
    BY <1>2 DEF Decide, Asked, Undecided, Has
  <2>2. Better(action[c], [action[c] EXCEPT !.approval = decision])
    BY <1>t, <2>1 DEF Better, Row
  <2> QED BY <1>t, <2>1, <2>2, PutGrows
<1>3. CASE LeaseExpires(c)
  <2>1. action[c].status = "RUNNING" /\ Put(c, [action[c] EXCEPT !.expired = TRUE])
    BY <1>3 DEF LeaseExpires, Has
  <2>2. Better(action[c], [action[c] EXCEPT !.expired = TRUE])
    BY <1>t, <2>1 DEF Better, Row
  <2> QED BY <1>t, <2>1, <2>2, PutGrows
<1> QED BY <1>1, <1>2, <1>3 DEF CallStep

\* No step takes anything from a row.
LEMMA StepGrows ==
    ASSUME AInv, [Next]_vars
    PROVE  Grows
<1>t. TypeOK
  BY DEF AInv
<1>1. CASE RunStep
  <2>1. CASE TurnCancelled \/ Stop
    BY <1>t, <2>1, CancelGrows DEF TurnCancelled, Stop
  <2>2. CASE UNCHANGED action
    BY <1>t, <2>2, NoChange
  <2> QED BY <1>1, <2>1, <2>2
          DEF RunStep, StageResult, SessionCompleted, FinishTurn, TurnFails, TimeOut, Remove
<1>2. CASE AgentStops \/ UNCHANGED vars
  BY <1>t, <1>2, NoChange DEF AgentStops, vars
<1> QED BY <1>1, <1>2, ExecGrows, CallGrows DEF Next

\* Fit(x) in the state after a step.
FitNext(x) ==
    /\ x \in Exec
    /\ x.pc # "idle" => x.call \in Calls
    /\ x.pc \notin {"idle", "begun"} => action'[x.call].status # "absent"
    /\ x.pc \in {"held", "accepted", "outside"} => x.call \in Posts
    /\ x.pc \in {"accepted", "outside"} => x.call \in slack'
    /\ x.pc = "begun" /\ x.call \in Posts => ~asks'
    /\ asks' /\ x.call \in Posts /\ x.pc \notin {"idle", "begun", "settling"} =>
          action'[x.call].approval = "APPROVED"

\* What the world and the manifest do in a step.
Onward == asks' = asks /\ slack \subseteq slack' /\ Grows

LEMMA StillFit ==
    ASSUME Onward, NEW x, Fit(x)
    PROVE  FitNext(x)
<1>1. x.call \in Calls => Better(action[x.call], action'[x.call])
  BY DEF Onward, Grows
<1>2. Posts \subseteq Calls
  BY DEF Calls
<1> QED BY <1>1, <1>2 DEF Fit, FitNext, Onward, Better

\* An execution that goes on with its call.
LEMMA GoesOn ==
    ASSUME AInv, Onward, NEW e \in Execs, NEW pc \in {"planned", "claimed", "held", "accepted", "outside", "failing", "finishing"},
           exec[e].pc \notin {"idle", "begun"},
           exec[e].pc = "settling" => action[exec[e].call].approval = "APPROVED",
           pc \in {"held", "accepted", "outside"} => exec[e].call \in Posts,
           pc \in {"accepted", "outside"} => exec[e].call \in slack'
    PROVE  FitNext([pc |-> pc, call |-> exec[e].call])
<1> DEFINE x == [pc |-> pc, call |-> exec[e].call]
<1>0. Fit(exec[e]) /\ exec[e] \in Exec
  BY DEF AInv, Fit
<1>1. x \in Exec /\ x.pc = pc /\ x.call = exec[e].call /\ x.call \in Calls
  BY <1>0 DEF Exec, Fit
<1>2. action[x.call].status # "absent"
      /\ (asks /\ x.call \in Posts => action[x.call].approval = "APPROVED")
  BY <1>0, <1>1 DEF Fit
<1>3. Better(action[x.call], action'[x.call]) /\ asks' = asks
  BY <1>1 DEF Onward, Grows
<1>4. action'[x.call].status # "absent"
      /\ (asks' /\ x.call \in Posts => action'[x.call].approval = "APPROVED")
  BY <1>2, <1>3 DEF Better
<1> HIDE DEF x
<1>5. FitNext(x)
  BY <1>1, <1>4 DEF FitNext
<1> QED BY <1>5 DEF x

LEMMA IdleFits == FitNext(Idle)
  BY DEF FitNext, Idle, Exec

LEMMA LeaveFits ==
    ASSUME AInv, Onward, NEW e \in Execs, Leave(e), exec[e].pc \notin {"idle", "begun", "settling"}
    PROVE  \E x : FitNext(x) /\ exec' = [exec EXCEPT ![e] = x]
<1>1. CASE asks /\ exec[e].call \in Posts
  BY <1>1, GoesOn DEF Leave, Goto
<1>2. CASE ~(asks /\ exec[e].call \in Posts)
  BY <1>2, IdleFits DEF Leave
<1> QED BY <1>1, <1>2

LEMMA ExecFits ==
    ASSUME AInv, Onward, NEW e \in Execs, ExecStep(e)
    PROVE  \E x : FitNext(x) /\ exec' = [exec EXCEPT ![e] = x]
<1>0. Fit(exec[e])
  BY DEF AInv
<1>1. ASSUME NEW c \in Calls, BeginCall(e, c) PROVE \E x : FitNext(x) /\ exec' = [exec EXCEPT ![e] = x]
  <2> DEFINE x == [pc |-> "begun", call |-> c]
  <2>1. x \in Exec /\ x.pc = "begun" /\ x.call = c
    BY DEF Exec
  <2>2. exec' = [exec EXCEPT ![e] = x] /\ (c \in Posts => ~asks) /\ asks' = asks
    BY <1>1 DEF BeginCall
  <2> HIDE DEF x
  <2>3. FitNext(x)
    BY <2>1, <2>2 DEF FitNext
  <2> QED BY <2>2, <2>3
<1>2. CASE PlanAction(e)
  <2> DEFINE x == [pc |-> "planned", call |-> exec[e].call]
  <2>1. x \in Exec /\ x.pc = "planned" /\ x.call = exec[e].call /\ x.call \in Calls
        /\ (x.call \in Posts => ~asks)
    BY <1>0, <1>2 DEF Exec, Fit, PlanAction
  <2>2. exec' = [exec EXCEPT ![e] = x] /\ asks' = asks
    BY <1>2 DEF PlanAction, Goto
  <2>3. action'[x.call].status # "absent"
    <3>1. action \in [Calls -> Row]
      BY DEF AInv, TypeOK
    <3> QED BY <1>2, <2>1, <3>1 DEF PlanAction, Has, SetStatus, Put, Row
  <2> HIDE DEF x
  <2>4. FitNext(x)
    BY <2>1, <2>2, <2>3 DEF FitNext
  <2> QED BY <2>2, <2>4
<1>3. CASE ClaimAction(e)
  BY <1>3, GoesOn, LeaveFits DEF ClaimAction, Goto
<1>4. CASE WriteActivity(e)
  BY <1>4, LeaveFits DEF WriteActivity
<1>5. CASE HoldClaim(e)
  BY <1>5, GoesOn DEF HoldClaim, Goto
<1>6. CASE RecordPost(e)
  <2>1. exec[e].pc = "accepted" /\ exec[e].call \in Posts /\ exec[e].call \in slack'
    BY <1>0, <1>6 DEF RecordPost, Fit, Onward
  <2> QED BY <1>6, <2>1, GoesOn, LeaveFits DEF RecordPost, Goto
<1>7. CASE RecordOutside(e)
  BY <1>7, GoesOn DEF RecordOutside, Goto
<1>8. ASSUME NEW heard \in BOOLEAN, SlackAccepts(e, heard)
      PROVE  \E x : FitNext(x) /\ exec' = [exec EXCEPT ![e] = x]
  <2>1. exec[e].pc = "held" /\ exec[e].call \in Posts /\ exec[e].call \in slack'
    BY <1>0, <1>8 DEF SlackAccepts, Fit
  <2>2. Goto(e, "accepted") \/ Goto(e, "failing")
    BY <1>8 DEF SlackAccepts
  <2> QED BY <2>1, <2>2, GoesOn DEF Goto
<1>9. CASE Refused(e)
  BY <1>9, GoesOn DEF Refused, Goto
<1>10. CASE FailAction(e)
  BY <1>10, LeaveFits DEF FailAction
<1>11. ASSUME NEW c \in Posts, PickDecided(e, c) PROVE \E x : FitNext(x) /\ exec' = [exec EXCEPT ![e] = x]
  <2> DEFINE x == [pc |-> "settling", call |-> c]
  <2>1. x \in Exec /\ x.pc = "settling" /\ x.call = c /\ c \in Calls
    BY DEF Exec, Calls
  <2>2. exec' = [exec EXCEPT ![e] = x] /\ action' = action /\ action[c].status # "absent"
    BY <1>11 DEF PickDecided, Has
  <2> HIDE DEF x
  <2>3. FitNext(x)
    BY <2>1, <2>2 DEF FitNext
  <2> QED BY <2>2, <2>3
<1>12. CASE SettleRejected(e) \/ FinishApproved(e)
  BY <1>12, IdleFits DEF SettleRejected, FinishApproved
<1>13. CASE ResumeApproved(e)
  BY <1>13, GoesOn, IdleFits DEF ResumeApproved, Goto, Approved
<1> QED BY <1>1, <1>2, <1>3, <1>4, <1>5, <1>6, <1>7, <1>8, <1>9, <1>10, <1>11, <1>12, <1>13 DEF ExecStep

LEMMA StepOnward ==
    ASSUME AInv, [Next]_vars
    PROVE  Onward
<1>1. Grows
  BY StepGrows
<1>2. asks' = asks /\ slack \subseteq slack'
  BY DEF Next, ExecStep, CallStep, RunStep, BeginCall, PlanAction, ClaimAction, WriteActivity,
         HoldClaim, SlackAccepts, RecordPost, RecordOutside, Refused, FailAction, PickDecided,
         SettleRejected, ResumeApproved, FinishApproved, RequestApproval, Decide, LeaseExpires,
         StageResult, SessionCompleted, FinishTurn, TurnFails, TimeOut, TurnCancelled, Stop,
         Remove, AgentStops, world, vars
<1> QED BY <1>1, <1>2 DEF Onward

LEMMA AllFit ==
    ASSUME AInv, [Next]_vars
    PROVE  exec' \in [Execs -> Exec] /\ \A e \in Execs : FitNext(exec'[e])
<1>o. Onward
  BY StepOnward
<1>t. exec \in [Execs -> Exec] /\ \A e \in Execs : Fit(exec[e])
  BY DEF AInv, TypeOK
<1>1. ASSUME NEW e \in Execs, ExecStep(e)
      PROVE  exec' \in [Execs -> Exec] /\ \A d \in Execs : FitNext(exec'[d])
  <2>1. PICK x : FitNext(x) /\ exec' = [exec EXCEPT ![e] = x]
    BY <1>o, <1>1, ExecFits
  <2>2. x \in Exec
    BY <2>1 DEF FitNext
  <2>3. ASSUME NEW d \in Execs PROVE FitNext(exec'[d])
    <3>1. CASE d = e
      BY <1>t, <2>1, <3>1
    <3>2. CASE d # e
      BY <1>o, <1>t, <2>1, <3>2, StillFit
    <3> QED BY <3>1, <3>2
  <2> QED BY <1>t, <2>1, <2>2, <2>3
<1>2. CASE AgentStops
  <2>1. \A e \in Execs : exec'[e] = Idle
    BY <1>2 DEF AgentStops
  <2>2. exec' \in [Execs -> Exec]
    BY <1>2 DEF AgentStops, Idle, Exec
  <2> QED BY <2>1, <2>2, IdleFits
<1>3. CASE UNCHANGED exec
  BY <1>3, <1>o, <1>t, StillFit
<1> QED BY <1>1, <1>2, <1>3
        DEF Next, CallStep, RunStep, RequestApproval, Decide, LeaseExpires, StageResult,
            SessionCompleted, FinishTurn, TurnFails, TimeOut, TurnCancelled, Stop, Remove, vars

LEMMA OtherTypes ==
    ASSUME AInv, [Next]_vars
    PROVE  /\ run' \in {"RUNNING", "WAITING_FOR_APPROVAL", "SUCCEEDED", "FAILED", "CANCELLED"}
           /\ turn' \in {"live", "finishing", "over"}
           /\ crashes' \in 0 .. MaxCrashes
           /\ notes' \subseteq Notes /\ slack' \subseteq Posts
<1>t. TypeOK /\ \A e \in Execs : Fit(exec[e])
  BY DEF AInv
<1>1. run' \in {"RUNNING", "WAITING_FOR_APPROVAL", "SUCCEEDED", "FAILED", "CANCELLED"}
  BY <1>t DEF TypeOK, Next, ExecStep, CallStep, RunStep, BeginCall, PlanAction, ClaimAction,
         WriteActivity, HoldClaim, SlackAccepts, RecordPost, RecordOutside, Refused, FailAction,
         PickDecided, SettleRejected, ResumeApproved, FinishApproved, RequestApproval, Decide,
         LeaseExpires, StageResult, SessionCompleted, FinishTurn, TurnFails, TimeOut,
         TurnCancelled, Stop, Remove, AgentStops, vars, FinishRun, FailRun, CancelRun
<1>2. turn' \in {"live", "finishing", "over"}
  BY <1>t DEF TypeOK, Next, ExecStep, CallStep, RunStep, BeginCall, PlanAction, ClaimAction,
         WriteActivity, HoldClaim, SlackAccepts, RecordPost, RecordOutside, Refused, FailAction,
         PickDecided, SettleRejected, ResumeApproved, FinishApproved, RequestApproval, Decide,
         LeaseExpires, StageResult, SessionCompleted, FinishTurn, TurnFails, TimeOut,
         TurnCancelled, Stop, Remove, AgentStops, vars
<1>3. crashes' \in 0 .. MaxCrashes
  <2>1. CASE AgentStops
    BY <1>t, <2>1, ActionConstants DEF TypeOK, AgentStops
  <2>2. CASE ~AgentStops
    BY <1>t, <2>2 DEF TypeOK, Next, ExecStep, CallStep, RunStep, BeginCall, PlanAction, ClaimAction,
         WriteActivity, HoldClaim, SlackAccepts, RecordPost, RecordOutside, Refused, FailAction,
         PickDecided, SettleRejected, ResumeApproved, FinishApproved, RequestApproval, Decide,
         LeaseExpires, StageResult, SessionCompleted, FinishTurn, TurnFails, TimeOut,
         TurnCancelled, Stop, Remove, vars
  <2> QED BY <2>1, <2>2
<1>4. notes' \subseteq Notes /\ slack' \subseteq Posts
  <2>1. CASE \E e \in Execs : WriteActivity(e)
    BY <1>t, <2>1 DEF TypeOK, WriteActivity
  <2>2. CASE \E e \in Execs, heard \in BOOLEAN : SlackAccepts(e, heard)
    BY <1>t, <2>2 DEF TypeOK, Fit, SlackAccepts
  <2>3. CASE UNCHANGED <<notes, slack>>
    BY <1>t, <2>3 DEF TypeOK
  <2> QED BY <2>1, <2>2, <2>3
          DEF Next, ExecStep, CallStep, RunStep, BeginCall, PlanAction, ClaimAction,
         HoldClaim, RecordPost, RecordOutside, Refused, FailAction,
         PickDecided, SettleRejected, ResumeApproved, FinishApproved, RequestApproval, Decide,
         LeaseExpires, StageResult, SessionCompleted, FinishTurn, TurnFails, TimeOut,
         TurnCancelled, Stop, Remove, AgentStops, vars, world
<1> QED BY <1>1, <1>2, <1>3, <1>4

LEMMA OthersKeep ==
    ASSUME [Next]_vars
    PROVE  \/ excused' = excused
           \/ \E said \in BOOLEAN : StageResult(said)
           \/ \E e \in Execs : FinishApproved(e)
  BY DEF Next, ExecStep, CallStep, RunStep, BeginCall, PlanAction, ClaimAction,
         WriteActivity, HoldClaim, SlackAccepts, RecordPost, RecordOutside, Refused, FailAction,
         PickDecided, SettleRejected, ResumeApproved, RequestApproval, Decide,
         LeaseExpires, SessionCompleted, FinishTurn, TurnFails, TimeOut,
         TurnCancelled, Stop, Remove, AgentStops, vars

LEMMA UnheardHeld ==
    ASSUME AInv, [Next]_vars
    PROVE  unheard' \subseteq slack'
<1>t. TypeOK /\ \A e \in Execs : Fit(exec[e])
  BY DEF AInv
<1>1. CASE \E e \in Execs, heard \in BOOLEAN : SlackAccepts(e, heard)
  BY <1>t, <1>1 DEF TypeOK, SlackAccepts
<1>2. CASE AgentStops
  <2>1. \A e \in Execs : exec[e].pc \in {"accepted", "outside"} => exec[e].call \in slack
    BY <1>t DEF Fit
  <2> QED BY <1>t, <1>2, <2>1 DEF TypeOK, AgentStops
<1>3. CASE UNCHANGED unheard
  BY <1>t, <1>3, StepOnward DEF TypeOK, Onward
<1> QED BY <1>1, <1>2, <1>3
        DEF Next, ExecStep, CallStep, RunStep, BeginCall, PlanAction, ClaimAction, WriteActivity,
            HoldClaim, RecordPost, RecordOutside, Refused, FailAction, PickDecided,
            SettleRejected, ResumeApproved, FinishApproved, RequestApproval, Decide, LeaseExpires,
            StageResult, SessionCompleted, FinishTurn, TurnFails, TimeOut, TurnCancelled, Stop,
            Remove, world, vars

LEMMA StepAInv ==
    ASSUME AInv, [Next]_vars
    PROVE  AInv'
<1>t. TypeOK
  BY DEF AInv
<1>1. Onward /\ action' \in [Calls -> Row]
  BY StepOnward DEF Onward, Grows
<1>2. asks' \in BOOLEAN
  BY <1>1, <1>t, Zenon DEF TypeOK, Onward
<1>3. excused' \in BOOLEAN
  BY <1>t, OthersKeep, Zenon DEF TypeOK, StageResult, FinishApproved
<1>4. Unasked'
  <2>1. ASSUME NEW c \in Calls, action'[c].status = "absent" PROVE action'[c].approval = "none"
    BY <1>1, <2>1 DEF Onward, Grows, Better, AInv, Unasked, Has
  <2> QED BY <2>1 DEF Unasked, Has
<1>5. \A e \in Execs : Fit(exec[e])'
  BY AllFit DEF FitNext, Fit
<1>6. \A e \in Execs : exec'[e].pc # "idle" =>
         exec'[e].call \in Calls /\ (exec'[e].pc # "begun" => action'[exec'[e].call].status # "absent")
  BY AllFit DEF FitNext
<1>7. TypeOK'
  BY <1>1, <1>2, <1>3, <1>6, AllFit, OtherTypes, UnheardHeld DEF TypeOK
<1> QED BY <1>4, <1>5, <1>7 DEF AInv

LEMMA Inductive == Spec => []AInv
  BY ActionsStart, StepAInv, PTL DEF Spec

-----------------------------------------------------------------------------
\* Type correctness; above all an execution that goes on has a row.
THEOREM ActionsTyped == Spec => []TypeOK
<1>1. AInv => TypeOK
  BY DEF AInv
<1> QED BY <1>1, Inductive, PTL

LEMMA PostsGrow ==
    ASSUME [Next]_vars
    PROVE  UNCHANGED slack \/ \E e \in Execs, heard \in BOOLEAN : SlackAccepts(e, heard)
  BY DEF Next, ExecStep, CallStep, RunStep, BeginCall, PlanAction, ClaimAction,
         WriteActivity, HoldClaim, RecordPost, RecordOutside, Refused, FailAction,
         PickDecided, SettleRejected, ResumeApproved, FinishApproved, RequestApproval, Decide,
         LeaseExpires, StageResult, SessionCompleted, FinishTurn, TurnFails, TimeOut,
         TurnCancelled, Stop, Remove, AgentStops, vars, world

\* Slack only gets what a person approved, where the manifest asks for it: the
\* execution that posts was approved, and an approval is never taken back.
THEOREM NothingUnapproved == Spec => []ApprovedOnly
<1>1. Init => ApprovedOnly
  BY DEF Init, ApprovedOnly
<1>2. ASSUME AInv, ApprovedOnly, [Next]_vars PROVE ApprovedOnly'
  <2>1. Onward /\ slack \subseteq Posts /\ Posts \subseteq Calls
    BY <1>2, StepOnward DEF AInv, TypeOK, Calls
  <2>2. ASSUME NEW c \in slack', asks' PROVE action'[c].approval = "APPROVED"
    <3>1. c \in Calls /\ action[c].approval = "APPROVED"
      <4>1. CASE c \in slack
        BY <1>2, <2>1, <2>2, <4>1 DEF ApprovedOnly, Onward
      <4>2. CASE c \notin slack
        <5>1. PICK e \in Execs, heard \in BOOLEAN : SlackAccepts(e, heard)
          BY <1>2, <2>2, <4>2, PostsGrow
        <5>2. Fit(exec[e]) /\ exec[e].pc = "held" /\ c = exec[e].call
          BY <1>2, <2>2, <4>2, <5>1 DEF SlackAccepts, AInv
        <5> QED BY <2>1, <2>2, <5>2 DEF Fit, Onward
      <4> QED BY <4>1, <4>2
    <3> QED BY <2>1, <3>1 DEF Onward, Grows, Better
  <2> QED BY <2>2 DEF ApprovedOnly
<1>3. AInv /\ ApprovedOnly /\ [Next]_vars => ApprovedOnly'
  BY <1>2
<1> QED BY <1>1, <1>3, Inductive, PTL DEF Spec

-----------------------------------------------------------------------------
(* The rows tell what was done. *)

\* No row becomes SUCCEEDED.
NoneDone == \A c \in Calls : action'[c].status = "SUCCEEDED" => action[c].status = "SUCCEEDED"

LEMMA PutQuiet ==
    ASSUME action \in [Calls -> Row], NEW c \in Calls, NEW row, Put(c, row), row.status # "SUCCEEDED"
    PROVE  NoneDone
  BY DEF Put, NoneDone

LEMMA PutSame ==
    ASSUME action \in [Calls -> Row], NEW c \in Calls, NEW row, Put(c, row), row.status = action[c].status
    PROVE  NoneDone
  BY DEF Put, NoneDone

LEMMA CancelQuiet ==
    ASSUME action \in [Calls -> Row], CancelRun PROVE NoneDone
<1>1. ASSUME NEW c \in Calls, Open(c) PROVE [action[c] EXCEPT !.status = "CANCELLED"].status # "SUCCEEDED"
  BY StatusSet DEF Open
<1> QED BY <1>1 DEF CancelRun, NoneDone

LEMMA ExecQuiet ==
    ASSUME AInv, NEW e \in Execs, ExecStep(e)
    PROVE  NoneDone \/ WriteActivity(e) \/ (RecordPost(e) /\ Holds(e))
<1>t. action \in [Calls -> Row] /\ Fit(exec[e])
  BY DEF AInv, TypeOK
<1> DEFINE c == exec[e].call
<1>1. CASE PlanAction(e)
  <2>1. c \in Calls
    BY <1>1, <1>t DEF PlanAction, Fit
  <2>2. CASE Has(c, "absent")
    <3>1. Put(c, [action[c] EXCEPT !.status = "PLANNED"])
      BY <1>1, <2>2 DEF PlanAction, SetStatus
    <3>2. [action[c] EXCEPT !.status = "PLANNED"].status # "SUCCEEDED"
      BY <1>t, <2>1, <2>2, StatusSet DEF Has
    <3> HIDE DEF c
    <3> QED BY <1>t, <2>1, <3>1, <3>2, PutQuiet
  <2>3. CASE ~Has(c, "absent")
    BY <1>1, <2>3 DEF PlanAction, NoneDone
  <2> QED BY <2>2, <2>3
<1>2. CASE ClaimAction(e)
  <2>1. c \in Calls
    BY <1>2, <1>t DEF ClaimAction, Fit
  <2>2. CASE Claimable(c)
    <3>1. Put(c, Claimed(action[c], e)) /\ action[c].status # "SUCCEEDED"
      BY <1>2, <2>2 DEF ClaimAction, Claimable, Has
    <3> HIDE DEF c
    <3>2. Claimed(action[c], e).status = "RUNNING"
      BY <1>t, <2>1, <3>1, ClaimedRow
    <3> QED BY <1>t, <2>1, <3>1, <3>2, PutQuiet
  <2>3. CASE ~Claimable(c)
    BY <1>2, <2>3 DEF ClaimAction, NoneDone
  <2> QED BY <2>2, <2>3
<1>3. CASE RecordPost(e) /\ ~Holds(e)
  BY <1>3 DEF RecordPost, NoneDone
<1>4. CASE RecordOutside(e)
  <2>1. Put(c, [action[c] EXCEPT !.external = TRUE]) /\ c \in Calls
    BY <1>4, <1>t DEF RecordOutside, Fit
  <2> HIDE DEF c
  <2>2. [action[c] EXCEPT !.external = TRUE].status = action[c].status
    BY <1>t, <2>1 DEF Row
  <2> QED BY <1>t, <2>1, <2>2, PutSame
<1>5. CASE FailAction(e)
  <2>1. c \in Calls
    BY <1>5, <1>t DEF FailAction, Fit
  <2>2. CASE Holds(e)
    <3>1. Put(c, [action[c] EXCEPT !.status = "FAILED"]) /\ action[c].status # "SUCCEEDED"
      BY <1>5, <2>2 DEF FailAction, SetStatus, Holds, Has
    <3> HIDE DEF c
    <3>2. [action[c] EXCEPT !.status = "FAILED"].status # "SUCCEEDED"
      BY <1>t, <2>1, <3>1, StatusSet
    <3> QED BY <1>t, <2>1, <3>1, <3>2, PutQuiet
  <2>3. CASE ~Holds(e)
    BY <1>5, <2>3 DEF FailAction, NoneDone
  <2> QED BY <2>2, <2>3
<1>6. CASE SettleRejected(e)
  BY <1>6, <1>t, CancelQuiet DEF SettleRejected
<1>7. CASE UNCHANGED action
  BY <1>7 DEF NoneDone
<1> QED BY <1>1, <1>2, <1>3, <1>4, <1>5, <1>6, <1>7
        DEF ExecStep, BeginCall, HoldClaim, SlackAccepts, Refused, PickDecided, ResumeApproved,
            FinishApproved

LEMMA CallQuiet ==
    ASSUME AInv, NEW c \in Calls, CallStep(c)
    PROVE  NoneDone
<1>t. action \in [Calls -> Row]
  BY DEF AInv, TypeOK
<1>1. CASE RequestApproval(c)
  <2>1. action[c].status = "absent" /\ action[c].approval = "none" /\ Put(c, Requested(action[c]))
    BY <1>1 DEF RequestApproval, Has, AInv, Unasked
  <2>2. Requested(action[c]).status # "SUCCEEDED"
    BY <1>t, <2>1, RequestedRow
  <2> QED BY <1>t, <2>1, <2>2, PutQuiet
<1>2. ASSUME NEW decision \in {"APPROVED", "REJECTED"}, Decide(c, decision) PROVE NoneDone
  <2>1. Put(c, [action[c] EXCEPT !.approval = decision])
    BY <1>2 DEF Decide
  <2>2. [action[c] EXCEPT !.approval = decision].status = action[c].status
    BY <1>t DEF Row
  <2> QED BY <1>t, <2>1, <2>2, PutSame
<1>3. CASE LeaseExpires(c)
  <2>1. Put(c, [action[c] EXCEPT !.expired = TRUE])
    BY <1>3 DEF LeaseExpires
  <2>2. [action[c] EXCEPT !.expired = TRUE].status = action[c].status
    BY <1>t DEF Row
  <2> QED BY <1>t, <2>1, <2>2, PutSame
<1> QED BY <1>1, <1>2, <1>3 DEF CallStep

\* A row becomes SUCCEEDED by the step that writes its activity, or by the
\* execution whose message Slack has acknowledged.
LEMMA StepQuiet ==
    ASSUME AInv, [Next]_vars
    PROVE  NoneDone \/ \E e \in Execs : WriteActivity(e) \/ (RecordPost(e) /\ Holds(e))
<1>t. action \in [Calls -> Row]
  BY DEF AInv, TypeOK
<1>1. CASE RunStep
  <2>1. CASE TurnCancelled \/ Stop
    BY <1>t, <2>1, CancelQuiet DEF TurnCancelled, Stop
  <2>2. CASE UNCHANGED action
    BY <2>2 DEF NoneDone
  <2> QED BY <1>1, <2>1, <2>2
          DEF RunStep, StageResult, SessionCompleted, FinishTurn, TurnFails, TimeOut, Remove
<1>2. CASE AgentStops \/ UNCHANGED vars
  BY <1>2 DEF AgentStops, vars, NoneDone
<1> QED BY <1>1, <1>2, ExecQuiet, CallQuiet DEF Next

LEMMA NotesGrow ==
    ASSUME [Next]_vars
    PROVE  UNCHANGED notes \/ \E e \in Execs : WriteActivity(e)
  BY DEF Next, ExecStep, CallStep, RunStep, BeginCall, PlanAction, ClaimAction,
         HoldClaim, SlackAccepts, RecordPost, RecordOutside, Refused, FailAction,
         PickDecided, SettleRejected, ResumeApproved, FinishApproved, RequestApproval, Decide,
         LeaseExpires, StageResult, SessionCompleted, FinishTurn, TurnFails, TimeOut,
         TurnCancelled, Stop, Remove, AgentStops, vars, world

LEMMA StepLedger ==
    ASSUME AInv, LedgerTells, [Next]_vars
    PROVE  LedgerTells'
<1>1. Onward /\ action \in [Calls -> Row]
  BY StepOnward DEF AInv, TypeOK
<1>n. Notes \subseteq Calls /\ Posts \subseteq Calls /\ Notes \cap Posts = {}
  BY ActionConstants DEF Calls
<1>2. ASSUME NEW e \in Execs, WriteActivity(e) PROVE LedgerTells'
  <2> DEFINE c == exec[e].call
  <2>1. c \in Notes /\ notes' = notes \cup {c} /\ slack' = slack
    BY <1>2 DEF WriteActivity
  <2>2. action' = [action EXCEPT ![c] = Done(action[c])]
    BY <1>2 DEF WriteActivity, Put
  <2>3. Done(action[c]).status = "SUCCEEDED"
    BY <1>1, <1>n, <2>1, DoneRow
  <2> HIDE DEF c
  <2> QED BY <1>1, <1>n, <2>1, <2>2, <2>3 DEF LedgerTells
<1>3. ASSUME NEW e \in Execs, RecordPost(e), Holds(e) PROVE LedgerTells'
  <2> DEFINE c == exec[e].call
  <2>1. c \in Posts /\ c \in slack /\ notes' = notes /\ slack' = slack
    BY <1>3 DEF RecordPost, world, AInv, Fit
  <2>2. action' = [action EXCEPT ![c] = Done(action[c])]
    BY <1>3 DEF RecordPost, Put
  <2> HIDE DEF c
  <2> QED BY <1>1, <1>n, <2>1, <2>2 DEF LedgerTells
<1>4. CASE NoneDone /\ UNCHANGED notes
  <2>1. \A c \in Calls : action'[c].status = "SUCCEEDED" <=> action[c].status = "SUCCEEDED"
    BY <1>1, <1>4 DEF NoneDone, Onward, Grows, Better
  <2> QED BY <1>1, <1>4, <1>n, <2>1 DEF LedgerTells, Onward
<1> QED BY <1>2, <1>3, <1>4, StepQuiet, NotesGrow

\* The rows tell what was done: activities and rows agree, and a post whose row
\* succeeded is in Slack.
THEOREM RowsTell == Spec => []LedgerTells
<1>1. Init => LedgerTells
  BY DEF Init, LedgerTells, NoRow, Calls
<1>2. AInv /\ LedgerTells /\ [Next]_vars => LedgerTells'
  BY StepLedger
<1> QED BY <1>1, <1>2, Inductive, PTL DEF Spec

-----------------------------------------------------------------------------
(* A success is earned. *)

LEMMA Succeeds ==
    ASSUME [Next]_vars, run' = "SUCCEEDED", run # "SUCCEEDED"
    PROVE  run = "RUNNING" /\ (FinishTurn \/ \E e \in Execs : FinishApproved(e))
  BY DEF Next, ExecStep, CallStep, RunStep, BeginCall, PlanAction, ClaimAction, WriteActivity,
         HoldClaim, SlackAccepts, RecordPost, RecordOutside, Refused, FailAction,
         PickDecided, SettleRejected, ResumeApproved, FinishApproved, RequestApproval, Decide,
         LeaseExpires, StageResult, SessionCompleted, FinishTurn, TurnFails, TimeOut,
         TurnCancelled, Stop, Remove, AgentStops, vars, FinishRun, FailRun, CancelRun, Ended

LEMMA Earns ==
    ASSUME LedgerTells, FinishRun(FALSE), run = "RUNNING", run' = "SUCCEEDED"
    PROVE  notes # {} /\ slack # {}
  BY DEF FinishRun, Performed, Has, LedgerTells

\* A run that succeeded has done what its manifest declares, or has said that
\* nothing needed doing.
THEOREM SuccessAlwaysEarned == Spec => []SuccessIsEarned
<1>1. Init => LedgerTells /\ SuccessIsEarned
  BY DEF Init, LedgerTells, NoRow, Calls, SuccessIsEarned
<1>2. ASSUME AInv, LedgerTells, SuccessIsEarned, [Next]_vars, run' = "SUCCEEDED", ~excused'
      PROVE  notes' # {} /\ slack' # {}
  <2>1. notes \subseteq notes' /\ slack \subseteq slack'
    BY <1>2, NotesGrow, StepOnward DEF Onward, WriteActivity
  <2>2. CASE run = "SUCCEEDED"
    <3>1. ~excused
      BY <1>2, <2>2, OthersKeep DEF StageResult, FinishApproved
    <3> QED BY <1>2, <2>1, <2>2, <3>1 DEF SuccessIsEarned
  <2>3. CASE run # "SUCCEEDED"
    <3>1. run = "RUNNING" /\ FinishRun(FALSE)
      <4>1. CASE FinishTurn
        BY <1>2, <2>3, <4>1, Succeeds DEF FinishTurn, FinishRun
      <4>2. CASE \E e \in Execs : FinishApproved(e)
        BY <1>2, <2>3, <4>2, Succeeds DEF FinishApproved
      <4> QED BY <1>2, <2>3, <4>1, <4>2, Succeeds
    <3> QED BY <1>2, <2>1, <3>1, Earns
  <2> QED BY <2>2, <2>3
<1>3. AInv /\ LedgerTells /\ SuccessIsEarned /\ [Next]_vars => (LedgerTells /\ SuccessIsEarned)'
  BY <1>2, StepLedger DEF SuccessIsEarned
<1>4. Spec => [](LedgerTells /\ SuccessIsEarned)
  BY <1>1, <1>3, Inductive, PTL DEF Spec
<1> QED BY <1>4, PTL

-----------------------------------------------------------------------------
(* Deliveries are recorded. *)

\* A message Slack acknowledged has left its id, or somebody is about to write it.
Recorded ==
    \A c \in slack \ unheard :
        action[c].external \/ \E e \in Execs : exec[e].call = c /\ exec[e].pc \in {"accepted", "outside"}

LEMMA Moved ==
    ASSUME AInv, NEW e \in Execs, exec[e].pc \in {"accepted", "outside"}, [Next]_vars, exec'[e] # exec[e]
    PROVE  RecordPost(e) \/ RecordOutside(e) \/ AgentStops
<1>1. \A f \in Execs : \A x : exec' = [exec EXCEPT ![f] = x] => f = e
  BY DEF AInv, TypeOK
<1>2. ASSUME NEW f \in Execs, ExecStep(f) PROVE f = e
  <2>1. \E x : exec' = [exec EXCEPT ![f] = x]
    BY <1>2, StepOnward, ExecFits
  <2> QED BY <1>1, <2>1
<1>3. CASE ExecStep(e)
  BY <1>3 DEF ExecStep, BeginCall, PlanAction, ClaimAction, WriteActivity, HoldClaim, SlackAccepts,
              Refused, FailAction, PickDecided, SettleRejected, ResumeApproved, FinishApproved
<1>4. CASE UNCHANGED exec
  BY <1>4
<1> QED BY <1>2, <1>3, <1>4
        DEF Next, CallStep, RunStep, RequestApproval, Decide, LeaseExpires, StageResult,
            SessionCompleted, FinishTurn, TurnFails, TimeOut, TurnCancelled, Stop, Remove, vars

LEMMA Writes ==
    ASSUME AInv, NEW e \in Execs, (RecordPost(e) /\ Holds(e)) \/ RecordOutside(e)
    PROVE  action'[exec[e].call].external
<1> DEFINE c == exec[e].call
<1>1. action \in [Calls -> Row] /\ Fit(exec[e])
  BY DEF AInv, TypeOK
<1>2. c \in Calls
  BY <1>1 DEF Fit, RecordPost, RecordOutside
<1>3. CASE RecordPost(e) /\ Holds(e)
  <2>1. action' = [action EXCEPT ![c] = Done(action[c])]
    BY <1>3 DEF RecordPost, Put
  <2>2. Done(action[c]).external
    BY <1>1, <1>2, DoneRow
  <2> HIDE DEF c
  <2>3. action'[c].external
    BY <1>1, <1>2, <2>1, <2>2
  <2> QED BY <2>3 DEF c
<1>4. CASE RecordOutside(e)
  <2>1. action' = [action EXCEPT ![c] = [action[c] EXCEPT !.external = TRUE]]
    BY <1>4 DEF RecordOutside, Put
  <2> HIDE DEF c
  <2>2. action'[c].external
    BY <1>1, <1>2, <2>1 DEF Row
  <2> QED BY <2>2 DEF c
<1> QED BY <1>3, <1>4

LEMMA StepRecorded ==
    ASSUME AInv, Recorded, [Next]_vars
    PROVE  Recorded'
<1>1. Onward /\ slack \subseteq Posts /\ Posts \subseteq Calls
  BY StepOnward DEF AInv, TypeOK, Calls
<1>2. SUFFICES ASSUME NEW c \in slack' \ unheard'
               PROVE  action'[c].external
                      \/ \E e \in Execs : exec'[e].call = c /\ exec'[e].pc \in {"accepted", "outside"}
  BY DEF Recorded
<1>3. CASE c \in slack \ unheard /\ action[c].external
  BY <1>1, <1>3 DEF Onward, Grows, Better
<1>4. ASSUME c \in slack \ unheard, NEW e \in Execs, exec[e].call = c, exec[e].pc \in {"accepted", "outside"}
      PROVE  action'[c].external
             \/ \E d \in Execs : exec'[d].call = c /\ exec'[d].pc \in {"accepted", "outside"}
  <2>1. CASE exec'[e] = exec[e]
    BY <1>4, <2>1
  <2>2. CASE AgentStops
    BY <1>2, <1>4, <2>2 DEF AgentStops
  <2>3. CASE RecordPost(e) /\ ~Holds(e)
    <3>1. exec' = [exec EXCEPT ![e] = [pc |-> "outside", call |-> c]] /\ exec \in [Execs -> Exec]
      BY <1>4, <2>3 DEF RecordPost, Goto, AInv, TypeOK
    <3> QED BY <3>1
  <2>4. CASE (RecordPost(e) /\ Holds(e)) \/ RecordOutside(e)
    BY <1>4, <2>4, Writes
  <2> QED BY <1>4, <2>1, <2>2, <2>3, <2>4, Moved
<1>5. CASE c \notin slack \/ c \in unheard
  <2>1. PICK e \in Execs, heard \in BOOLEAN : SlackAccepts(e, heard)
    BY <1>2, <1>5
       DEF Next, ExecStep, CallStep, RunStep, BeginCall, PlanAction, ClaimAction, WriteActivity,
         HoldClaim, RecordPost, RecordOutside, Refused, FailAction,
         PickDecided, SettleRejected, ResumeApproved, FinishApproved, RequestApproval, Decide,
         LeaseExpires, StageResult, SessionCompleted, FinishTurn, TurnFails, TimeOut,
         TurnCancelled, Stop, Remove, AgentStops, vars, world
  <2>2. exec[e].call = c /\ exec' = [exec EXCEPT ![e] = [pc |-> "accepted", call |-> c]]
    BY <1>2, <1>5, <2>1 DEF SlackAccepts, Goto
  <2>3. exec \in [Execs -> Exec]
    BY DEF AInv, TypeOK
  <2> QED BY <2>2, <2>3
<1> QED BY <1>3, <1>4, <1>5 DEF Recorded

\* A message that Slack acknowledged leaves its id in its row.
THEOREM DeliveriesAreRecorded == Spec => []DeliveryRecorded
<1>1. Init => Recorded
  BY DEF Init, Recorded
<1>2. AInv /\ Recorded /\ [Next]_vars => Recorded'
  BY StepRecorded
<1>3. Recorded => DeliveryRecorded
  BY DEF Recorded, DeliveryRecorded
<1> QED BY <1>1, <1>2, <1>3, Inductive, PTL DEF Spec

-----------------------------------------------------------------------------
(* No waiting run is stuck. *)

\* The post that waits, which nobody is executing.
Waits(c) ==
    /\ Has(c, "PLANNED") /\ action[c].approval # "none"
    /\ \A e \in Execs : exec[e].call = c => exec[e].pc \in {"idle", "settling"}

SomePostWaits == run = "WAITING_FOR_APPROVAL" => \E c \in Posts : Waits(c)

\* A step of an execution that leaves the run waiting touches its own row, and
\* goes on with its call or ends; a new one only settles.
LEMMA OwnRow ==
    ASSUME AInv, NEW e \in Execs, ExecStep(e),
           run = "WAITING_FOR_APPROVAL", run' = "WAITING_FOR_APPROVAL"
    PROVE  /\ \A c \in Calls \ {exec[e].call} : action'[c] = action[c]
           /\ exec[e].pc \in {"idle", "settling"} => UNCHANGED action
           /\ \E x : /\ exec' = [exec EXCEPT ![e] = x]
                     /\ x.pc \in {"idle", "settling"} \/
                           (x.call = exec[e].call /\ exec[e].pc \notin {"idle", "settling"})
<1>1. action \in [Calls -> Row]
  BY DEF AInv, TypeOK
<1>2. (\A c \in Calls : ~BeginCall(e, c)) /\ ~WriteActivity(e) /\ ~HoldClaim(e)
      /\ ~SettleRejected(e) /\ ~ResumeApproved(e)
  BY DEF BeginCall, WriteActivity, HoldClaim, SettleRejected, ResumeApproved, CancelRun, Ended
<1>3. \A c \in Calls \ {exec[e].call} : action'[c] = action[c]
  BY <1>1, <1>2 DEF ExecStep, PlanAction, ClaimAction, RecordPost, RecordOutside, SlackAccepts,
     Refused, FailAction, PickDecided, FinishApproved, Put, SetStatus
<1>4. exec[e].pc \in {"idle", "settling"} => UNCHANGED action
  BY <1>2 DEF ExecStep, PlanAction, ClaimAction, RecordPost, RecordOutside, SlackAccepts,
     Refused, FailAction, PickDecided, FinishApproved
<1>5. \E x : /\ exec' = [exec EXCEPT ![e] = x]
             /\ x.pc \in {"idle", "settling"} \/
                   (x.call = exec[e].call /\ exec[e].pc \notin {"idle", "settling"})
  <2>1. Leave(e) /\ exec[e].pc \notin {"idle", "settling"} =>
          \E x : /\ exec' = [exec EXCEPT ![e] = x]
                 /\ x.pc \in {"idle", "settling"} \/
                       (x.call = exec[e].call /\ exec[e].pc \notin {"idle", "settling"})
    BY DEF Leave, Goto, Idle
  <2>2. \A pc : Goto(e, pc) /\ exec[e].pc \notin {"idle", "settling"} =>
          \E x : /\ exec' = [exec EXCEPT ![e] = x]
                 /\ x.pc \in {"idle", "settling"} \/
                       (x.call = exec[e].call /\ exec[e].pc \notin {"idle", "settling"})
    BY DEF Goto
  <2>3. CASE PlanAction(e) \/ ClaimAction(e)
    BY <2>1, <2>2, <2>3 DEF PlanAction, ClaimAction
  <2>4. CASE RecordPost(e) \/ RecordOutside(e) \/ Refused(e) \/ FailAction(e)
    BY <2>1, <2>2, <2>4 DEF RecordPost, RecordOutside, Refused, FailAction
  <2>5. CASE \E heard \in BOOLEAN : SlackAccepts(e, heard)
    BY <2>2, <2>5 DEF SlackAccepts
  <2>6. CASE \E c \in Posts : PickDecided(e, c)
    BY <2>6 DEF PickDecided
  <2>7. CASE FinishApproved(e)
    <3>1. exec' = [exec EXCEPT ![e] = Idle] /\ Idle.pc = "idle"
      BY <2>7 DEF FinishApproved, Idle
    <3> QED BY <3>1
  <2> QED BY <1>2, <2>3, <2>4, <2>5, <2>6, <2>7 DEF ExecStep
<1> QED BY <1>3, <1>4, <1>5

LEMMA StepWaits ==
    ASSUME AInv, SomePostWaits, [Next]_vars
    PROVE  SomePostWaits'
<1> SUFFICES ASSUME run' = "WAITING_FOR_APPROVAL" PROVE \E c \in Posts : Waits(c)'
  BY DEF SomePostWaits
<1>t. action \in [Calls -> Row] /\ exec \in [Execs -> Exec] /\ Posts \subseteq Calls
  BY DEF AInv, TypeOK, Calls
<1>1. ASSUME NEW d \in Posts, RequestApproval(d) PROVE Waits(d)'
  <2>1. action[d].status = "absent" /\ action[d].approval = "none" /\ asks
        /\ action' = [action EXCEPT ![d] = Requested(action[d])] /\ exec' = exec
    BY <1>1, <1>t DEF RequestApproval, Has, Put, AInv, Unasked
  <2>2. Requested(action[d]).status = "PLANNED" /\ Requested(action[d]).approval = "PENDING"
    BY <1>t, <2>1, RequestedRow
  <2>3. \A e \in Execs : exec[e].call = d => exec[e].pc \in {"idle", "settling"}
    BY <2>1 DEF AInv, Fit
  <2> QED BY <1>t, <2>1, <2>2, <2>3 DEF Waits, Has
<1>2. CASE run = "WAITING_FOR_APPROVAL"
  <2>1. PICK c \in Posts : Waits(c)
    BY <1>2 DEF SomePostWaits
  <2>2. ASSUME NEW e \in Execs, ExecStep(e) PROVE Waits(c)'
    <3>1. action'[c] = action[c]
      BY <1>2, <1>t, <2>1, <2>2, OwnRow DEF Waits
    <3>2. \A d \in Execs : exec'[d].call = c => exec'[d].pc \in {"idle", "settling"}
      BY <1>2, <1>t, <2>1, <2>2, OwnRow DEF Waits
    <3> QED BY <2>1, <3>1, <3>2 DEF Waits, Has
  <2>3. ASSUME NEW d \in Calls, CallStep(d) PROVE Waits(c)'
    <3>1. CASE RequestApproval(d)
      BY <1>2, <3>1 DEF RequestApproval
    <3>2. ASSUME NEW decision \in {"APPROVED", "REJECTED"}, Decide(d, decision) PROVE Waits(c)'
      <4>1. action' = [action EXCEPT ![d] = [action[d] EXCEPT !.approval = decision]] /\ exec' = exec
        BY <3>2 DEF Decide, Put
      <4>2. [action[d] EXCEPT !.approval = decision].status = action[d].status
            /\ [action[d] EXCEPT !.approval = decision].approval = decision
        BY <1>t DEF Row
      <4> QED BY <1>t, <2>1, <4>1, <4>2 DEF Waits, Has
    <3>3. CASE LeaseExpires(d)
      <4>1. action' = [action EXCEPT ![d] = [action[d] EXCEPT !.expired = TRUE]] /\ exec' = exec
            /\ d # c
        BY <2>1, <3>3 DEF LeaseExpires, Put, Waits, Has
      <4> QED BY <1>t, <2>1, <4>1 DEF Waits, Has
    <3> QED BY <2>3, <3>1, <3>2, <3>3 DEF CallStep
  <2>4. CASE AgentStops
    BY <1>t, <2>1, <2>4 DEF AgentStops, Waits, Has, Idle
  <2>5. CASE UNCHANGED <<action, exec>>
    BY <2>1, <2>5 DEF Waits, Has
  <2> QED BY <1>2, <2>2, <2>3, <2>4, <2>5
          DEF Next, RunStep, StageResult, SessionCompleted, FinishTurn, TurnFails, TimeOut,
              TurnCancelled, Stop, Remove, CancelRun, Ended, vars
<1>3. CASE run # "WAITING_FOR_APPROVAL"
  <2>1. \E d \in Posts : RequestApproval(d)
    BY <1>3 DEF Next, ExecStep, CallStep, RunStep, BeginCall, PlanAction, ClaimAction, WriteActivity,
         HoldClaim, SlackAccepts, RecordPost, RecordOutside, Refused, FailAction,
         PickDecided, SettleRejected, ResumeApproved, FinishApproved, Decide,
         LeaseExpires, StageResult, SessionCompleted, FinishTurn, TurnFails, TimeOut,
         TurnCancelled, Stop, Remove, AgentStops, vars, FinishRun, FailRun, CancelRun, Ended
  <2> QED BY <1>1, <2>1
<1> QED BY <1>2, <1>3

\* A run that waits always has a post that somebody can decide, or that a drain
\* will act on.
THEOREM NoWaitingRunStuck == Spec => []WaitingHasRequest
<1>1. Init => SomePostWaits
  BY DEF Init, SomePostWaits
<1>2. AInv /\ SomePostWaits /\ [Next]_vars => SomePostWaits'
  BY StepWaits
<1>3. SomePostWaits => WaitingHasRequest
  BY DEF SomePostWaits, Waits, WaitingHasRequest
<1> QED BY <1>1, <1>2, <1>3, Inductive, PTL DEF Spec
=============================================================================
