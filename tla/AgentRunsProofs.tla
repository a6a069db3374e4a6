--------------------------- MODULE AgentRunsProofs ---------------------------
(***************************************************************************)
(* Proofs about AgentRuns, for any number of runs, deliveries and turns.   *)
(*                                                                         *)
(* The argument for OneActive: a run that was ever picked, delivered or    *)
(* started, and has not ended, has no older run but ended ones, ones that  *)
(* are not yet visible and ones that became visible late (InOrder).  New   *)
(* runs are the newest, ended runs stay ended, and a run is picked only as *)
(* the oldest one; so of two active runs the older one came late.          *)
(* Lemma Ordered does this once, for steps described by what they do to    *)
(* statuses and to who holds a run; the steps of the module are then shown *)
(* to be of that kind.                                                     *)
(***************************************************************************)
EXTENDS AgentRuns, TLAPS

Quiet(q)  == Status(q) \in {"absent", "inserting"} \/ Ended(q)
TakenUp(r) == Touched(r) /\ ~Ended(r)

\* No run older than r is in its way, but those that became visible late.
First(r) == \A q \in Runs : q < r => Quiet(q) \/ q \in late

InOrder == \A r \in Runs : TakenUp(r) => Status(r) # "absent" /\ First(r)

\* What a step may do to the row of a run.
Legal(r) ==
    \/ Status(r)' = Status(r)
    \/ Status(r) = "absent" /\ Status(r)' \in {"inserting", "QUEUED"}
    \/ Status(r) = "inserting" /\ Status(r)' = "QUEUED"
    \/ Status(r) = "QUEUED" /\ Status(r)' \in {"RUNNING", "FAILED", "CANCELLED"}
    \/ /\ Status(r) = "RUNNING"
       /\ Status(r)' \in {"QUEUED", "WAITING_FOR_APPROVAL", "SUCCEEDED", "FAILED", "CANCELLED"}
    \/ Status(r) = "WAITING_FOR_APPROVAL" /\ Status(r)' = "CANCELLED"
    \/ /\ Status(r) = "WAITING_FOR_APPROVAL" /\ run[r].approval # "PENDING"
       /\ Status(r)' \in {"RUNNING", "FAILED"}

-----------------------------------------------------------------------------
(* Rows. *)

\* Every update of a row yields a row, and leaves the columns it does not name.
LEMMA Rows ==
    ASSUME NEW row \in Run
    PROVE  /\ \A s \in Statuses : /\ Moved(row, s) \in Run /\ Moved(row, s).status = s
                                  /\ Moved(row, s).age = row.age
                                  /\ Moved(row, s).session = row.session
           /\ \A s \in Statuses : Over(s) \in Run /\ Over(s).status = s
                                  /\ Over(s).age = "none" /\ Over(s).session = "none"
           /\ Begun(row) \in Run /\ Begun(row).status = "RUNNING"
           /\ \A u \in Turns : Linked(row, u) \in Run /\ Linked(row, u).status = row.status
           /\ Resumed(row) \in Run /\ Resumed(row).status = "RUNNING"
           /\ Waiting(row) \in Run /\ Waiting(row).status = "WAITING_FOR_APPROVAL"
           /\ Requeued(row) \in Run /\ Requeued(row).status = "QUEUED"
           /\ Requeued(row).age = "none" /\ Requeued(row).session = row.session
<1>1. \A s \in Statuses : /\ Moved(row, s) \in Run /\ Moved(row, s).status = s
                          /\ Moved(row, s).age = row.age /\ Moved(row, s).session = row.session
  BY DEF Moved, Run, Statuses
<1>2. \A s \in Statuses : Over(s) \in Run /\ Over(s).status = s
                          /\ Over(s).age = "none" /\ Over(s).session = "none"
  BY DEF Over, NoRow, Run, Statuses
<1>3. Begun(row) \in Run /\ Begun(row).status = "RUNNING"
  <2>1. [row EXCEPT !.status = "RUNNING"] \in Run /\ [row EXCEPT !.status = "RUNNING"].status = "RUNNING"
    BY DEF Run, Statuses
  <2> QED BY <2>1 DEF Begun, Run
<1>4. \A u \in Turns : Linked(row, u) \in Run /\ Linked(row, u).status = row.status
  BY DEF Linked, Run
<1>5. Resumed(row) \in Run /\ Resumed(row).status = "RUNNING"
  BY <1>3 DEF Resumed, Run
<1>6. Waiting(row) \in Run /\ Waiting(row).status = "WAITING_FOR_APPROVAL"
  <2> DEFINE w == [row EXCEPT !.status = "WAITING_FOR_APPROVAL"]
  <2>1. w \in Run /\ w.status = "WAITING_FOR_APPROVAL"
    BY DEF Run, Statuses
  <2> QED BY <2>1 DEF Waiting, Run
<1>7. Requeued(row) \in Run /\ Requeued(row).status = "QUEUED"
      /\ Requeued(row).age = "none" /\ Requeued(row).session = row.session
  <2> DEFINE q == [row EXCEPT !.status = "QUEUED"]
  <2>1. q \in Run /\ q.status = "QUEUED" /\ q.session = row.session
    BY DEF Run, Statuses
  <2> QED BY <2>1 DEF Requeued, Run
<1> QED BY <1>1, <1>2, <1>3, <1>4, <1>5, <1>6, <1>7

-----------------------------------------------------------------------------
(* Types, and what a step does to the rows. *)

Unstarted(row) ==
    row.status \in {"absent", "inserting", "QUEUED"} => row.age = "none" /\ row.session = "none"

RowsTyped == run \in [Runs -> Run] /\ \A r \in Runs : Unstarted(run[r])

ProcsTyped ==
    /\ agent \in {"LIVE", "PAUSED", "ARCHIVED", "DELETED"}
    /\ delivery \in [Deliveries -> Delivery]
    /\ turn \in [Turns -> Turn]
    /\ overdue \subseteq Runs /\ posting \subseteq Runs
    /\ crashes \in 0 .. MaxCrashes /\ late \subseteq Runs

\* The rows stay rows, and the only one a step changed is that of r.
Wrote(r) == RowsTyped' /\ Legal(r) /\ \A q \in Runs \ {r} : run'[q] = run[q]

LEMMA Typed == TypeOK <=> RowsTyped /\ ProcsTyped
  BY DEF TypeOK, RowsTyped, ProcsTyped, Unstarted

LEMMA SetRow ==
    ASSUME RowsTyped, NEW r \in Runs, NEW row \in Run, Unstarted(row), Set(r, row)
    PROVE  /\ RowsTyped' /\ run'[r] = row
           /\ \A q \in Runs \ {r} : run'[q] = run[q]
  BY DEF RowsTyped, Set, Unstarted

LEMMA Ending ==
    ASSUME RowsTyped, NEW r \in Runs, NEW end \in {"SUCCEEDED", "FAILED", "CANCELLED"},
           Set(r, Over(end)), Cancellable(r), Status(r) = "RUNNING" \/ end # "SUCCEEDED",
           end = "FAILED" => Failable(r)
    PROVE  Wrote(r)
<1>1. run[r] \in Run /\ end \in Statuses
  BY DEF RowsTyped, Statuses
<1>2. Over(end) \in Run /\ Over(end).status = end /\ Unstarted(Over(end))
  BY <1>1, Rows DEF Unstarted
<1>3. RowsTyped' /\ run'[r] = Over(end) /\ \A q \in Runs \ {r} : run'[q] = run[q]
  BY <1>2, SetRow
<1>4. Status(r)' = end
  BY <1>2, <1>3 DEF Status
<1>5. Legal(r)
  BY <1>4 DEF Legal, Cancellable, Failable
<1> QED BY <1>3, <1>5 DEF Wrote

LEMMA Kept ==
    ASSUME RowsTyped, UNCHANGED run
    PROVE  RowsTyped' /\ \A r \in Runs : Legal(r) /\ Wrote(r)
  BY DEF RowsTyped, Unstarted, Legal, Wrote, Status

LEMMA Fails == ASSUME RowsTyped, NEW r \in Runs, FailRun(r) PROVE Wrote(r)
  BY Ending, Kept DEF FailRun, Failable

LEMMA Cancels == ASSUME RowsTyped, NEW r \in Runs, CancelRun(r) PROVE Wrote(r)
  BY Ending, Kept DEF CancelRun

LEMMA Finishes == ASSUME RowsTyped, NEW r \in Runs, FinishRun(r) PROVE Wrote(r)
<1>1. CASE Status(r) = "RUNNING"
  <2>1. PICK end \in {"SUCCEEDED", "FAILED"} : Set(r, Over(end))
    BY <1>1 DEF FinishRun
  <2> QED BY <1>1, <2>1, Ending DEF Cancellable, Failable
<1>2. CASE Status(r) # "RUNNING"
  BY <1>2, Fails DEF FinishRun
<1> QED BY <1>1, <1>2

\* A step that sets the row of r to one of the rows of lemma Rows.
LEMMA Sets ==
    ASSUME RowsTyped, NEW r \in Runs, NEW row \in Run, Unstarted(row), Set(r, row),
           run'[r] = row => Legal(r)
    PROVE  Wrote(r)
  BY SetRow DEF Wrote

LEMMA StepRows ==
    ASSUME TypeOK, NEW r \in Runs, RunStep(r)
    PROVE  Wrote(r)
<1> USE Typed
<1>0. RowsTyped /\ run[r] \in Run /\ Unstarted(run[r])
  BY DEF RowsTyped
<1>1. ASSUME NEW manual \in BOOLEAN, QueueRun(r, manual) PROVE Wrote(r)
  <2>1. Moved(run[r], "QUEUED") \in Run /\ Moved(run[r], "QUEUED").status = "QUEUED"
        /\ Unstarted(Moved(run[r], "QUEUED"))
    BY <1>0, <1>1, Rows DEF QueueRun, Newest, Status, Unstarted, Statuses
  <2> QED BY <1>0, <1>1, <2>1, Sets DEF QueueRun, Newest, Legal, Status
<1>2. CASE InsertEventRun(r)
  <2> DEFINE s == IF LateCommits THEN "inserting" ELSE "QUEUED"
  <2>1. s \in {"inserting", "QUEUED"} /\ s \in Statuses
    BY RunConstants DEF Statuses
  <2> HIDE DEF s
  <2>2. Moved(run[r], s) \in Run /\ Moved(run[r], s).status = s /\ Unstarted(Moved(run[r], s))
    BY <1>0, <1>2, <2>1, Rows DEF InsertEventRun, Newest, Status, Unstarted
  <2>3. Set(r, Moved(run[r], s))
    BY <1>2 DEF InsertEventRun, s
  <2> QED BY <1>0, <1>2, <2>1, <2>2, <2>3, Sets DEF InsertEventRun, Newest, Legal, Status
<1>3. CASE CommitEventRun(r)
  <2>1. Moved(run[r], "QUEUED") \in Run /\ Moved(run[r], "QUEUED").status = "QUEUED"
        /\ Unstarted(Moved(run[r], "QUEUED"))
    BY <1>0, <1>3, Rows DEF CommitEventRun, Status, Unstarted, Statuses
  <2> QED BY <1>0, <1>3, <2>1, Sets DEF CommitEventRun, Legal, Status
<1>4. CASE DependencyFails(r)
  BY <1>0, <1>4, Fails DEF DependencyFails
<1>5. CASE Stop(r)
  BY <1>0, <1>5, Cancels DEF Stop
<1>6. ASSUME NEW decision \in {"APPROVED", "REJECTED"}, Decide(r, decision) PROVE Wrote(r)
  <2> DEFINE row == [run[r] EXCEPT !.approval = decision]
  <2>1. row \in Run /\ row.status = "WAITING_FOR_APPROVAL" /\ Unstarted(row)
    BY <1>0, <1>6 DEF Decide, Run, Status, Unstarted
  <2> HIDE DEF row
  <2>2. Set(r, row)
    BY <1>6 DEF Decide, row
  <2> QED BY <1>0, <1>6, <2>1, <2>2, Sets DEF Decide, Legal, Status
<1>7. CASE SettleRejected(r)
  BY <1>0, <1>7, Cancels DEF SettleRejected
<1>8. CASE ResumeApproved(r)
  <2>1. Resumed(run[r]) \in Run /\ Resumed(run[r]).status = "RUNNING" /\ Unstarted(Resumed(run[r]))
    BY <1>0, Rows DEF Unstarted
  <2> QED BY <1>0, <1>8, <2>1, Sets DEF ResumeApproved, Legal, Status
<1>9. CASE FinishApproved(r)
  BY <1>0, <1>9, Finishes DEF FinishApproved
<1>14. CASE ApprovedFails(r)
  BY <1>0, <1>14, Finishes DEF ApprovedFails
<1>10. CASE FindOverrun(r)
  BY <1>0, <1>10, Kept DEF FindOverrun
<1>11. CASE TimeOut(r)
  BY <1>0, <1>11, Fails DEF TimeOut
<1>12. CASE RecoverRun(r)
  <2>1. Requeued(run[r]) \in Run /\ Requeued(run[r]).status = "QUEUED" /\ Unstarted(Requeued(run[r]))
    BY <1>0, <1>12, Rows DEF RecoverRun, Undelivered, Unstarted
  <2>2. CASE agent \in {"LIVE", "PAUSED"}
    BY <1>0, <1>12, <2>1, <2>2, Sets DEF RecoverRun, Undelivered, Legal, Status
  <2>3. CASE agent \notin {"LIVE", "PAUSED"}
    BY <1>0, <1>12, <2>3, Ending DEF RecoverRun, Undelivered, Cancellable
  <2> QED BY <2>2, <2>3
<1>13. CASE Age(r)
  <2> DEFINE row == [run[r] EXCEPT !.age = IF @ = "fresh" THEN "stale" ELSE "overrun"]
  <2>1. row \in Run /\ row.status = run[r].status /\ Unstarted(row)
    BY <1>0, <1>13 DEF Age, Run, Unstarted
  <2> HIDE DEF row
  <2>2. Set(r, row)
    BY <1>13 DEF Age, row
  <2> QED BY <1>0, <2>1, <2>2, Sets DEF Legal, Status
<1> QED BY <1>1, <1>2, <1>3, <1>4, <1>5, <1>6, <1>7, <1>8, <1>9, <1>10, <1>11, <1>12, <1>13,
        <1>14 DEF RunStep

\* The rows that other steps write are written in the same way.
Wrote1 == RowsTyped' /\ \A r \in Runs : Legal(r)

LEMMA One ==
    ASSUME RowsTyped, NEW r \in Runs, Wrote(r) PROVE Wrote1
  BY DEF Wrote, Wrote1, Legal, Status

LEMMA DeliveryRows ==
    ASSUME TypeOK, NEW d \in Deliveries, DeliveryStep(d), delivery[d].pc # "idle" => delivery[d].run \in Runs,
           delivery[d].pc = "accepted" => delivery[d].turn \in Turns
    PROVE  Wrote1
<1> DEFINE r == delivery[d].run
<1>0. RowsTyped /\ (r \in Runs => run[r] \in Run /\ Unstarted(run[r]))
  BY Typed DEF RowsTyped
<1> HIDE DEF r
<1>k. UNCHANGED run => Wrote1
  BY <1>0, Kept DEF Wrote1
<1>1. ASSUME NEW q \in Runs, PickRun(d, q) PROVE Wrote1
  BY <1>1, <1>k DEF PickRun
<1>2. CASE ClaimRun(d)
  <2>1. CASE UNCHANGED run
    BY <2>1, <1>k
  <2>2. CASE Status(r) = "QUEUED" /\ Set(r, Begun(run[r]))
    <3>1. r \in Runs
      BY <1>2 DEF ClaimRun, r
    <3>2. Begun(run[r]) \in Run /\ Begun(run[r]).status = "RUNNING" /\ Unstarted(Begun(run[r]))
      BY <1>0, <3>1, Rows DEF Unstarted
    <3> QED BY <1>0, <2>2, <3>1, <3>2, Sets, One DEF Legal, Status
  <2> QED BY <1>2, <2>1, <2>2 DEF ClaimRun, r
<1>3. CASE LinkSession(d)
  <2>1. CASE UNCHANGED run
    BY <2>1, <1>k
  <2>2. CASE Status(r) = "RUNNING" /\ Set(r, Linked(run[r], delivery[d].turn))
    <3>1. r \in Runs /\ delivery[d].turn \in Turns
      BY <1>3 DEF LinkSession, r
    <3>2. Linked(run[r], delivery[d].turn) \in Run
          /\ Linked(run[r], delivery[d].turn).status = run[r].status
      BY <1>0, <3>1, Rows
    <3>3. Unstarted(Linked(run[r], delivery[d].turn))
      BY <2>2, <3>2 DEF Unstarted, Status
    <3> QED BY <1>0, <2>2, <3>1, <3>2, <3>3, Sets, One DEF Legal, Status
  <2> QED BY <1>3, <2>1, <2>2 DEF LinkSession, r
<1>4. CASE SendFails(d)
  BY <1>0, <1>4, Fails, One DEF SendFails, r
<1>5. ASSUME NEW u \in Turns, SendAccepted(d, u) PROVE Wrote1
  BY <1>5, <1>k DEF SendAccepted
<1> QED BY <1>1, <1>2, <1>3, <1>4, <1>5 DEF DeliveryStep

LEMMA TurnRows ==
    ASSUME TypeOK, NEW u \in Turns, TurnStep(u),
           turn[u].pc \in {"accepted", "finishing"} => turn[u].run \in Runs
    PROVE  Wrote1
<1> DEFINE r == turn[u].run
<1>0. RowsTyped /\ (r \in Runs => run[r] \in Run /\ Unstarted(run[r]))
  BY Typed DEF RowsTyped
<1> HIDE DEF r
<1>k. UNCHANGED run => Wrote1
  BY <1>0, Kept DEF Wrote1
<1>1. CASE SessionStarted(u)
  <2>1. CASE UNCHANGED run
    BY <2>1, <1>k
  <2>2. CASE Status(r) \in {"QUEUED", "RUNNING"} /\ ~UNCHANGED run
    <3> DEFINE row == IF run[r].age = "none" THEN Begun(run[r]) ELSE Moved(run[r], "RUNNING")
    <3>1. r \in Runs
      BY <1>1 DEF SessionStarted, r
    <3>2. row \in Run /\ row.status = "RUNNING"
      BY <1>0, <3>1, Rows DEF Statuses
    <3> HIDE DEF row
    <3>3. Linked(row, u) \in Run /\ Linked(row, u).status = "RUNNING" /\ Unstarted(Linked(row, u))
      BY <3>2, Rows DEF Unstarted
    <3>4. Set(r, Linked(row, u))
      BY <1>1, <2>2 DEF SessionStarted, row, r
    <3> QED BY <1>0, <2>2, <3>1, <3>3, <3>4, Sets, One DEF Legal, Status
  <2> QED BY <1>1, <2>1, <2>2 DEF SessionStarted, r
<1>2. CASE RequestApproval(u)
  <2>1. r \in Runs /\ Status(r) = "RUNNING" /\ Set(r, Waiting(run[r]))
    BY <1>2 DEF RequestApproval, r
  <2>2. Waiting(run[r]) \in Run /\ Waiting(run[r]).status = "WAITING_FOR_APPROVAL"
        /\ Unstarted(Waiting(run[r]))
    BY <1>0, <2>1, Rows DEF Unstarted
  <2> QED BY <1>0, <2>1, <2>2, Sets, One DEF Legal, Status
<1>3. CASE SessionCompleted(u)
  BY <1>3, <1>k DEF SessionCompleted
<1>4. CASE FinishTurn(u)
  BY <1>0, <1>4, Finishes, One DEF FinishTurn, r
<1>5. CASE TurnFails(u)
  BY <1>0, <1>5, Fails, One DEF TurnFails, r
<1>6. CASE TurnCancelled(u)
  BY <1>0, <1>6, Cancels, One DEF TurnCancelled, r
<1> QED BY <1>1, <1>2, <1>3, <1>4, <1>5, <1>6 DEF TurnStep

LEMMA RemoveRows == ASSUME TypeOK, Remove PROVE Wrote1
<1>1. RowsTyped
  BY Typed
<1>2. Over("CANCELLED") \in Run /\ Over("CANCELLED").status = "CANCELLED" /\ Unstarted(Over("CANCELLED"))
  BY DEF Over, NoRow, Run, Statuses, Unstarted
<1>3. RowsTyped'
  BY <1>1, <1>2 DEF RowsTyped, Remove, Unstarted
<1>4. ASSUME NEW r \in Runs PROVE Legal(r)
  BY <1>1, <1>2 DEF RowsTyped, Remove, Legal, Status, Withdrawn
<1> QED BY <1>3, <1>4 DEF Wrote1

-----------------------------------------------------------------------------
(* The types are inductive. *)

\* Who is at work holds a run.
Held ==
    /\ \A d \in Deliveries : /\ delivery[d].pc # "idle" => delivery[d].run \in Runs
                             /\ delivery[d].pc = "accepted" => delivery[d].turn \in Turns
    /\ \A u \in Turns : turn[u].pc \in {"accepted", "finishing"} => turn[u].run \in Runs

TInv == TypeOK /\ Held

LEMMA RunProcs ==
    ASSUME TInv, NEW r \in Runs, RunStep(r)
    PROVE  ProcsTyped' /\ Held'
<1>0. ProcsTyped /\ Held
  BY Typed DEF TInv
<1>1. UNCHANGED <<agent, delivery, turn, crashes>>
  BY DEF RunStep, QueueRun, InsertEventRun, CommitEventRun, DependencyFails, Stop, Decide,
         SettleRejected, ResumeApproved, ApprovedFails, FinishApproved, FindOverrun, TimeOut, RecoverRun, Age, procs
<1>2. overdue' \subseteq Runs /\ posting' \subseteq Runs /\ late' \subseteq Runs
  BY <1>0 DEF ProcsTyped, RunStep, QueueRun, InsertEventRun, CommitEventRun, DependencyFails, Stop,
         Decide, SettleRejected, ResumeApproved, ApprovedFails, FinishApproved, FindOverrun, TimeOut, RecoverRun,
         Age, procs
<1> QED BY <1>0, <1>1, <1>2 DEF ProcsTyped, Held

LEMMA DeliveryProcs ==
    ASSUME TInv, NEW d \in Deliveries, DeliveryStep(d)
    PROVE  ProcsTyped' /\ Held'
<1>0. ProcsTyped /\ Held /\ delivery[d] \in Delivery /\ Idle \in Delivery
  BY Typed DEF TInv, ProcsTyped, Idle, Delivery
<1>1. ASSUME NEW q \in Runs, PickRun(d, q) PROVE ProcsTyped' /\ Held'
  <2>1. [pc |-> "picked", run |-> q, turn |-> "none"] \in Delivery
    BY DEF Delivery
  <2> QED BY <1>0, <1>1, <2>1 DEF PickRun, ProcsTyped, Held
<1>2. CASE ClaimRun(d)
  <2> DEFINE c == [delivery[d] EXCEPT !.pc = "claimed"]
  <2>1. c \in Delivery /\ c.pc = "claimed" /\ c.run = delivery[d].run
    BY <1>0 DEF Delivery
  <2>2. delivery[d].run \in Runs
    BY <1>0, <1>2 DEF Held, ClaimRun
  <2>3. delivery' \in {[delivery EXCEPT ![d] = c], [delivery EXCEPT ![d] = Idle]}
    BY <1>0, <1>2 DEF ClaimRun, ProcsTyped
  <2> HIDE DEF c
  <2>4. UNCHANGED <<agent, turn, overdue, posting, crashes, late>>
    BY <1>2 DEF ClaimRun
  <2> QED BY <1>0, <2>1, <2>2, <2>3, <2>4 DEF ProcsTyped, Held, Idle
<1>3. CASE LinkSession(d)
  BY <1>0, <1>3 DEF LinkSession, ProcsTyped, Held, Idle
<1>4. CASE SendFails(d)
  BY <1>0, <1>4 DEF SendFails, ProcsTyped, Held, Idle
<1>5. ASSUME NEW u \in Turns, SendAccepted(d, u) PROVE ProcsTyped' /\ Held'
  <2> DEFINE a == [pc |-> "accepted", run |-> delivery[d].run, turn |-> u]
             t == [pc |-> "accepted", run |-> delivery[d].run]
  <2>1. delivery[d].run \in Runs
    BY <1>0, <1>5 DEF Held, SendAccepted
  <2>2. a \in Delivery /\ t \in Turn
    BY <2>1 DEF Delivery, Turn
  <2>3. a.run \in Runs /\ t.run \in Runs /\ a.turn \in Turns
    BY <2>1
  <2>4. /\ delivery' = [delivery EXCEPT ![d] = a] /\ turn' = [turn EXCEPT ![u] = t]
        /\ UNCHANGED <<agent, overdue, posting, crashes, late>>
    BY <1>5 DEF SendAccepted
  <2> HIDE DEF a, t
  <2> QED BY <1>0, <2>2, <2>3, <2>4 DEF ProcsTyped, Held
<1> QED BY <1>1, <1>2, <1>3, <1>4, <1>5 DEF DeliveryStep

LEMMA TurnProcs ==
    ASSUME TInv, NEW u \in Turns, TurnStep(u)
    PROVE  ProcsTyped' /\ Held'
<1>0. ProcsTyped /\ Held /\ Gone \in Turn
  BY Typed DEF TInv, Gone, Turn
<1>1. UNCHANGED <<agent, delivery, overdue, posting, crashes, late>>
  BY DEF TurnStep, SessionStarted, RequestApproval, SessionCompleted, FinishTurn, TurnFails,
         TurnCancelled, procs
<1>2. CASE UNCHANGED turn
  BY <1>0, <1>1, <1>2 DEF ProcsTyped, Held
<1>3. CASE turn' = [turn EXCEPT ![u] = Gone]
  BY <1>0, <1>1, <1>3 DEF ProcsTyped, Held, Gone
<1>4. CASE turn' = [turn EXCEPT ![u] = [pc |-> "finishing", run |-> turn[u].run]]
           /\ turn[u].pc = "accepted"
  <2> DEFINE f == [pc |-> "finishing", run |-> turn[u].run]
  <2>1. f.run \in Runs /\ f \in Turn
    BY <1>0, <1>4 DEF Held, Turn
  <2>2. turn' = [turn EXCEPT ![u] = f]
    BY <1>4
  <2> HIDE DEF f
  <2> QED BY <1>0, <1>1, <2>1, <2>2 DEF ProcsTyped, Held
<1> QED BY <1>2, <1>3, <1>4 DEF TurnStep, SessionStarted, RequestApproval, SessionCompleted,
           FinishTurn, TurnFails, TurnCancelled, procs

LEMMA OtherProcs ==
    ASSUME TInv, (\E to \in {"LIVE", "PAUSED", "ARCHIVED"} : ChangeStatus(to)) \/ Remove \/ AgentStops
    PROVE  ProcsTyped' /\ Held'
<1>0. ProcsTyped /\ Held /\ Idle \in Delivery
  BY Typed DEF TInv, Idle, Delivery
<1>1. CASE \E to \in {"LIVE", "PAUSED", "ARCHIVED"} : ChangeStatus(to)
  BY <1>0, <1>1 DEF ChangeStatus, procs, ProcsTyped, Held
<1>2. CASE Remove
  BY <1>0, <1>2 DEF Remove, procs, ProcsTyped, Held
<1>3. CASE AgentStops
  <2>1. crashes' \in 0 .. MaxCrashes
    BY <1>0, <1>3, RunConstants DEF AgentStops, ProcsTyped
  <2> QED BY <1>0, <1>3, <2>1 DEF AgentStops, ProcsTyped, Held, Idle
<1> QED BY <1>1, <1>2, <1>3

LEMMA NextRows == ASSUME TInv, [Next]_vars PROVE Wrote1
<1>0. TypeOK /\ Held /\ RowsTyped
  BY Typed DEF TInv
<1>1. ASSUME NEW r \in Runs, RunStep(r) PROVE Wrote1
  BY <1>0, <1>1, StepRows, One
<1>2. ASSUME NEW d \in Deliveries, DeliveryStep(d) PROVE Wrote1
  BY <1>0, <1>2, DeliveryRows DEF Held
<1>3. ASSUME NEW u \in Turns, TurnStep(u) PROVE Wrote1
  BY <1>0, <1>3, TurnRows DEF Held
<1>4. CASE Remove
  BY <1>0, <1>4, RemoveRows
<1>5. CASE UNCHANGED run
  BY <1>0, <1>5, Kept DEF Wrote1
<1> QED BY <1>1, <1>2, <1>3, <1>4, <1>5 DEF Next, ChangeStatus, AgentStops, vars

LEMMA TInvStep == TInv /\ [Next]_vars => TInv'
<1> SUFFICES ASSUME TInv, [Next]_vars PROVE TInv'
  OBVIOUS
<1>1. RowsTyped'
  BY NextRows DEF Wrote1
<1>2. ProcsTyped' /\ Held'
  <2>1. CASE UNCHANGED vars
    BY <2>1, Typed DEF vars, TInv, ProcsTyped, Held
  <2> QED BY <2>1, RunProcs, DeliveryProcs, TurnProcs, OtherProcs DEF Next
<1>3. TypeOK'
  BY <1>1, <1>2 DEF TypeOK, RowsTyped, ProcsTyped, Unstarted
<1> QED BY <1>2, <1>3 DEF TInv

LEMMA TInvInit == Init => TInv
  BY RunConstants DEF Init, TInv, TypeOK, Held, Idle, NoRow, Run, Delivery, Turn, Statuses

LEMMA Inductive == Spec => []TInv
  BY TInvInit, TInvStep, PTL DEF Spec

\* The state of runs, deliveries, turns and recoveries stays well typed, and a
\* run that has not been delivered has neither startedAt nor a session.
THEOREM RunsTyped == Spec => []TypeOK
<1>1. TInv => TypeOK
  BY DEF TInv
<1> QED BY <1>1, Inductive, PTL

-----------------------------------------------------------------------------
(* What every step keeps to. *)

\* No failure, late delivery error or timeout ends a run whose post a person has
\* yet to decide on.
THEOREM PendingAlwaysWaits == Spec => PendingWaits
<1>1. ASSUME TInv, [Next]_vars, NEW r \in Runs,
             Status(r) = "WAITING_FOR_APPROVAL", run[r].approval = "PENDING"
      PROVE  Status(r)' \in {"WAITING_FOR_APPROVAL", "CANCELLED"}
  BY <1>1, NextRows DEF Wrote1, Legal
<1>2. TInv /\ [Next]_vars =>
        \A r \in Runs : Status(r) = "WAITING_FOR_APPROVAL" /\ run[r].approval = "PENDING" =>
                           Status(r)' \in {"WAITING_FOR_APPROVAL", "CANCELLED"}
  BY <1>1
<1> QED BY <1>2, Inductive, PTL DEF Spec, PendingWaits

\* The runs of an agent implement RunLifecycle: whatever writes a status, an
\* ended run stays as it ended.
THEOREM RunsKeepLifecycle == Spec => Lifecycle
<1>1. Init => Life!Init
  BY DEF Init, Life!Init, Visible, Status, NoRow
<1>2. ASSUME TInv, [Next]_vars PROVE [Life!Next]_Visible
  <2>1. \A r \in Runs : Legal(r) /\ Status(r) \in Statuses /\ Status(r)' \in Statuses
    BY <1>2, NextRows, Typed DEF Wrote1, TInv, RowsTyped, Run, Status
  <2>2. ASSUME NEW r \in Runs
        PROVE  Visible'[r] = Visible[r] \/ <<Visible[r], Visible'[r]>> \in Life!Moves
    <3>1. Visible[r] = (IF Status(r) = "inserting" THEN "absent" ELSE Status(r))
      BY DEF Visible
    <3>2. Visible'[r] = (IF Status(r)' = "inserting" THEN "absent" ELSE Status(r)')
      BY DEF Visible
    <3> DEFINE s == Status(r)  t == Status(r)'
    <3>3. Legal(r) BY <2>1
    <3> QED BY <3>1, <3>2, <3>3 DEF Legal, Life!Moves
  <2> QED BY <2>2 DEF Life!Next
<1>3. TInv /\ [Next]_vars => [Life!Next]_Visible
  BY <1>2
<1> QED BY <1>1, <1>3, Inductive, PTL DEF Spec, Lifecycle, Life!Spec

-----------------------------------------------------------------------------
(* One active run. *)

\* Whom a step takes up: nobody, or the oldest queued run of an idle agent.
Takes == \A r \in Runs : Touched(r)' => Touched(r) \/ (Status(r) = "QUEUED" /\ First(r))

\* What a step inserts is the newest run, and a run that becomes visible behind
\* a younger one that was taken up is remembered.
Queues ==
    /\ late \subseteq late'
    /\ \A r \in Runs : Status(r) = "absent" /\ Status(r)' # "absent" => Newest(r)
    /\ \A r, q \in Runs : Status(r) = "inserting" /\ Status(r)' # "inserting"
                             /\ r < q /\ TakenUp(q)' => r \in late'

LEMMA Ordered ==
    ASSUME InOrder, Takes, Queues, \A r \in Runs : Legal(r)
    PROVE  InOrder'
<1> SUFFICES ASSUME NEW r \in Runs, TakenUp(r)'
             PROVE  Status(r)' # "absent" /\ First(r)'
  BY DEF InOrder
<1>1. ~Ended(r)
  BY DEF TakenUp, Ended, Legal
<1>2. Status(r) # "absent" /\ First(r)
  BY <1>1 DEF TakenUp, InOrder, Takes
<1>3. Status(r)' # "absent"
  BY <1>2 DEF Legal
<1>4. ASSUME NEW q \in Runs, q < r PROVE Quiet(q)' \/ q \in late'
  <2>0. r \in Nat /\ q \in Nat
    BY RunConstants
  <2>1. CASE q \in late
    BY <2>1 DEF Queues
  <2>2. CASE Ended(q)
    BY <2>2 DEF Quiet, Ended, Legal
  <2>3. CASE Status(q) = "absent"
    <3>1. ~Newest(q)
      BY <1>2, <1>4, <2>0 DEF Newest
    <3> QED BY <2>3, <3>1 DEF Queues, Quiet
  <2>4. CASE Status(q) = "inserting"
    BY <1>4, <2>4 DEF Queues, Quiet
  <2> QED BY <1>2, <1>4, <2>1, <2>2, <2>3, <2>4 DEF First, Quiet
<1> QED BY <1>3, <1>4 DEF First

\* A step that changes one row, and no delivery or turn.
LEMMA RowOnly ==
    ASSUME NEW r \in Runs, \A q \in Runs \ {r} : run'[q] = run[q], UNCHANGED <<delivery, turn>>,
           Active(r)' => Touched(r)
    PROVE  Takes
  BY DEF Takes, Touched, Active, Status

LEMMA RunTakes ==
    ASSUME TInv, NEW r \in Runs, RunStep(r)
    PROVE  Takes
<1>1. \A q \in Runs \ {r} : run'[q] = run[q]
  BY StepRows DEF TInv, Wrote
<1>2. UNCHANGED <<delivery, turn>>
  BY DEF RunStep, QueueRun, InsertEventRun, CommitEventRun, DependencyFails, Stop, Decide,
         SettleRejected, ResumeApproved, ApprovedFails, FinishApproved, FindOverrun, TimeOut, RecoverRun, Age, procs
<1>3. run \in [Runs -> Run]
  BY Typed DEF TInv, RowsTyped
<1>4. Active(r)' => Active(r)
  BY <1>3 DEF RunStep, QueueRun, InsertEventRun, CommitEventRun, DependencyFails, Stop, Decide,
         SettleRejected, ResumeApproved, ApprovedFails, FinishApproved, FindOverrun, TimeOut, RecoverRun, Age,
         Active, Status, Set, Moved, Over, NoRow, Run, FailRun, CancelRun, FinishRun, Undelivered,
         Requeued
<1> QED BY <1>1, <1>2, <1>4, RowOnly DEF Touched

LEMMA DeliveryTakes ==
    ASSUME TInv, InOrder, NEW d \in Deliveries, DeliveryStep(d)
    PROVE  Takes
<1>0. run \in [Runs -> Run] /\ delivery \in [Deliveries -> Delivery] /\ turn \in [Turns -> Turn] /\ Held
  BY Typed DEF TInv, RowsTyped, ProcsTyped
<1>s. 0 \notin Runs
  BY RunConstants
<1>1. ASSUME NEW q \in Runs, PickRun(d, q) PROVE Takes
  <2>1. Status(q) = "QUEUED" /\ First(q)
    <3>1. Status(q) = "QUEUED" /\ (\A p \in Runs : ~Active(p))
          /\ \A p \in Runs : Status(p) = "QUEUED" => q <= p
      BY <1>1 DEF PickRun, Runnable, Oldest
    <3>2. ASSUME NEW p \in Runs, p < q PROVE Quiet(p)
      <4>1. Status(p) # "QUEUED" /\ ~Active(p) /\ Status(p) \in Statuses
        BY <1>0, <3>1, <3>2, RunConstants DEF Status, Run
      <4> QED BY <4>1 DEF Quiet, Ended, Active, Statuses
    <3> QED BY <3>1, <3>2 DEF First
  <2>2. ASSUME NEW r \in Runs, r # q, Touched(r)' PROVE Touched(r)
    BY <1>0, <1>1, <2>2 DEF PickRun, Touched, Active, Status
  <2> QED BY <2>1, <2>2 DEF Takes
<1>2. CASE ~\E q \in Runs : PickRun(d, q)
  <2>1. \A e \in Deliveries : delivery'[e].run \in {0, delivery[e].run}
    <3>0. delivery \in [Deliveries -> Delivery]
      BY <1>0
    <3>1. CASE ClaimRun(d)
      BY <3>0, <3>1 DEF ClaimRun, Idle, Delivery
    <3>2. CASE LinkSession(d)
      BY <3>0, <3>2 DEF LinkSession, Idle, Delivery
    <3>3. CASE SendFails(d)
      BY <3>0, <3>3 DEF SendFails, Idle, Delivery
    <3>4. CASE \E u \in Turns : SendAccepted(d, u)
      BY <3>0, <3>4 DEF SendAccepted, Delivery
    <3> QED BY <1>2, <3>1, <3>2, <3>3, <3>4 DEF DeliveryStep
  <2>2. \A u \in Turns : turn'[u].run = turn[u].run \/ turn'[u].run = delivery[d].run
    BY <1>0, <1>2 DEF DeliveryStep, ClaimRun, LinkSession, SendFails, SendAccepted
  <2>3. ASSUME NEW r \in Runs, r # delivery[d].run PROVE run'[r] = run[r]
    BY <1>0, <1>2, <2>3 DEF DeliveryStep, ClaimRun, LinkSession, SendFails, SendAccepted, Set, FailRun
  <2> QED BY <1>s, <2>1, <2>2, <2>3 DEF Takes, Touched, Active, Status
<1> QED BY <1>1, <1>2

LEMMA TurnTakes ==
    ASSUME TInv, NEW u \in Turns, TurnStep(u)
    PROVE  Takes
<1>0. run \in [Runs -> Run] /\ turn \in [Turns -> Turn]
  BY Typed DEF TInv, RowsTyped, ProcsTyped
<1>s. 0 \notin Runs
  BY RunConstants
<1>1. UNCHANGED delivery /\ \A v \in Turns : turn'[v].run \in {0, turn[v].run}
  BY <1>0 DEF TurnStep, SessionStarted, RequestApproval, SessionCompleted, FinishTurn, TurnFails,
         TurnCancelled, procs, Gone
<1>2. ASSUME NEW r \in Runs, r # turn[u].run PROVE run'[r] = run[r]
  BY <1>0, <1>2 DEF TurnStep, SessionStarted, RequestApproval, SessionCompleted, FinishTurn,
         TurnFails, TurnCancelled, Set, FailRun, CancelRun, FinishRun
<1> QED BY <1>s, <1>1, <1>2 DEF Takes, Touched, Active, Status

LEMMA OtherTakes ==
    ASSUME TInv, (\E to \in {"LIVE", "PAUSED", "ARCHIVED"} : ChangeStatus(to)) \/ Remove \/ AgentStops
    PROVE  Takes
<1>0. run \in [Runs -> Run]
  BY Typed DEF TInv, RowsTyped
<1>s. 0 \notin Runs
  BY RunConstants
<1>1. CASE \E to \in {"LIVE", "PAUSED", "ARCHIVED"} : ChangeStatus(to)
  BY <1>1 DEF ChangeStatus, procs, Takes, Touched, Active, Status
<1>2. CASE Remove
  BY <1>0, <1>2 DEF Remove, procs, Takes, Touched, Active, Status, Over, NoRow, Run
<1>3. CASE AgentStops
  BY <1>s, <1>3 DEF AgentStops, Idle, Takes, Touched, Active, Status
<1> QED BY <1>1, <1>2, <1>3

\* Only CommitEventRun makes a row visible, and it looks for younger runs.
LEMMA Commits ==
    ASSUME TInv, NEW r \in Runs, CommitEventRun(r), NEW q \in Runs, r < q, TakenUp(q)'
    PROVE  r \in late'
<1>1. q # r
  BY RunConstants
<1>2. Status(q)' = Status(q)
  BY <1>1, StepRows DEF TInv, Wrote, RunStep, Status
<1>3. TakenUp(q)
  BY <1>2 DEF CommitEventRun, procs, TakenUp, Touched, Active, Ended
<1> QED BY <1>3 DEF CommitEventRun, TakenUp

\* The part of Queues that is about one row.
Enters(r) ==
    /\ Status(r) = "absent" /\ Status(r)' # "absent" => Newest(r)
    /\ Status(r) = "inserting" /\ Status(r)' # "inserting" =>
          \A q \in Runs : r < q /\ TakenUp(q)' => r \in late'

LEMMA RunEnters == ASSUME TInv, NEW r \in Runs, RunStep(r) PROVE Enters(r)
<1>0. run \in [Runs -> Run]
  BY Typed DEF TInv, RowsTyped
<1>1. CASE CommitEventRun(r)
  BY <1>1, Commits DEF Enters, CommitEventRun
<1>2. CASE ~CommitEventRun(r)
  <2>1. Status(r) = "absent" /\ Status(r)' # "absent" => Newest(r)
    BY <1>0, <1>2 DEF RunStep, QueueRun, InsertEventRun, DependencyFails, Stop,
         Decide, SettleRejected, ResumeApproved, ApprovedFails, FinishApproved, FindOverrun, TimeOut, RecoverRun,
         Age, Newest, Status, Set, Moved, Run, FailRun, CancelRun, FinishRun, Failable, Cancellable,
         Undelivered, Runnable, Oldest
  <2>2. Status(r) = "inserting" => Status(r)' = "inserting"
    BY <1>0, <1>2 DEF RunStep, QueueRun, InsertEventRun, DependencyFails, Stop,
         Decide, SettleRejected, ResumeApproved, ApprovedFails, FinishApproved, FindOverrun, TimeOut, RecoverRun,
         Age, Newest, Status, Set, Moved, Run, FailRun, CancelRun, FinishRun, Failable, Cancellable,
         Undelivered, Runnable, Oldest
  <2> QED BY <2>1, <2>2 DEF Enters
<1> QED BY <1>1, <1>2

\* Every other step leaves the rows alone that are not visible.
LEMMA OtherEnters ==
    ASSUME TInv, Next, NEW r \in Runs, ~RunStep(r), Status(r) \in {"absent", "inserting"}
    PROVE  Status(r)' = Status(r)
<1>0. run \in [Runs -> Run] /\ Held
  BY Typed DEF TInv, RowsTyped
<1>1. ASSUME NEW q \in Runs, RunStep(q) PROVE Status(r)' = Status(r)
  <2>1. q # r
    BY <1>1
  <2> QED BY <1>1, <2>1, StepRows DEF TInv, Wrote, Status
<1>2. ASSUME NEW d \in Deliveries, DeliveryStep(d) PROVE Status(r)' = Status(r)
  BY <1>0, <1>2 DEF DeliveryStep, PickRun, ClaimRun, LinkSession, SendFails, SendAccepted,
       Set, Status, FailRun, Failable, Cancellable
<1>3. ASSUME NEW u \in Turns, TurnStep(u) PROVE Status(r)' = Status(r)
  BY <1>0, <1>3 DEF TurnStep, SessionStarted, RequestApproval, SessionCompleted, FinishTurn,
       TurnFails, TurnCancelled, Set, Status, FailRun, CancelRun, FinishRun, Failable, Cancellable
<1>4. ASSUME Remove PROVE Status(r)' = Status(r)
  BY <1>0, <1>4 DEF Remove, Withdrawn, Status
<1> QED BY <1>1, <1>2, <1>3, <1>4 DEF Next, ChangeStatus, AgentStops, Status

LEMMA Remembers == ASSUME TInv, Next PROVE late \subseteq late'
<1>1. ASSUME NEW r \in Runs, RunStep(r) PROVE late \subseteq late'
  BY <1>1 DEF RunStep, QueueRun, InsertEventRun, CommitEventRun, DependencyFails, Stop, Decide,
       SettleRejected, ResumeApproved, ApprovedFails, FinishApproved, FindOverrun, TimeOut, RecoverRun, Age
<1>2. ASSUME NEW d \in Deliveries, DeliveryStep(d) PROVE late \subseteq late'
  BY <1>2 DEF DeliveryStep, PickRun, ClaimRun, LinkSession, SendFails, SendAccepted
<1>3. ASSUME NEW u \in Turns, TurnStep(u) PROVE late \subseteq late'
  BY <1>3 DEF TurnStep, SessionStarted, RequestApproval, SessionCompleted, FinishTurn, TurnFails,
       TurnCancelled
<1> QED BY <1>1, <1>2, <1>3 DEF Next, ChangeStatus, Remove, AgentStops

LEMMA StepQueues == ASSUME TInv, Next PROVE Queues
<1>1. ASSUME NEW r \in Runs PROVE Enters(r)
  <2>1. CASE RunStep(r)
    BY <2>1, RunEnters
  <2>2. CASE ~RunStep(r)
    BY <2>2, OtherEnters DEF Enters
  <2> QED BY <2>1, <2>2
<1> QED BY <1>1, Remembers DEF Queues, Enters

LEMMA OrderStep == TInv /\ InOrder /\ [Next]_vars => InOrder'
<1> SUFFICES ASSUME TInv, InOrder, [Next]_vars PROVE InOrder'
  OBVIOUS
<1>1. CASE UNCHANGED vars
  BY <1>1 DEF vars, InOrder, TakenUp, First, Touched, Quiet, Active, Ended, Status
<1>2. CASE Next
  <2>1. Takes
    BY <1>2, RunTakes, DeliveryTakes, TurnTakes, OtherTakes DEF Next
  <2>2. Queues /\ \A r \in Runs : Legal(r)
    BY <1>2, StepQueues, NextRows DEF Wrote1
  <2> QED BY <2>1, <2>2, Ordered
<1> QED BY <1>1, <1>2

\* An agent works on one run at a time, however deliveries, recoveries and late
\* sessions interleave, unless the older run of two became visible only when the
\* younger had been taken up.
THEOREM OneRunActive == Spec => []OneActive
<1>1. Init => InOrder
  BY RunConstants DEF Init, InOrder, TakenUp, Touched, Active, Status, NoRow, Idle
<1>2. TInv /\ InOrder /\ [Next]_vars => InOrder'
  BY OrderStep
<1>3. InOrder => OneActive
  BY DEF InOrder, TakenUp, Touched, First, OneActive, Quiet, Ended, Active
<1> QED BY <1>1, <1>2, <1>3, Inductive, PTL DEF Spec
=============================================================================
