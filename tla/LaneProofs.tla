----------------------------- MODULE LaneProofs -----------------------------
(***************************************************************************)
(* The work queue and the two lanes that feed on it, for any number of     *)
(* rows, records, attempts, sweeps and stops, in three parts.              *)
(*                                                                         *)
(* The queue (TaskQueue): rows keep their type, the bookkeeping of a row   *)
(* is consistent, and a closed row is closed for good.                     *)
(*                                                                         *)
(* The research lane (ResearchLane): every step of a dispatcher, a         *)
(* session, a sweep or the API is a step the queue allows or leaves the    *)
(* rows alone.  The heart of it is SweepFresh: what a sweep remembers of a *)
(* row stays good enough to recognise a claim made behind its back.        *)
(*                                                                         *)
(* The company lane (CompanyLane) shares the rows, the settling and the    *)
(* sweep; what its own steps do is shown step by step at the end.          *)
(***************************************************************************)
EXTENDS CompanyLane, TLAPS

\* The bookkeeping of a row: only an open row that was handed out holds a
\* lease, a row is given up only after its last attempt, and no row is closed
\* that was never attempted.
Consistent(row) ==
    /\ row.outcome # "none" <=> row.state = "finished"
    /\ row.lease # "none" => row.state = "open" /\ row.attempts > 0
    /\ row.outcome = "retired" => row.attempts = MAX_ATTEMPTS
    /\ row.state = "finished" => row.attempts > 0

QueueInv == TypeOK /\ \A t \in Tasks : Consistent(task[t])

\* A closed row never changes again.
ClosedForGood == [][\A t \in Tasks : Finished(t) => task'[t] = task[t]]_task

-----------------------------------------------------------------------------
LEMMA QueueInit == Init => QueueInv
  BY QueueConstants
  DEF Init, QueueInv, TypeOK, Consistent, Row, NoRow, States, Leases, Outcomes

\* One step per kind of step of the queue; each shows that the rows it
\* rewrites end up as rows with consistent bookkeeping.
LEMMA QueueNext == QueueInv /\ [QueueStep]_task => QueueInv'
  <1> SUFFICES ASSUME QueueInv, [QueueStep]_task PROVE QueueInv'
    OBVIOUS
  <1> DEFINE Good(row) == row \in Row /\ Consistent(row)
  <1>1. \A t \in Tasks : Good(task[t])
    BY DEF QueueInv, TypeOK
  <1>2. ASSUME NEW f, task' = [t \in Tasks |-> f[t]], \A t \in Tasks : Good(f[t])
        PROVE  QueueInv'
    BY <1>2 DEF QueueInv, TypeOK
  <1>3. ASSUME NEW t \in Tasks, NEW row, Good(row), task' = [task EXCEPT ![t] = row]
        PROVE  QueueInv'
    <2>1. task' = [u \in Tasks |-> IF u = t THEN row ELSE task[u]]
      BY <1>3 DEF QueueInv, TypeOK
    <2> HIDE DEF Good
    <2>2. \A u \in Tasks : Good([v \in Tasks |-> IF v = t THEN row ELSE task[v]][u])
      BY <1>1, <1>3
    <2> QED
      BY <1>2, <2>1, <2>2
  <1> USE QueueConstants DEF Consistent, Row, States, Leases, Outcomes, Open
  <1>4. ASSUME NEW t \in Tasks, NEW k \in Kinds, NEW s \in Subjects, NEW due \in BOOLEAN,
               Insert(t, k, s, due)
        PROVE  QueueInv'
    <2> DEFINE row == [state |-> "open", kind |-> k, subject |-> s, attempts |-> 0,
                       due |-> due, lease |-> "none", outcome |-> "none"]
    <2>1. Good(row)
      OBVIOUS
    <2>2. task' = [task EXCEPT ![t] = row]
      BY <1>4, Zenon DEF Insert
    <2> HIDE DEF row, Good
    <2> QED
      BY <1>3, <2>1, <2>2
  <1>5. ASSUME NEW t \in Tasks, Postpone(t) PROVE QueueInv'
    <2>1. Good([task[t] EXCEPT !.due = FALSE])
      BY <1>1, <1>5 DEF Postpone
    <2>2. task' = [task EXCEPT ![t] = [task[t] EXCEPT !.due = FALSE]]
      BY <1>5, Zenon DEF Postpone
    <2> QED
      BY <1>3, <2>1, <2>2
  <1>6. ASSUME NEW t \in Tasks, Lapse(t) PROVE QueueInv'
    <2>1. Good([task[t] EXCEPT !.lease = "expired"])
      BY <1>1, <1>6 DEF Lapse, Leased
    <2>2. task' = [task EXCEPT ![t] = [task[t] EXCEPT !.lease = "expired"]]
      BY <1>6, Zenon DEF Lapse
    <2> QED
      BY <1>3, <2>1, <2>2
  <1>7. ASSUME NEW t \in Tasks, ComeDue(t) PROVE QueueInv'
    <2>1. Good([task[t] EXCEPT !.due = TRUE])
      BY <1>1, <1>7 DEF ComeDue
    <2>2. task' = [task EXCEPT ![t] = [task[t] EXCEPT !.due = TRUE]]
      BY <1>7, Zenon DEF ComeDue
    <2> QED
      BY <1>3, <2>1, <2>2
  <1>8. ASSUME NEW S \in SUBSET Tasks, Claim(S, Kinds) PROVE QueueInv'
    <2> DEFINE f == [t \in Tasks |-> IF t \in S
                       THEN [task[t] EXCEPT !.lease = "live", !.attempts = @ + 1]
                       ELSE task[t]]
    <2>1. \A t \in Tasks : Good(f[t])
      <3> TAKE t \in Tasks
      <3>1. CASE t \in S
        <4>1. Good(task[t]) /\ task[t].state = "open" /\ task[t].attempts < MAX_ATTEMPTS
          BY <1>1, <1>8, <3>1, Zenon DEF Claim, Claimable
        <4>2. task[t].attempts \in Nat /\ task[t].attempts + 1 \in 0 .. MAX_ATTEMPTS
          BY <4>1
        <4>3. f[t] = [task[t] EXCEPT !.lease = "live", !.attempts = task[t].attempts + 1]
          BY <3>1
        <4> DEFINE r == [task[t] EXCEPT !.lease = "live", !.attempts = task[t].attempts + 1]
        <4>4. /\ r \in Row
              /\ r.state = "open" /\ r.outcome = "none" /\ r.lease = "live"
              /\ r.attempts = task[t].attempts + 1
          BY <4>1, <4>2
        <4>5. Good(r)
          BY <4>2, <4>4
        <4>6. f[t] = r
          BY <4>3
        <4> HIDE DEF r, f, Good
        <4> QED
          BY <4>5, <4>6
      <3>2. CASE t \notin S
        BY <1>1, <3>2
      <3> QED
        BY <3>1, <3>2
    <2>2. task' = [t \in Tasks |-> f[t]]
      BY <1>8 DEF Claim
    <2> HIDE DEF f, Good
    <2> QED
      BY <1>2, <2>1, <2>2
  <1>9. ASSUME NEW S \in SUBSET Tasks, NEW o \in Outcomes \ {"none"},
               \A t \in S : task[t].attempts > 0 /\ (o = "retired" => Exhausted(t)),
               Close(S, o)
        PROVE  QueueInv'
    <2> DEFINE f == [t \in Tasks |-> IF t \in S
                       THEN [task[t] EXCEPT !.state = "finished", !.outcome = o,
                                            !.lease = "none", !.due = FALSE]
                       ELSE task[t]]
    <2>1. \A t \in Tasks : Good(f[t])
      <3> TAKE t \in Tasks
      <3>1. CASE t \in S
        <4>1. /\ task[t] \in Row /\ task[t].attempts > 0
              /\ o = "retired" => task[t].attempts = MAX_ATTEMPTS
          BY <1>1, <1>9, <3>1 DEF Exhausted
        <4> QED
          BY <1>9, <3>1, <4>1
      <3>2. CASE t \notin S
        BY <1>1, <3>2
      <3> QED
        BY <3>1, <3>2
    <2>2. task' = [t \in Tasks |-> f[t]]
      BY <1>9 DEF Close
    <2> HIDE DEF f, Good
    <2> QED
      BY <1>2, <2>1, <2>2
  <1>10. ASSUME NEW S \in SUBSET Tasks, Release(S) PROVE QueueInv'
    <2> DEFINE f == [t \in Tasks |-> IF t \in S THEN [task[t] EXCEPT !.lease = "none"]
                                               ELSE task[t]]
    <2>1. \A t \in Tasks : Good(f[t])
      BY <1>1
    <2>2. task' = [t \in Tasks |-> f[t]]
      BY <1>10 DEF Release
    <2> HIDE DEF f, Good
    <2> QED
      BY <1>2, <2>1, <2>2
  <1>11. ASSUME NEW t \in Tasks, NEW o \in {"ran", "stopped"}, task[t].attempts > 0, Complete(t, o)
         PROVE  QueueInv'
    BY <1>9, <1>11 DEF Complete
  <1>12. ASSUME NEW S \in SUBSET Tasks, Retire(S) \/ Land(S) PROVE QueueInv'
    <2>1. \A t \in Tasks : Exhausted(t) => task[t].attempts > 0
      BY <1>1 DEF Exhausted
    <2> QED
      BY <1>9, <1>12, <2>1 DEF Retire, Land
  <1>13. CASE UNCHANGED task
    BY <1>13 DEF QueueInv, TypeOK
  <1> QED
    BY <1>4, <1>5, <1>6, <1>7, <1>8, <1>10, <1>11, <1>12, <1>13 DEF QueueStep

\* The rows of the queue are well typed and their bookkeeping is consistent,
\* whatever the order of claims, completions, retirements and sweeps.
THEOREM QueueInvariant == QueueSpec => []QueueInv
  BY QueueInit, QueueNext, PTL DEF QueueSpec

LEMMA ClosedStep ==
  ASSUME [QueueStep]_task, NEW t \in Tasks, Finished(t), QueueInv
  PROVE  task'[t] = task[t]
  <1> USE DEF QueueInv, TypeOK, Row, Finished, Open
  <1>1. CASE UNCHANGED task
    BY <1>1
  <1>2. CASE QueueStep
    <2>1. \A u \in Tasks, k \in Kinds, s \in Subjects, due \in BOOLEAN :
             Insert(u, k, s, due) => task'[t] = task[t]
      BY DEF Insert
    <2>2. \A u \in Tasks : Postpone(u) \/ Lapse(u) \/ ComeDue(u) => task'[t] = task[t]
      BY DEF Postpone, Lapse, ComeDue
    <2>3. \A u \in Tasks, o \in {"ran", "stopped"} : Complete(u, o) => task'[t] = task[t]
      BY DEF Complete, Close
    <2>4. \A S \in SUBSET Tasks : Claim(S, Kinds) => task'[t] = task[t]
      BY DEF Claim, Claimable
    <2>5. \A S \in SUBSET Tasks : Retire(S) \/ Land(S) => task'[t] = task[t]
      BY DEF Retire, Exhausted, Land, Close
    <2>6. \A S \in SUBSET Tasks : Release(S) => task'[t] = task[t]
      BY DEF Release
    <2> QED
      BY <1>2, <2>1, <2>2, <2>3, <2>4, <2>5, <2>6 DEF QueueStep
  <1> QED
    BY <1>1, <1>2

\* completeTask, retireExhausted and the sweep all close rows; none of them, and
\* no claim or booking, changes a row that is closed.
THEOREM ClosedRowsStay == QueueSpec => ClosedForGood
  <1>1. QueueInv /\ [QueueStep]_task => [\A t \in Tasks : Finished(t) => task'[t] = task[t]]_task
    BY ClosedStep
  <1> QED
    BY <1>1, QueueInvariant, PTL DEF QueueSpec, ClosedForGood

-----------------------------------------------------------------------------
\* A row that was ever handed out exists and names a contact.
RowsNamed == \A t \in Tasks :
    /\ task[t].state # "absent" => task[t].subject \in Subjects
    /\ task[t].attempts > 0 => task[t].state # "absent"

\* Only rows that were handed out are worked on or book the next look.
WorkClaimed == \A t \in Tasks :
    /\ \A a \in Attempts : work[t][a] # "idle" => task[t].attempts > 0
    /\ booking[t] # "idle" => task[t].attempts > 0 /\ "recheck" \in Kinds

\* A row in a sweep's hands was not leased when the sweep saw it, so while its
\* attempts are those the sweep saw it is not leased now.
SweepFresh == \A w \in Sweepers : \A t \in Tasks :
    t \in sweep[w].open \cup sweep[w].landed \cup sweep[w].dead =>
        /\ sweep[w].seen[t] <= task[t].attempts
        /\ Open(t) /\ task[t].attempts = sweep[w].seen[t] => ~Leased(t)
        /\ t \in sweep[w].landed => sweep[w].seen[t] > 0

LaneInv == QueueInv /\ LaneTypeOK /\ RowsNamed /\ WorkClaimed /\ SweepFresh

-----------------------------------------------------------------------------
\* What no step of the queue does: lower the attempts of a row, rename it, or
\* lease it without counting an attempt.
LEMMA QueueMonotone ==
  ASSUME QueueInv, RowsNamed, [QueueStep]_task, NEW t \in Tasks
  PROVE  /\ task'[t].attempts >= task[t].attempts
         /\ task[t].state # "absent" => /\ task'[t].state # "absent"
                                        /\ task'[t].subject = task[t].subject
         /\ task'[t].state # "absent" => task'[t].subject \in Subjects
         /\ task'[t].attempts > 0 => task'[t].state # "absent"
         /\ Open(t)' /\ Leased(t)' /\ task'[t].attempts = task[t].attempts
              => Open(t) /\ Leased(t)
  <1> DEFINE P == /\ task'[t].attempts >= task[t].attempts
                  /\ task[t].state # "absent" => /\ task'[t].state # "absent"
                                                 /\ task'[t].subject = task[t].subject
                  /\ task'[t].state # "absent" => task'[t].subject \in Subjects
                  /\ task'[t].attempts > 0 => task'[t].state # "absent"
                  /\ Open(t)' /\ Leased(t)' /\ task'[t].attempts = task[t].attempts
                       => Open(t) /\ Leased(t)
  <1>0. /\ task[t] \in Row /\ task[t].attempts \in Nat
        /\ task[t].state # "absent" => task[t].subject \in Subjects
        /\ task[t].attempts > 0 => task[t].state # "absent"
    BY QueueConstants DEF QueueInv, TypeOK, Row, RowsNamed
  <1> USE DEF Open, Leased
  <1>1. CASE task'[t] = task[t]
    BY <1>0, <1>1
  <1>2. ASSUME NEW u \in Tasks, NEW k \in Kinds, NEW s \in Subjects, NEW due \in BOOLEAN,
               Insert(u, k, s, due)
        PROVE  P
    <2>1. CASE u = t
      <3>1. /\ task[t].state = "absent" /\ task'[t].state = "open" /\ task'[t].subject = s
            /\ task'[t].lease = "none" /\ task'[t].attempts = 0
        BY <1>2, <2>1 DEF Insert, QueueInv, TypeOK
      <3> QED
        BY <1>0, <3>1
    <2> QED
      BY <1>1, <1>2, <2>1 DEF Insert, QueueInv, TypeOK
  <1>3. ASSUME NEW u \in Tasks, Postpone(u) \/ Lapse(u) \/ ComeDue(u)
        PROVE  P
    <2>1. \/ task'[t] = task[t]
          \/ task[t].state = "open" /\ task'[t] = [task[t] EXCEPT !.due = FALSE]
          \/ task[t].state = "open" /\ task'[t] = [task[t] EXCEPT !.due = TRUE]
          \/ task[t].state = "open" /\ task'[t] = [task[t] EXCEPT !.lease = "expired"]
      BY <1>3 DEF Postpone, Lapse, ComeDue, QueueInv, TypeOK
    <2> QED
      BY <1>0, <1>1, <2>1 DEF Row
  <1>4. ASSUME NEW S \in SUBSET Tasks, Claim(S, Kinds)
        PROVE  P
    <2>1. CASE t \in S
      <3>1. /\ task[t].state = "open"
            /\ task'[t] = [task[t] EXCEPT !.lease = "live", !.attempts = task[t].attempts + 1]
        BY <1>4, <2>1 DEF Claim, Claimable
      <3>2. /\ task'[t].attempts = task[t].attempts + 1 /\ task'[t].state = "open"
            /\ task'[t].subject = task[t].subject
        BY <1>0, <3>1 DEF Row
      <3> QED
        BY <1>0, <3>1, <3>2
    <2>2. CASE t \notin S
      BY <1>1, <1>4, <2>2 DEF Claim
    <2> QED
      BY <2>1, <2>2
  <1>5. ASSUME NEW S \in SUBSET Tasks, NEW o, \A u \in S : Open(u), Close(S, o)
        PROVE  P
    <2>1. CASE t \in S
      <3>1. /\ task[t].state = "open"
            /\ task'[t] = [task[t] EXCEPT !.state = "finished", !.outcome = o,
                                          !.lease = "none", !.due = FALSE]
        BY <1>5, <2>1 DEF Close
      <3>2. /\ task'[t].attempts = task[t].attempts /\ task'[t].state = "finished"
            /\ task'[t].subject = task[t].subject
        BY <1>0, <3>1 DEF Row
      <3> QED
        BY <1>0, <3>1, <3>2
    <2>2. CASE t \notin S
      BY <1>1, <1>5, <2>2 DEF Close
    <2> QED
      BY <2>1, <2>2
  <1>6. ASSUME NEW u \in Tasks, NEW o \in {"ran", "stopped"}, Complete(u, o) PROVE P
    BY <1>5, <1>6 DEF Complete
  <1>7. ASSUME NEW S \in SUBSET Tasks, Retire(S) \/ Land(S) PROVE P
    BY <1>5, <1>7 DEF Retire, Land, Exhausted
  <1>8. ASSUME NEW S \in SUBSET Tasks, Release(S) PROVE P
    <2>1. \/ task'[t] = task[t]
          \/ task[t].state = "open" /\ task'[t] = [task[t] EXCEPT !.lease = "none"]
      BY <1>8 DEF Release
    <2> QED
      BY <1>0, <1>1, <2>1 DEF Row
  <1>9. CASE UNCHANGED task
    BY <1>1, <1>9
  <1> QED
    BY <1>2, <1>3, <1>4, <1>6, <1>7, <1>8, <1>9 DEF QueueStep

\* A live lease ends only with its time or with the turn that reports back.
LEMMA LeaseStep ==
  ASSUME QueueInv, [QueueStep]_task, NEW t \in Tasks, Open(t), Leased(t)
  PROVE  IF Open(t)' THEN task'[t].lease # "none"
                     ELSE task'[t].outcome \in {"ran", "stopped"}
  <1> DEFINE Kept == IF Open(t)' THEN task'[t].lease # "none"
                                 ELSE task'[t].outcome \in {"ran", "stopped"}
  <1>0. TypeOK /\ task[t] \in Row
    BY DEF QueueInv, TypeOK
  <1> USE DEF Open, Leased
  <1>1. CASE task'[t] = task[t]
    BY <1>1
  <1>2. \A u \in Tasks, k \in Kinds, s \in Subjects, due \in BOOLEAN :
           Insert(u, k, s, due) => Kept
    BY <1>0 DEF Insert, TypeOK
  <1>3. \A u \in Tasks : Postpone(u) \/ Lapse(u) \/ ComeDue(u) => Kept
    BY <1>0 DEF Postpone, Lapse, ComeDue, TypeOK, Row
  <1>4. \A S \in SUBSET Tasks : Claim(S, Kinds) => Kept
    BY <1>0 DEF Claim, Claimable
  <1>5. \A u \in Tasks, o \in {"ran", "stopped"} : Complete(u, o) => Kept
    <2> TAKE u \in Tasks, o \in {"ran", "stopped"}
    <2>1. CASE u = t
      <3>1. Complete(u, o) =>
              task'[t] = [task[t] EXCEPT !.state = "finished", !.outcome = o,
                                         !.lease = "none", !.due = FALSE]
        BY <2>1 DEF Complete, Close
      <3>2. Complete(u, o) => task'[t].state = "finished" /\ task'[t].outcome = o
        BY <1>0, <3>1 DEF Row
      <3> QED
        BY <3>2
    <2>2. CASE u # t
      BY <1>1, <2>2 DEF Complete, Close
    <2> QED
      BY <2>1, <2>2
  <1>6. \A S \in SUBSET Tasks : Retire(S) \/ Land(S) => Kept
    BY <1>0 DEF Retire, Exhausted, Land, Close
  <1>7. \A S \in SUBSET Tasks : Release(S) => Kept
    BY <1>0 DEF Release
  <1> QED
    BY <1>0, <1>1, <1>2, <1>3, <1>4, <1>5, <1>6, <1>7 DEF QueueStep

-----------------------------------------------------------------------------
\* Every step of the lane is a step of the queue or leaves the rows alone.
LEMMA LaneStep == LaneInv /\ [Next]_vars => [QueueStep]_task
  <1> SUFFICES ASSUME LaneInv, [Next]_vars PROVE [QueueStep]_task
    OBVIOUS
  <1> USE QueueConstants, LaneConstants DEF LaneInv
  <1>1. ASSUME NEW s \in Subjects, RequestRead(s) \/ RequestQueue(s) \/ RequestMark(s)
        PROVE  [QueueStep]_task
    <2>1. ASSUME NEW t \in Tasks, Enqueue(t, "identify", s) PROVE QueueStep
      BY <2>1 DEF Enqueue, QueueStep
    <2> QED
      BY <1>1, <2>1 DEF RequestRead, RequestQueue, RequestMark
  <1>2. ASSUME NEW t \in Tasks, NEW s \in Subjects, MeetingSoon(t, s) PROVE [QueueStep]_task
    BY <1>2 DEF MeetingSoon, Enqueue, QueueStep
  <1>3. ASSUME NEW S \in SUBSET Tasks, ClaimDue(S) PROVE [QueueStep]_task
    BY <1>3 DEF ClaimDue, QueueStep
  <1>4. ASSUME NEW t \in Tasks, NEW a \in Attempts,
               MarkRunning(t, a) \/ StartAccepted(t, a) \/ StartFailed(t, a) \/ TurnFailed(t, a)
        PROVE  [QueueStep]_task
    BY <1>4 DEF MarkRunning, StartAccepted, StartFailed, TurnFailed
  <1>5. ASSUME NEW t \in Tasks, NEW a \in Attempts, TurnEnds(t, a) \/ TurnStopped(t, a)
        PROVE  [QueueStep]_task
    <2>1. task[t].attempts > 0
      BY <1>5 DEF WorkClaimed, TurnEnds, TurnStopped, TurnOver
    <2>2. PICK o \in {"ran", "stopped"}, st \in Statuses : CloseTask(t, o, st)
      BY <1>5 DEF TurnEnds, TurnStopped, Statuses
    <2>3. Open(t) => Complete(t, o)
      BY <2>2 DEF CloseTask, CloseRows, Complete
    <2>4. ~Open(t) => UNCHANGED task
      BY <2>2 DEF CloseTask
    <2> QED
      BY <2>1, <2>3, <2>4 DEF QueueStep
  <1>6. ASSUME NEW t \in Tasks, ScheduleLookUp(t) \/ ScheduleWrite(t) PROVE [QueueStep]_task
    <2>1. CASE ScheduleLookUp(t)
      BY <2>1 DEF ScheduleLookUp
    <2>2. CASE ScheduleWrite(t)
      <3>1. "recheck" \in Kinds /\ task[t].subject \in Subjects
        BY <2>2 DEF ScheduleWrite, WorkClaimed, RowsNamed
      <3>2. \A u \in Tasks : Insert(u, "recheck", task[t].subject, FALSE) => QueueStep
        BY <3>1 DEF QueueStep
      <3>3. \A u \in Tasks : Postpone(u) => QueueStep
        BY DEF QueueStep
      <3> QED
        BY <2>2, <3>2, <3>3 DEF ScheduleWrite
    <2> QED
      BY <1>6, <2>1, <2>2
  <1>7. ASSUME NEW x \in settling, SettleRead(x) \/ SettleWrite(x) PROVE [QueueStep]_task
    BY <1>7 DEF SettleRead, SettleWrite
  <1>8. ASSUME NEW S \in SUBSET Tasks, NEW o, Close(S, o), S = {} PROVE UNCHANGED task
    BY <1>8 DEF Close, LaneTypeOK, TypeOK
  <1>9. ASSUME NEW w \in Sweepers, SweepStep(w) PROVE [QueueStep]_task
    <2>1. CASE SweepRead(w) \/ SweepJudge(w)
      BY <2>1 DEF SweepRead, SweepJudge
    <2>2. CASE SweepLand(w)
      <3> DEFINE S == {t \in sweep[w].landed : StillStale(w, t)}
      <3>1. S \in SUBSET Tasks /\ Close(S, "landed")
        BY <2>2 DEF SweepLand, CloseRows, LaneTypeOK, Sweep
      <3>2. \A t \in S : Open(t) /\ ~Leased(t) /\ task[t].attempts > 0
        <4> TAKE t \in S
        <4>1. /\ t \in Tasks /\ task[t].attempts \in Nat /\ sweep[w].seen[t] \in Nat
          BY <3>1 DEF LaneTypeOK, TypeOK, Row, Sweep
        <4>2. sweep[w].seen[t] > 0 /\ sweep[w].seen[t] <= task[t].attempts
          BY <4>1 DEF SweepFresh
        <4>3. Open(t) /\ ~Leased(t)
          BY <4>1 DEF SweepFresh, StillStale, Leased
        <4> QED
          BY <4>1, <4>2, <4>3
      <3> HIDE DEF S
      <3>3. S # {} => Land(S)
        BY <3>1, <3>2 DEF Land
      <3> QED
        BY <1>8, <3>1, <3>3 DEF QueueStep
    <2>3. CASE SweepRetire(w)
      <3> DEFINE S == {t \in Tasks : Exhausted(t)}
      <3>1. S \in SUBSET Tasks /\ Close(S, "retired") /\ \A t \in S : Exhausted(t)
        BY <2>3 DEF SweepRetire, CloseRows
      <3> HIDE DEF S
      <3>2. S # {} => Retire(S)
        BY <3>1 DEF Retire
      <3> QED
        BY <1>8, <3>1, <3>2 DEF QueueStep
    <2>4. CASE SweepRelease(w)
      <3> DEFINE S == {t \in sweep[w].dead : StillStale(w, t) /\ task[t].lease # "none"}
      <3>1. S \in SUBSET Tasks
        BY <2>4 DEF LaneTypeOK, Sweep
      <3>2. task' = [t \in Tasks |->
                      IF t \in S THEN [task[t] EXCEPT !.lease = "none"] ELSE task[t]]
        BY <2>4 DEF SweepRelease
      <3>3. \A t \in S : Open(t) /\ task[t].lease = "expired"
        BY <3>1 DEF SweepFresh, StillStale, Leased, LaneTypeOK, TypeOK, Row, Leases
      <3> HIDE DEF S
      <3>4. S # {} => Release(S)
        BY <3>1, <3>2, <3>3 DEF Release
      <3>5. S = {} => UNCHANGED task
        BY <3>2 DEF LaneTypeOK, TypeOK
      <3> QED
        BY <3>1, <3>4, <3>5 DEF QueueStep
    <2> QED
      BY <1>9, <2>1, <2>2, <2>3, <2>4 DEF SweepStep
  <1>10. CASE Time \/ AgentStops \/ ApiStops
    BY <1>10 DEF Time, AgentStops, ApiStops, QueueStep
  <1>11. CASE UNCHANGED vars
    BY <1>11 DEF vars
  <1> QED
    BY <1>1, <1>2, <1>3, <1>4, <1>5, <1>6, <1>7, <1>9, <1>10, <1>11 DEF Next

-----------------------------------------------------------------------------
\* A write of a contact row, a closing and the start of a settle are well typed.
LEMMA WriteTypes ==
  ASSUME LaneTypeOK, NEW s, NEW status \in Statuses, NEW requests \in [Subjects -> Request],
         WriteContact(s, status, requests)
  PROVE  /\ contact' \in [Subjects -> Statuses]
         /\ fresh' \in [Tasks -> BOOLEAN] /\ touched' \in [Tasks -> BOOLEAN]
         /\ request' \in [Subjects -> Request]
  <1>1. /\ contact' \in [Subjects -> Statuses]
        /\ fresh' \in [Tasks -> BOOLEAN] /\ touched' \in [Tasks -> BOOLEAN]
    BY DEF WriteContact, LaneTypeOK, Open, Finished, TypeOK, Row
  <1>2. request' \in [Subjects -> Request]
    BY DEF WriteContact, Request
  <1> QED
    BY <1>1, <1>2

LEMMA CloseTypes ==
  ASSUME LaneTypeOK, NEW S, NEW o, CloseRows(S, o)
  PROVE  fresh' \in [Tasks -> BOOLEAN] /\ touched' \in [Tasks -> BOOLEAN]
  BY DEF CloseRows, LaneTypeOK

LEMMA SettleTypes ==
  ASSUME LaneTypeOK, NEW S \in SUBSET Tasks, NEW status \in Statuses, BeginSettle(S, status)
  PROVE  settling' \subseteq Settle
  <1>1. \A t \in S : [task |-> t, to |-> status, ready |-> FALSE, pendingOk |-> FALSE] \in Settle
    BY DEF Settle
  <1> QED
    BY <1>1 DEF BeginSettle, LaneTypeOK

\* The variables keep their types.
LEMMA LaneTypes == LaneInv /\ [Next]_vars => LaneTypeOK'
  <1> SUFFICES ASSUME LaneInv, [Next]_vars PROVE LaneTypeOK'
    OBVIOUS
  <1> USE QueueConstants, LaneConstants DEF record
  <1>0. LaneTypeOK /\ RowsNamed /\ WorkClaimed
    BY DEF LaneInv
  <1>1. TypeOK'
    BY LaneStep, QueueNext DEF LaneInv, QueueInv
  <1> DEFINE Written == /\ contact' \in [Subjects -> Statuses]
                        /\ fresh' \in [Tasks -> BOOLEAN] /\ touched' \in [Tasks -> BOOLEAN]
  <1>2. ASSUME NEW s, NEW status \in Statuses, NEW requests \in [Subjects -> Request],
               WriteContact(s, status, requests)
        PROVE  Written /\ request' \in [Subjects -> Request]
    BY <1>0, <1>2, WriteTypes
  <1>3. (UNCHANGED record => Written) /\ (UNCHANGED request => request' \in [Subjects -> Request])
    BY <1>0 DEF LaneTypeOK
  <1>4. ASSUME NEW S, NEW o, CloseRows(S, o), UNCHANGED contact PROVE Written
    BY <1>0, <1>4, CloseTypes DEF LaneTypeOK
  <1>5. ASSUME NEW S \in SUBSET Tasks, NEW status \in Statuses, BeginSettle(S, status)
        PROVE  settling' \subseteq Settle
    BY <1>0, <1>5, SettleTypes
  <1> DEFINE Places == {"idle", "claimed", "marked", "turn", "over"}
  <1>6. ASSUME NEW t, NEW a, NEW p \in Places, work' = [work EXCEPT ![t][a] = p]
        PROVE  work' \in [Tasks -> [Attempts -> Places]]
    BY <1>0, <1>6 DEF LaneTypeOK
  <1> DEFINE Rest == /\ work' \in [Tasks -> [Attempts -> Places]]
                     /\ settling' \subseteq Settle
                     /\ booking' \in [Tasks -> Tasks \cup {"idle", "create", "done"}]
                     /\ sweep' \in [Sweepers -> Sweep]
                     /\ crashes' \in 0 .. MaxCrashes
             Asks == request' \in [Subjects -> Request]
  <1>7. Written /\ Rest /\ Asks => LaneTypeOK'
    BY <1>1 DEF LaneTypeOK
  <1>8. ASSUME NEW s \in Subjects, RequestRead(s) \/ RequestQueue(s) \/ RequestMark(s)
        PROVE  LaneTypeOK'
    <2>1. Rest
      BY <1>0, <1>8 DEF RequestRead, RequestQueue, RequestMark, LaneTypeOK
    <2>2. CASE RequestRead(s) \/ RequestQueue(s)
      <3>1. Asks
        <4>1. /\ request \in [Subjects -> Request] /\ NoRequest \in Request
              /\ [pc |-> "read", row |-> "none", same |-> TRUE] \in Request
          BY <1>0 DEF LaneTypeOK, Request, NoRequest
        <4>2. \A t \in Tasks :
                 [pc |-> "queued", row |-> t, same |-> request[s].same] \in Request
          BY <4>1 DEF Request
        <4> QED
          BY <2>2, <4>1, <4>2 DEF RequestRead, RequestQueue
      <3>2. UNCHANGED record
        BY <2>2 DEF RequestRead, RequestQueue
      <3> QED
        BY <1>3, <1>7, <2>1, <3>1, <3>2
    <2>3. CASE RequestMark(s)
      <3>1. [request EXCEPT ![s].pc = "marked"] \in [Subjects -> Request]
        BY <1>0 DEF LaneTypeOK, Request
      <3>2. CASE WriteContact(s, "PENDING", [request EXCEPT ![s].pc = "marked"])
        BY <1>2, <1>7, <2>1, <3>1, <3>2 DEF Statuses
      <3>3. CASE UNCHANGED record /\ request' = [request EXCEPT ![s] = NoRequest]
        BY <1>0, <1>3, <1>7, <2>1, <3>3 DEF LaneTypeOK, Request, NoRequest
      <3> QED
        BY <2>3, <3>2, <3>3 DEF RequestMark
    <2> QED
      BY <1>8, <2>2, <2>3
  <1>9. ASSUME NEW t \in Tasks, NEW s \in Subjects, MeetingSoon(t, s) PROVE LaneTypeOK'
    BY <1>0, <1>1, <1>9 DEF MeetingSoon, LaneTypeOK
  <1>10. ASSUME NEW S \in SUBSET Tasks, ClaimDue(S) PROVE LaneTypeOK'
    <2>1. work' \in [Tasks -> [Attempts -> Places]]
      BY <1>0, <1>10 DEF ClaimDue, LaneTypeOK
    <2> QED
      BY <1>0, <1>1, <1>10, <2>1 DEF ClaimDue, LaneTypeOK
  <1>11. ASSUME NEW t \in Tasks, NEW a \in Attempts, MarkRunning(t, a) PROVE LaneTypeOK'
    <2>1. Rest
      BY <1>0, <1>6, <1>11 DEF MarkRunning, LaneTypeOK
    <2>2. request \in [Subjects -> Request]
      BY <1>0 DEF LaneTypeOK
    <2>3. \/ WriteContact(task[t].subject, "RUNNING", request)
          \/ UNCHANGED record /\ UNCHANGED request
      BY <1>11 DEF MarkRunning
    <2> QED
      BY <1>2, <1>3, <1>7, <2>1, <2>2, <2>3 DEF Statuses
  <1>12. ASSUME NEW t \in Tasks, NEW a \in Attempts,
                StartAccepted(t, a) \/ StartFailed(t, a) \/ TurnFailed(t, a)
         PROVE  LaneTypeOK'
    <2>1. work' \in [Tasks -> [Attempts -> Places]]
      BY <1>6, <1>12 DEF StartAccepted, StartFailed, TurnFailed, TurnOver, Ends
    <2>2. settling' \subseteq Settle
      BY <1>0, <1>5, <1>12 DEF StartAccepted, StartFailed, TurnFailed, Statuses, LaneTypeOK
    <2>3. booking' \in [Tasks -> Tasks \cup {"idle", "create", "done"}]
      BY <1>0, <1>12 DEF StartAccepted, StartFailed, TurnFailed, TurnOver, LaneTypeOK
    <2>4. UNCHANGED <<record, sweep, request, crashes>>
      BY <1>12 DEF StartAccepted, StartFailed, TurnFailed, TurnOver
    <2> QED
      BY <1>0, <1>3, <1>7, <2>1, <2>2, <2>3, <2>4 DEF LaneTypeOK
  <1>13. ASSUME NEW t \in Tasks, NEW a \in Attempts, TurnEnds(t, a) \/ TurnStopped(t, a)
         PROVE  LaneTypeOK'
    <2>1. PICK o \in {"ran", "stopped"}, st \in Statuses : TurnOver(t, a) /\ CloseTask(t, o, st)
      BY <1>13 DEF TurnEnds, TurnStopped, Statuses
    <2>2. Rest
      BY <1>0, <1>5, <1>6, <2>1 DEF TurnOver, Ends, CloseTask, LaneTypeOK
    <2>3. Written
      BY <1>0, <1>4, <2>1 DEF CloseTask, LaneTypeOK
    <2>4. UNCHANGED request
      BY <2>1 DEF TurnOver
    <2> QED
      BY <1>3, <1>7, <2>2, <2>3, <2>4
  <1>14. ASSUME NEW t \in Tasks, ScheduleLookUp(t) \/ ScheduleWrite(t) PROVE LaneTypeOK'
    <2>1. booking' \in [Tasks -> Tasks \cup {"idle", "create", "done"}]
      BY <1>0, <1>14 DEF ScheduleLookUp, ScheduleWrite, LaneTypeOK
    <2> QED
      BY <1>0, <1>1, <1>14, <2>1 DEF ScheduleLookUp, ScheduleWrite, LaneTypeOK
  <1>15. ASSUME NEW x \in settling, SettleRead(x) PROVE LaneTypeOK'
    <2>1. x \in Settle
      BY <1>0 DEF LaneTypeOK
    <2>2. Settleable(x.task, x.to) \in BOOLEAN
      BY DEF Settleable
    <2>3. settling' \subseteq Settle
      BY <1>0, <1>15, <2>1, <2>2 DEF SettleRead, LaneTypeOK, Settle
    <2> QED
      BY <1>0, <1>1, <1>15, <2>3 DEF SettleRead, LaneTypeOK
  <1>16. ASSUME NEW x \in settling, SettleWrite(x) PROVE LaneTypeOK'
    <2>1. Rest
      BY <1>0, <1>16 DEF SettleWrite, LaneTypeOK
    <2>2. x.to \in Statuses /\ request \in [Subjects -> Request]
      BY <1>0 DEF LaneTypeOK, Settle
    <2>3. \/ WriteContact(task[x.task].subject, x.to, request)
          \/ UNCHANGED record /\ UNCHANGED request
      BY <1>16 DEF SettleWrite
    <2> QED
      BY <1>2, <1>3, <1>7, <2>1, <2>2, <2>3
  <1>17. ASSUME NEW w \in Sweepers, SweepStep(w) PROVE LaneTypeOK'
    <2>1. sweep' \in [Sweepers -> Sweep]
      <3>1. CASE SweepRead(w)
        <4> DEFINE seen == [t \in Tasks |-> IF Stale(t) THEN task[t].attempts ELSE 0]
                   open == {t \in Tasks : Stale(t)}
                   dead == {t \in Tasks : Stale(t) /\ task[t].lease = "expired"}
        <4>1. seen \in [Tasks -> 0 .. MAX_ATTEMPTS]
          BY <1>0 DEF LaneTypeOK, TypeOK, Row
        <4>2. open \in SUBSET Tasks /\ dead \in SUBSET Tasks
          OBVIOUS
        <4>3. sweep' = [sweep EXCEPT ![w] = [pc |-> "read", seen |-> seen, open |-> open,
                                             landed |-> {}, dead |-> dead]]
          BY <3>1, Zenon DEF SweepRead
        <4> HIDE DEF seen, open, dead
        <4> QED
          BY <1>0, <4>1, <4>2, <4>3 DEF LaneTypeOK, Sweep
      <3>2. CASE SweepJudge(w)
        BY <1>0, <3>2 DEF SweepJudge, LaneTypeOK, Sweep
      <3>3. CASE SweepLand(w) \/ SweepRetire(w)
        <4>1. sweep[w] \in Sweep
          BY <1>0 DEF LaneTypeOK
        <4>2. \/ sweep' = [sweep EXCEPT ![w] = [sweep[w] EXCEPT !.pc = "landed", !.landed = {}]]
              \/ sweep' = [sweep EXCEPT ![w] = [sweep[w] EXCEPT !.pc = "retired"]]
          BY <3>3 DEF SweepLand, SweepRetire
        <4>3. /\ [sweep[w] EXCEPT !.pc = "landed", !.landed = {}] \in Sweep
              /\ [sweep[w] EXCEPT !.pc = "retired"] \in Sweep
          BY <4>1 DEF Sweep
        <4> QED
          BY <1>0, <4>2, <4>3 DEF LaneTypeOK
      <3>4. CASE SweepRelease(w)
        BY <1>0, <3>4 DEF SweepRelease, LaneTypeOK, Sweep, NoSweep
      <3> QED
        BY <1>17, <3>1, <3>2, <3>3, <3>4 DEF SweepStep
    <2>2. settling' \subseteq Settle
      <3>1. CASE SweepRetire(w)
        <4>1. {t \in Tasks : Exhausted(t)} \in SUBSET Tasks
          OBVIOUS
        <4> QED
          BY <1>5, <3>1, <4>1 DEF SweepRetire, Statuses
      <3> QED
        BY <1>0, <1>17, <3>1 DEF SweepStep, SweepRead, SweepJudge, SweepLand, SweepRelease, LaneTypeOK
    <2>3. Written
      BY <1>3, <1>4, <1>17 DEF SweepStep, SweepRead, SweepJudge, SweepLand, SweepRetire, SweepRelease
    <2>4. UNCHANGED <<work, booking, request, crashes>>
      BY <1>17 DEF SweepStep, SweepRead, SweepJudge, SweepLand, SweepRetire, SweepRelease
    <2> QED
      BY <1>0, <1>3, <1>7, <2>1, <2>2, <2>3, <2>4 DEF LaneTypeOK
  <1>18. CASE Time
    BY <1>0, <1>1, <1>18 DEF Time, LaneTypeOK
  <1>19. CASE AgentStops \/ ApiStops
    <2>1. work' \in [Tasks -> [Attempts -> Places]]
      BY <1>0, <1>19 DEF AgentStops, ApiStops, LaneTypeOK
    <2>2. sweep' \in [Sweepers -> Sweep] /\ settling' \subseteq Settle
      BY <1>0, <1>19 DEF AgentStops, ApiStops, LaneTypeOK, Sweep, NoSweep
    <2>3. Asks
      <3>1. NoRequest \in Request /\ (UNCHANGED request => Asks)
        BY <1>0 DEF LaneTypeOK, Request, NoRequest
      <3> QED
        BY <1>19, <3>1 DEF AgentStops, ApiStops
    <2>4. crashes' \in 0 .. MaxCrashes
      BY <1>0, <1>19 DEF AgentStops, ApiStops, LaneTypeOK
    <2> QED
      BY <1>0, <1>1, <1>19, <2>1, <2>2, <2>3, <2>4 DEF AgentStops, ApiStops, LaneTypeOK
  <1>20. CASE UNCHANGED vars
    BY <1>0, <1>1, <1>20 DEF vars, LaneTypeOK
  <1> QED
    BY <1>8, <1>9, <1>10, <1>11, <1>12, <1>13, <1>14, <1>15, <1>16, <1>17, <1>18, <1>19, <1>20
    DEF Next

-----------------------------------------------------------------------------
LEMMA LaneStarts == LaneInit => LaneInv
  <1> SUFFICES ASSUME LaneInit PROVE LaneInv
    OBVIOUS
  <1> USE QueueConstants, LaneConstants DEF LaneInit
  <1>1. QueueInv /\ TypeOK
    BY QueueInit DEF QueueInv
  <1>2. NoRequest \in Request /\ NoSweep \in Sweep
    BY DEF NoRequest, Request, NoSweep, Sweep
  <1>3. LaneTypeOK
    BY <1>1, <1>2 DEF LaneTypeOK, Statuses
  <1>4. RowsNamed /\ WorkClaimed
    BY DEF Init, NoRow, RowsNamed, WorkClaimed
  <1>5. SweepFresh
    BY DEF NoSweep, SweepFresh
  <1> QED
    BY <1>1, <1>3, <1>4, <1>5 DEF LaneInv

\* Attempts only grow, so a row that was handed out stays one; the only way
\* into work[t][a] is a claim, and only a turn books.
LEMMA LaneWork == LaneInv /\ [Next]_vars => RowsNamed' /\ WorkClaimed'
  <1> SUFFICES ASSUME LaneInv, [Next]_vars PROVE RowsNamed' /\ WorkClaimed'
    OBVIOUS
  <1>1. \A t \in Tasks :
           /\ task'[t].attempts >= task[t].attempts
           /\ task'[t].state # "absent" => task'[t].subject \in Subjects
           /\ task'[t].attempts > 0 => task'[t].state # "absent"
    BY LaneStep, QueueMonotone DEF LaneInv
  <1>2. \A t \in Tasks : task[t].attempts \in Nat /\ task'[t].attempts \in Nat
    BY LaneTypes, QueueConstants DEF LaneInv, QueueInv, LaneTypeOK, TypeOK, Row
  <1>3. \A t \in Tasks : task[t].attempts > 0 => task'[t].attempts > 0
    BY <1>1, <1>2
  <1>4. \A t \in Tasks : \A a \in Attempts :
           work'[t][a] # "idle" => work[t][a] # "idle" \/ task'[t].attempts > 0
    <2> USE DEF LaneInv, LaneTypeOK
    <2>1. ASSUME NEW t \in Tasks, NEW a \in Attempts, NEW p, work[t][a] # "idle",
                 work' = [work EXCEPT ![t][a] = p]
          PROVE  \A u \in Tasks : \A b \in Attempts : work'[u][b] # "idle" => work[u][b] # "idle"
      BY <2>1
    <2>2. ASSUME NEW t \in Tasks, NEW a \in Attempts,
                 \/ MarkRunning(t, a) \/ StartAccepted(t, a) \/ StartFailed(t, a)
                 \/ TurnEnds(t, a) \/ TurnStopped(t, a) \/ TurnFailed(t, a)
          PROVE  \A u \in Tasks : \A b \in Attempts : work'[u][b] # "idle" => work[u][b] # "idle"
      <3>1. work[t][a] # "idle" /\ \E p : work' = [work EXCEPT ![t][a] = p]
        BY <2>2 DEF MarkRunning, StartAccepted, StartFailed, TurnEnds, TurnStopped, TurnFailed,
                    TurnOver, Ends
      <3> QED
        BY <2>1, <3>1
    <2>3. ASSUME NEW S \in SUBSET Tasks, ClaimDue(S) PROVE <1>4!:
      <3> TAKE t \in Tasks
      <3>1. CASE t \in S
        <4>1. task'[t].attempts = task[t].attempts + 1
          BY <2>3, <3>1 DEF ClaimDue, Claim, QueueInv, TypeOK, Row
        <4> QED
          BY <1>2, <4>1
      <3>2. CASE t \notin S
        BY <2>3, <3>2 DEF ClaimDue
      <3> QED
        BY <3>1, <3>2
    <2>4. CASE AgentStops
      BY <2>4 DEF AgentStops
    <2>5. CASE UNCHANGED work
      BY <2>5
    <2> QED
      BY <2>2, <2>3, <2>4, <2>5
      DEF Next, vars, RequestRead, RequestQueue, RequestMark, MeetingSoon, ScheduleLookUp,
          ScheduleWrite, SettleRead, SettleWrite, SweepStep, SweepRead, SweepJudge, SweepLand,
          SweepRetire, SweepRelease, Time, ApiStops
  <1>5. \A t \in Tasks : booking'[t] # "idle" =>
           \/ booking[t] # "idle"
           \/ "recheck" \in Kinds /\ \E a \in Attempts : work[t][a] # "idle"
    <2> USE DEF LaneInv, LaneTypeOK
    <2>1. ASSUME NEW t \in Tasks, ScheduleLookUp(t) \/ ScheduleWrite(t) PROVE <1>5!:
      BY <2>1 DEF ScheduleLookUp, ScheduleWrite
    <2>2. ASSUME NEW t \in Tasks, NEW a \in Attempts,
                 TurnEnds(t, a) \/ TurnStopped(t, a) \/ TurnFailed(t, a)
          PROVE  <1>5!:
      BY <2>2 DEF TurnEnds, TurnStopped, TurnFailed, TurnOver
    <2>3. CASE UNCHANGED booking
      BY <2>3
    <2> QED
      BY <2>1, <2>2, <2>3
      DEF Next, vars, RequestRead, RequestQueue, RequestMark, MeetingSoon, ClaimDue, MarkRunning,
          StartAccepted, StartFailed, SettleRead, SettleWrite, SweepStep, SweepRead, SweepJudge,
          SweepLand, SweepRetire, SweepRelease, Time, AgentStops, ApiStops
  <1>6. WorkClaimed
    BY DEF LaneInv
  <1>7. WorkClaimed'
    BY <1>3, <1>4, <1>5, <1>6 DEF WorkClaimed
  <1> QED
    BY <1>1, <1>7 DEF RowsNamed

-----------------------------------------------------------------------------
\* A claim made behind a sweep's back raises the attempts above those the sweep
\* saw; every other step leaves the sweep's memory as good as it was.
LEMMA LaneSweeps == LaneInv /\ [Next]_vars => SweepFresh'
  <1> SUFFICES ASSUME LaneInv, [Next]_vars PROVE SweepFresh'
    OBVIOUS
  <1> DEFINE Held(w, t) == t \in sweep[w].open \cup sweep[w].landed \cup sweep[w].dead
             Good(w, t) == Held(w, t) =>
                /\ sweep[w].seen[t] <= task[t].attempts
                /\ Open(t) /\ task[t].attempts = sweep[w].seen[t] => ~Leased(t)
                /\ t \in sweep[w].landed => sweep[w].seen[t] > 0
  <1>0. /\ \A w \in Sweepers, t \in Tasks : sweep[w].seen[t] \in Nat /\ Good(w, t)
        /\ \A t \in Tasks : task[t].attempts \in Nat /\ task'[t].attempts \in Nat
        /\ sweep \in [Sweepers -> Sweep]
    BY LaneTypes, QueueConstants
    DEF LaneInv, QueueInv, LaneTypeOK, TypeOK, Row, Sweep, SweepFresh
  <1>1. ASSUME NEW w \in Sweepers, NEW t \in Tasks,
               Held(w, t)' => Held(w, t) /\ sweep'[w].seen[t] = sweep[w].seen[t],
               t \in sweep'[w].landed => sweep'[w].seen[t] > 0
        PROVE  Good(w, t)'
    <2>1. /\ task'[t].attempts >= task[t].attempts
          /\ Open(t)' /\ Leased(t)' /\ task'[t].attempts = task[t].attempts => Open(t) /\ Leased(t)
      BY LaneStep, QueueMonotone DEF LaneInv
    <2> SUFFICES ASSUME Held(w, t)'
                 PROVE  /\ sweep'[w].seen[t] <= task'[t].attempts
                        /\ Open(t)' /\ task'[t].attempts = sweep'[w].seen[t] => ~Leased(t)'
      BY <1>1
    <2>2. /\ sweep'[w].seen[t] = sweep[w].seen[t] /\ sweep[w].seen[t] <= task[t].attempts
          /\ Open(t) /\ task[t].attempts = sweep[w].seen[t] => ~Leased(t)
      BY <1>0, <1>1
    <2> QED
      BY <1>0, <2>1, <2>2
  <1>2. ASSUME NEW w \in Sweepers, sweep'[w] = sweep[w] PROVE \A t \in Tasks : Good(w, t)'
    BY <1>0, <1>1, <1>2
  <1>3. ASSUME NEW w \in Sweepers, SweepStep(w) PROVE \A u \in Sweepers : \A t \in Tasks : Good(u, t)'
    <2>1. \A u \in Sweepers \ {w} : sweep'[u] = sweep[u]
      BY <1>0, <1>3
      DEF SweepStep, SweepRead, SweepJudge, SweepLand, SweepRetire, SweepRelease
    <2>2. CASE SweepRead(w)
      <3> TAKE u \in Sweepers
      <3> TAKE t \in Tasks
      <3>1. UNCHANGED task
        BY <2>2 DEF SweepRead
      <3>2. Held(w, t)' => sweep'[w].seen[t] = task[t].attempts /\ ~Leased(t)
        BY <1>0, <2>2 DEF SweepRead, Stale
      <3>3. t \notin sweep'[w].landed
        BY <1>0, <2>2 DEF SweepRead
      <3> QED
        BY <1>0, <1>2, <2>1, <3>1, <3>2, <3>3 DEF Open, Leased
    <2>3. CASE SweepJudge(w)
      <3> TAKE u \in Sweepers
      <3> TAKE t \in Tasks
      <3>1. Held(w, t)' => Held(w, t) /\ sweep'[w].seen[t] = sweep[w].seen[t]
        BY <1>0, <2>3 DEF SweepJudge
      <3>2. t \in sweep'[w].landed => sweep'[w].seen[t] > 0
        BY <1>0, <2>3 DEF SweepJudge, FinishedElsewhere
      <3>3. Good(w, t)'
        BY <1>1, <3>1, <3>2
      <3> QED
        BY <1>2, <2>1, <3>3
    <2>4. CASE SweepLand(w) \/ SweepRetire(w) \/ SweepRelease(w)
      <3> TAKE u \in Sweepers
      <3> TAKE t \in Tasks
      <3>1. /\ Held(w, t)' => Held(w, t) /\ sweep'[w].seen[t] = sweep[w].seen[t]
            /\ t \in sweep'[w].landed => t \in sweep[w].landed /\ sweep'[w].seen[t] = sweep[w].seen[t]
        BY <1>0, <2>4 DEF SweepLand, SweepRetire, SweepRelease, NoSweep, Sweep
      <3>2. Good(w, t)'
        BY <1>0, <1>1, <3>1
      <3> QED
        BY <1>2, <2>1, <3>2
    <2> QED
      BY <1>3, <2>2, <2>3, <2>4 DEF SweepStep
  <1>4. CASE AgentStops
    <2>1. \A w \in Sweepers, t \in Tasks : ~Held(w, t)'
      BY <1>4 DEF AgentStops, NoSweep
    <2> QED
      BY <2>1 DEF SweepFresh
  <1>5. CASE UNCHANGED sweep
    BY <1>2, <1>5 DEF SweepFresh
  <1>6. (\E w \in Sweepers : SweepStep(w)) \/ AgentStops \/ UNCHANGED sweep
    BY DEF Next, vars, RequestRead, RequestQueue, RequestMark, MeetingSoon, ClaimDue, MarkRunning,
           StartAccepted, StartFailed, TurnEnds, TurnStopped, TurnFailed, TurnOver, ScheduleLookUp,
           ScheduleWrite, SettleRead, SettleWrite, Time, ApiStops
  <1> QED
    BY <1>3, <1>4, <1>5, <1>6 DEF SweepFresh

LEMMA LaneNext == LaneInv /\ [Next]_vars => LaneInv'
  BY LaneStep, QueueNext, LaneTypes, LaneWork, LaneSweeps DEF LaneInv

-----------------------------------------------------------------------------
\* The inductive invariant: rows, leases, turns, bookings and the memory of the
\* sweeps agree in every reachable state.
THEOREM LaneInvariant == Spec => []LaneInv
  BY LaneStarts, LaneNext, PTL DEF Spec

\* Every variable of the lane keeps its type; above all no row is handed out
\* more than MAX_ATTEMPTS times.
THEOREM LaneTyped == Spec => []LaneTypeOK
  <1>1. LaneInv => LaneTypeOK
    BY DEF LaneInv
  <1> QED
    BY <1>1, LaneInvariant, PTL

\* Dispatchers, sessions, sweeps and the API take only the steps of the queue.
THEOREM LaneImplementsQueue == Spec => Queue
  <1>1. LaneInit => Init
    BY DEF LaneInit
  <1> QED
    BY <1>1, LaneStep, LaneInvariant, PTL DEF Spec, Queue, QueueSpec

\* Of a turn that reports back, a retirement and a sweep that race for a row,
\* the second changes nothing.
THEOREM FirstEndingStays == Spec => FirstEndingWins
  <1>1. LaneInv /\ [Next]_vars => [\A t \in Tasks : Finished(t) => task'[t] = task[t]]_vars
    BY LaneStep, ClosedStep DEF LaneInv
  <1> QED
    BY <1>1, LaneInvariant, PTL DEF Spec, FirstEndingWins

\* No sweep closes or frees a row with a live lease, however old its snapshot.
THEOREM LiveLeaseStays == Spec => LiveLeaseKept
  <1>1. LaneInv /\ [Next]_vars =>
          [\A t \in Tasks : Open(t) /\ Leased(t) =>
             IF Open(t)' THEN task'[t].lease # "none"
                         ELSE task'[t].outcome \in {"ran", "stopped"}]_vars
    BY LaneStep, LeaseStep DEF LaneInv
  <1> QED
    BY <1>1, LaneInvariant, PTL DEF Spec, LiveLeaseKept

-----------------------------------------------------------------------------
(* A rep's request for a fresh look against the settles of older tasks. *)

\* A settle that may write over PENDING has read that its own row is closed.
SettlesEnded == \A x \in settling : x.pendingOk => x.ready /\ Finished(x.task)

\* A request that was queued names the row it queued.
RequestRow == \A s \in Subjects : request[s].pc \in {"queued", "marked"} =>
    /\ request[s].row \in Tasks
    /\ task[request[s].row].state # "absent" /\ task[request[s].row].subject = s

\* While that row is open, the mark of the request has moved updatedAt past the
\* ending of every row whose settle read the queue before the request did.
LateSettlesBlind == \A s \in Subjects : request[s].pc = "marked" /\ Open(request[s].row) =>
    \A x \in settling : x.pendingOk /\ task[x.task].subject = s => touched[x.task]

RequestInv == SettlesEnded /\ RequestRow /\ LateSettlesBlind

\* Rows are not opened again, and those that exist keep their subject.
LEMMA RowsStay ==
  ASSUME LaneInv, [Next]_vars, NEW t \in Tasks
  PROVE  /\ Finished(t) => Finished(t)'
         /\ task[t].state # "absent" => /\ task'[t].state # "absent"
                                        /\ task'[t].subject = task[t].subject
                                        /\ Open(t)' => Open(t)
  <1>1. QueueInv /\ RowsNamed /\ [QueueStep]_task
    BY LaneStep DEF LaneInv
  <1>2. Finished(t) => task'[t] = task[t]
    BY <1>1, ClosedStep
  <1>3. task[t].state # "absent" => /\ task'[t].state # "absent"
                                    /\ task'[t].subject = task[t].subject
    BY <1>1, QueueMonotone
  <1>4. task[t].state \in {"absent", "open", "finished"}
    BY <1>1 DEF QueueInv, TypeOK, Row, States
  <1> QED
    BY <1>2, <1>3, <1>4 DEF Finished, Open

\* What is written about a contact after a row about it ended stays written.
LEMMA TouchedStays ==
  ASSUME LaneInv, [Next]_vars, NEW t \in Tasks, Finished(t), touched[t]
  PROVE  touched'[t]
  <1>1. ASSUME NEW s, NEW status, NEW requests, WriteContact(s, status, requests)
        PROVE  touched'[t]
    BY <1>1 DEF WriteContact
  <1>2. ASSUME NEW S \in SUBSET Tasks, NEW o, CloseRows(S, o), \A u \in S : Open(u)
        PROVE  touched'[t]
    BY <1>2 DEF CloseRows, Open, Finished
  <1>3. ASSUME NEW s \in Subjects, RequestMark(s) PROVE touched'[t]
    BY <1>1, <1>3 DEF RequestMark, record
  <1>4. ASSUME NEW u \in Tasks, NEW a \in Attempts, MarkRunning(u, a) PROVE touched'[t]
    BY <1>1, <1>4 DEF MarkRunning, record
  <1>5. ASSUME NEW u \in Tasks, NEW a \in Attempts, TurnEnds(u, a) \/ TurnStopped(u, a)
        PROVE  touched'[t]
    BY <1>2, <1>5 DEF TurnEnds, TurnStopped, CloseTask
  <1>6. ASSUME NEW x \in settling, SettleWrite(x) PROVE touched'[t]
    BY <1>1, <1>6 DEF SettleWrite, record
  <1>7. ASSUME NEW w \in Sweepers, SweepLand(w) PROVE touched'[t]
    <2>1. {u \in sweep[w].landed : StillStale(w, u)} \in SUBSET Tasks
      BY DEF LaneInv, LaneTypeOK, Sweep
    <2> QED
      BY <1>2, <1>7, <2>1 DEF SweepLand, StillStale
  <1>8. ASSUME NEW w \in Sweepers, SweepRetire(w) PROVE touched'[t]
    BY <1>2, <1>8 DEF SweepRetire, Exhausted
  <1>9. CASE UNCHANGED touched
    BY <1>9
  <1> QED
    BY <1>3, <1>4, <1>5, <1>6, <1>7, <1>8, <1>9
    DEF Next, vars, record, RequestRead, RequestQueue, MeetingSoon, ClaimDue, StartAccepted,
        StartFailed, TurnFailed, ScheduleLookUp, ScheduleWrite, SettleRead, SweepStep, SweepRead,
        SweepJudge, SweepRelease, Time, AgentStops, ApiStops

\* The only step that lets a settle write over PENDING is its own reading of
\* the queue: its row is closed and no other row about the contact is open.
LEMMA SettleSources ==
  ASSUME LaneInv, [Next]_vars, NEW x \in settling', x.pendingOk
  PROVE  \/ x \in settling
         \/ /\ x.ready /\ x.task \in Tasks /\ Finished(x.task) /\ ~HasOpenRequest(x.task)
            /\ UNCHANGED <<task, touched, request>>
  <1>0. settling \subseteq Settle
    BY DEF LaneInv, LaneTypeOK
  <1>1. ASSUME NEW ts, NEW status, BeginSettle(ts, status) PROVE x \in settling
    BY <1>1 DEF BeginSettle
  <1>2. ASSUME NEW y \in settling, SettleRead(y), x \notin settling
        PROVE  /\ x.ready /\ x.task \in Tasks /\ Finished(x.task) /\ ~HasOpenRequest(x.task)
               /\ UNCHANGED <<task, touched, request>>
    <2>1. x = [y EXCEPT !.ready = TRUE, !.pendingOk = Settleable(y.task, y.to)]
      BY <1>2 DEF SettleRead
    <2>2. y \in Settle
      BY <1>0
    <2>3. x.ready /\ x.task = y.task /\ y.task \in Tasks /\ Settleable(y.task, y.to)
      BY <2>1, <2>2 DEF Settle
    <2> QED
      BY <1>2, <2>3 DEF SettleRead, Settleable, record
  <1>3. CASE settling' \subseteq settling
    BY <1>3
  <1>4. ASSUME NEW t \in Tasks, NEW a \in Attempts,
               \/ StartFailed(t, a) \/ TurnEnds(t, a) \/ TurnStopped(t, a) \/ TurnFailed(t, a)
        PROVE  x \in settling
    BY <1>1, <1>4 DEF StartFailed, TurnEnds, TurnStopped, TurnFailed, CloseTask
  <1>5. ASSUME NEW w \in Sweepers, SweepRetire(w) PROVE x \in settling
    BY <1>1, <1>5 DEF SweepRetire
  <1> QED
    BY <1>2, <1>3, <1>4, <1>5
    DEF Next, vars, RequestRead, RequestQueue, RequestMark, MeetingSoon, ClaimDue, MarkRunning,
        StartAccepted, ScheduleLookUp, ScheduleWrite, SettleWrite, SweepStep, SweepRead, SweepJudge,
        SweepLand, SweepRelease, Time, AgentStops, ApiStops

\* How a request comes to name a row: it queues the row, and marks the record
\* in a step of its own.
LEMMA RequestSources ==
  ASSUME LaneInv, [Next]_vars, NEW s \in Subjects, request'[s].pc \in {"queued", "marked"}
  PROVE  \/ /\ request[s].pc = request'[s].pc /\ request'[s].row = request[s].row
         \/ /\ request'[s].pc = "queued" /\ request'[s].row \in Tasks
            /\ Enqueue(request'[s].row, "identify", s)
         \/ /\ request[s].pc = "queued" /\ request'[s].pc = "marked"
            /\ request'[s].row = request[s].row
            /\ WriteContact(s, "PENDING", [request EXCEPT ![s].pc = "marked"])
            /\ UNCHANGED <<task, settling>>
  <1> DEFINE Same == request[s].pc = request'[s].pc /\ request'[s].row = request[s].row
  <1>0. request \in [Subjects -> Request] /\ request[s] \in Request
    BY DEF LaneInv, LaneTypeOK
  <1>1. ASSUME NEW u, NEW status, WriteContact(u, status, request) PROVE Same
    BY <1>0, <1>1 DEF WriteContact, Request
  <1>2. CASE UNCHANGED request
    BY <1>2
  <1>3. ASSUME NEW u \in Subjects, RequestRead(u) PROVE Same
    BY <1>0, <1>3 DEF RequestRead
  <1>4. ASSUME NEW u \in Subjects, RequestQueue(u)
        PROVE  \/ Same
               \/ /\ request'[s].pc = "queued" /\ request'[s].row \in Tasks
                  /\ Enqueue(request'[s].row, "identify", s)
    BY <1>0, <1>4 DEF RequestQueue, NoRequest
  <1>5. ASSUME NEW u \in Subjects, RequestMark(u)
        PROVE  \/ Same
               \/ /\ request[s].pc = "queued" /\ request'[s].pc = "marked"
                  /\ request'[s].row = request[s].row
                  /\ WriteContact(s, "PENDING", [request EXCEPT ![s].pc = "marked"])
                  /\ UNCHANGED <<task, settling>>
    <2>1. CASE request[u].same
      <3>1. WriteContact(u, "PENDING", [request EXCEPT ![u].pc = "marked"])
        BY <1>5, <2>1 DEF RequestMark
      <3>2. request' = [[request EXCEPT ![u].pc = "marked"] EXCEPT ![u].same = FALSE]
        BY <3>1 DEF WriteContact
      <3>3. CASE u = s
        <4>1. request'[s].pc = "marked" /\ request'[s].row = request[s].row
          BY <1>0, <3>2, <3>3 DEF Request
        <4> QED
          BY <1>5, <3>1, <3>3, <4>1 DEF RequestMark
      <3>4. CASE u # s
        BY <1>0, <3>2, <3>4
      <3> QED
        BY <3>3, <3>4
    <2>2. CASE ~request[u].same
      BY <1>0, <1>5, <2>2 DEF RequestMark, NoRequest
    <2> QED
      BY <2>1, <2>2
  <1>6. ASSUME NEW t \in Tasks, NEW a \in Attempts, MarkRunning(t, a) PROVE Same
    BY <1>1, <1>2, <1>6 DEF MarkRunning
  <1>7. ASSUME NEW x \in settling, SettleWrite(x) PROVE Same
    BY <1>1, <1>2, <1>7 DEF SettleWrite
  <1>8. CASE ApiStops
    BY <1>8 DEF ApiStops, NoRequest
  <1> HIDE DEF Same
  <1>9. Same => request[s].pc = request'[s].pc /\ request'[s].row = request[s].row
    BY DEF Same
  <1> QED
    BY <1>2, <1>3, <1>4, <1>5, <1>6, <1>7, <1>8, <1>9
    DEF Next, vars, MeetingSoon, ClaimDue, StartAccepted, StartFailed, TurnEnds, TurnStopped,
        TurnFailed, TurnOver, ScheduleLookUp, ScheduleWrite, SettleRead, SweepStep, SweepRead,
        SweepJudge, SweepLand, SweepRetire, SweepRelease, Time, AgentStops

LEMMA RequestStarts == LaneInit => RequestInv
  BY DEF LaneInit, RequestInv, SettlesEnded, RequestRow, LateSettlesBlind, NoRequest

LEMMA RequestNext == LaneInv /\ RequestInv /\ [Next]_vars => RequestInv'
  <1> SUFFICES ASSUME LaneInv, RequestInv, [Next]_vars PROVE RequestInv'
    OBVIOUS
  <1>0. /\ settling \subseteq Settle /\ SettlesEnded /\ RequestRow /\ LateSettlesBlind
        /\ TypeOK /\ RowsNamed
    BY DEF LaneInv, LaneTypeOK, RequestInv
  <1>1. SettlesEnded'
    <2> SUFFICES ASSUME NEW x \in settling', x.pendingOk PROVE x.ready /\ Finished(x.task)'
      BY DEF SettlesEnded
    <2>1. x.ready /\ x.task \in Tasks /\ Finished(x.task)
      BY <1>0, SettleSources DEF SettlesEnded, Settle
    <2> QED
      BY <2>1, RowsStay
  <1>2. RequestRow'
    <2> SUFFICES ASSUME NEW s \in Subjects, request'[s].pc \in {"queued", "marked"}
                 PROVE  /\ request'[s].row \in Tasks
                        /\ task'[request'[s].row].state # "absent"
                        /\ task'[request'[s].row].subject = s
      BY DEF RequestRow
    <2>1. CASE request[s].pc \in {"queued", "marked"} /\ request'[s].row = request[s].row
      BY <1>0, <2>1, RowsStay DEF RequestRow
    <2>2. CASE request'[s].row \in Tasks /\ Enqueue(request'[s].row, "identify", s)
      <3>1. PICK t \in Tasks : t = request'[s].row
        BY <2>2
      <3>2. Insert(t, "identify", s, TRUE)
        BY <2>2, <3>1 DEF Enqueue
      <3>3. task'[t].state = "open" /\ task'[t].subject = s
        BY <1>0, <3>2 DEF Insert, TypeOK
      <3> QED
        BY <3>1, <3>3
    <2> QED
      BY <2>1, <2>2, RequestSources
  <1>3. LateSettlesBlind'
    <2> SUFFICES ASSUME NEW s \in Subjects, request'[s].pc = "marked", Open(request[s].row)',
                        NEW x \in settling', x.pendingOk, task'[x.task].subject = s
                 PROVE  touched'[x.task]
      BY DEF LateSettlesBlind
    <2>1. x.task \in Tasks /\ Finished(x.task)
      BY <1>0, SettleSources DEF SettlesEnded, Settle
    <2>2. task[x.task].subject = s
      BY <2>1, RowsStay DEF Finished
    <2>3. \/ request[s].pc = "marked" /\ request'[s].row = request[s].row
          \/ /\ WriteContact(s, "PENDING", [request EXCEPT ![s].pc = "marked"])
             /\ UNCHANGED <<task, settling>>
      BY RequestSources
    <2>4. CASE WriteContact(s, "PENDING", [request EXCEPT ![s].pc = "marked"])
      BY <2>1, <2>2, <2>4 DEF WriteContact
    <2>5. CASE request[s].pc = "marked" /\ request'[s].row = request[s].row
      <3>1. PICK t \in Tasks : t = request[s].row /\ task[t].subject = s /\ task[t].state # "absent"
        BY <1>0, <2>5 DEF RequestRow
      <3>2. Open(t)
        BY <2>5, <3>1, RowsStay DEF Open
      <3>3. CASE x \in settling
        <4>1. touched[x.task]
          BY <1>0, <2>2, <2>5, <3>1, <3>2, <3>3 DEF LateSettlesBlind
        <4> QED
          BY <2>1, <4>1, TouchedStays
      <3>4. CASE ~HasOpenRequest(x.task)
        BY <2>1, <2>2, <3>1, <3>2, <3>4 DEF HasOpenRequest, Open, Finished
      <3> QED
        BY <3>3, <3>4, SettleSources
    <2> QED
      BY <2>3, <2>4, <2>5
  <1> QED
    BY <1>1, <1>2, <1>3 DEF RequestInv

\* What the lane knows of a rep's request while it waits: the row it queued, and
\* that every settle under way has been overtaken by its mark.
THEOREM RequestInvariant == Spec => []RequestInv
  BY RequestStarts, RequestNext, LaneInvariant, PTL DEF Spec

\* "Leaves a fresh request alone when a retired task settles late": the PENDING
\* a rep's request wrote outlives every settle of an older task, however the
\* settle's reads and its write fall around the request's.
THEOREM FreshRequestStays == Spec => FreshRequestKept
  <1> DEFINE Kept(s) == /\ request[s].pc = "marked" /\ contact[s] = "PENDING"
                        /\ Open(request[s].row) /\ task[request[s].row].attempts = 0
                        => contact'[s] \in {"PENDING", "RUNNING"}
  <1>1. ASSUME LaneInv, RequestInv, [Next]_vars, NEW s \in Subjects PROVE Kept(s)
    <2> SUFFICES ASSUME request[s].pc = "marked", contact[s] = "PENDING", Open(request[s].row)
                 PROVE  contact'[s] \in {"PENDING", "RUNNING"}
      OBVIOUS
    <2>0. contact \in [Subjects -> Statuses] /\ settling \subseteq Settle
      BY <1>1 DEF LaneInv, LaneTypeOK
    <2>1. CASE UNCHANGED contact
      BY <2>1
    <2>2. ASSUME NEW u, NEW requests, NEW status \in {"PENDING", "RUNNING"},
                 WriteContact(u, status, requests)
          PROVE  contact'[s] \in {"PENDING", "RUNNING"}
      BY <2>0, <2>2 DEF WriteContact
    <2>3. ASSUME NEW x \in settling, SettleWrite(x) PROVE contact'[s] \in {"PENDING", "RUNNING"}
      <3>1. CASE MaySettle(x) /\ task[x.task].subject = s
        BY <1>1, <3>1 DEF MaySettle, RequestInv, LateSettlesBlind
      <3>2. CASE ~MaySettle(x)
        BY <2>1, <2>3, <3>2 DEF SettleWrite, record
      <3>3. CASE MaySettle(x) /\ task[x.task].subject # s
        BY <2>0, <2>3, <3>3 DEF SettleWrite, WriteContact
      <3> QED
        BY <3>1, <3>2, <3>3
    <2>4. ASSUME NEW u \in Subjects, RequestMark(u) PROVE contact'[s] \in {"PENDING", "RUNNING"}
      BY <2>1, <2>2, <2>4 DEF RequestMark, record
    <2>5. ASSUME NEW t \in Tasks, NEW a \in Attempts, MarkRunning(t, a)
          PROVE  contact'[s] \in {"PENDING", "RUNNING"}
      BY <2>1, <2>2, <2>5 DEF MarkRunning, record
    <2> QED
      BY <1>1, <2>1, <2>3, <2>4, <2>5
      DEF Next, vars, record, RequestRead, RequestQueue, MeetingSoon, ClaimDue, StartAccepted,
          StartFailed, TurnEnds, TurnStopped, TurnFailed, TurnOver, CloseTask, ScheduleLookUp,
          ScheduleWrite, SettleRead, SweepStep, SweepRead, SweepJudge, SweepLand, SweepRetire,
          SweepRelease, Time, AgentStops, ApiStops
  <1>2. LaneInv /\ RequestInv /\ [Next]_vars => [\A s \in Subjects : Kept(s)]_vars
    BY <1>1
  <1> QED
    BY <1>2, LaneInvariant, RequestInvariant, PTL DEF Spec, FreshRequestKept

-----------------------------------------------------------------------------
(* The company lane. *)

\* The rows a company has are of the kind that owns its status.
BrandRows == \A t \in Tasks : task[t].state # "absent" => task[t].kind = "brand"

\* Only failures are settled by a call of their own, and for rows that exist.
SettlesFailed == \A x \in settling : x.to = "FAILED" /\ task[x.task].state # "absent"

\* Nothing is held for an attempt that has no handler.
HandlerHolds == \A t \in Tasks, a \in Attempts : ~Handling(t, a) => look[t][a] = NoLook

CompanyInv == LaneInv /\ CompanyTypeOK /\ BrandRows /\ SettlesFailed /\ HandlerHolds

\* The steps of the company lane that are steps of the research lane.
SharedStep ==
    \/ \E s \in Subjects : RequestRead(s) \/ RequestMark(s)
    \/ \E S \in SUBSET Tasks : ClaimDue(S)
    \/ \E x \in settling : SettleRead(x) \/ SettleWrite(x)
    \/ \E w \in Sweepers : SweepStep(w)
    \/ Time \/ AgentStops \/ ApiStops

LEMMA SharedIsNext == SharedStep => Next
  BY DEF SharedStep, Next

LEMMA InsertStep ==
  ASSUME NEW t \in Tasks, NEW s \in Subjects, Insert(t, "brand", s, TRUE)
  PROVE  QueueStep
  BY CompanyConstants DEF QueueStep

\* What a rep, a sign-in or the creation of a company does to the rows: nothing,
\* or a new row about the company.
LEMMA Inserts ==
  ASSUME CompanyInv, NEW s \in Subjects, Add(s) \/ AskQueue(s) \/ SignInInsert(s)
  PROVE  UNCHANGED task \/ \E t \in Tasks : Insert(t, "brand", s, TRUE)
  <1>1. left.rows \subseteq Tasks
    BY DEF CompanyInv, CompanyTypeOK, Budget
  <1> QED
    BY <1>1 DEF Add, AskQueue, SignInInsert, Enqueue

\* A handler that ends, or whose row fails, was handed that row.
LEMMA HandlingClaimed ==
  ASSUME CompanyInv, NEW t \in Tasks, NEW a \in Attempts, Handling(t, a)
  PROVE  task[t].attempts > 0 /\ task[t].state # "absent" /\ Of(t) \in Subjects
  BY DEF CompanyInv, LaneInv, WorkClaimed, RowsNamed, Handling, Of

\* Every step of the company lane is a step of the queue too.
LEMMA CompanyStep == CompanyInv /\ [CompanyNext]_allVars => [QueueStep]_task
  <1> SUFFICES ASSUME CompanyInv, [CompanyNext]_allVars PROVE [QueueStep]_task
    OBVIOUS
  <1>1. CASE SharedStep
    BY <1>1, SharedIsNext, LaneStep DEF CompanyInv
  <1>2. ASSUME NEW s \in Subjects, Add(s) \/ AskQueue(s) \/ SignInInsert(s)
        PROVE  [QueueStep]_task
    BY <1>2, Inserts, InsertStep
  <1>3. ASSUME NEW t \in Tasks, NEW a \in Attempts, EndLook(t, a) PROVE [QueueStep]_task
    <2>1. task[t].attempts > 0
      BY <1>3, HandlingClaimed DEF EndLook
    <2>2. Open(t) => Complete(t, "ran")
      BY <1>3 DEF EndLook, CloseRows, Complete
    <2>3. ~Open(t) => UNCHANGED task
      BY <1>3 DEF EndLook
    <2> QED
      BY <2>1, <2>2, <2>3 DEF QueueStep
  <1>4. CASE UNCHANGED task
    BY <1>4
  <1>5. ASSUME NEW t \in Tasks, NEW a \in Attempts,
               \/ ReadCompany(t, a) \/ MarkLooking(t, a) \/ Answer(t, a) \/ Fill(t, a)
               \/ SettleLook(t, a) \/ Throw(t, a)
        PROVE  UNCHANGED task
    BY <1>5 DEF ReadCompany, MarkLooking, Answer, Fill, SettleLook, Throw, vars
  <1>6. ASSUME NEW s \in Subjects,
               \/ SignInRead(s) \/ SignInCheck(s) \/ \E d \in Domains \cup {NoDomain} : Rename(s, d)
        PROVE  UNCHANGED task
    BY <1>6 DEF SignInRead, SignInCheck, Rename, vars
  <1>7. ASSUME NEW x \in settling, SettleReadBusy(x) \/ SettleThrows(x) PROVE UNCHANGED task
    BY <1>7 DEF SettleReadBusy, SettleThrows
  <1> QED
    BY <1>1, <1>2, <1>3, <1>4, <1>5, <1>6, <1>7
    DEF CompanyNext, SharedStep, allVars, vars, SignIn, Handle, AskRead, AskMark, VisibleClaim,
        CompanySettle, CompanySweep, CompanyTime, AgentDies, ApiDies, KeySet

-----------------------------------------------------------------------------
\* A step that leaves the sweeps and the bookings alone and hands no row out
\* keeps the invariant of the lane, if it is a step of the queue.
LEMMA LaneKept ==
  ASSUME LaneInv, [QueueStep]_task, LaneTypeOK', UNCHANGED <<sweep, booking>>,
         \A t \in Tasks, a \in Attempts : work'[t][a] # "idle" => work[t][a] # "idle"
  PROVE  LaneInv'
  <1>1. QueueInv'
    BY QueueNext DEF LaneInv
  <1>2. \A t \in Tasks :
           /\ task'[t].attempts >= task[t].attempts
           /\ task'[t].state # "absent" => task'[t].subject \in Subjects
           /\ task'[t].attempts > 0 => task'[t].state # "absent"
           /\ Open(t)' /\ Leased(t)' /\ task'[t].attempts = task[t].attempts => Open(t) /\ Leased(t)
    BY QueueMonotone DEF LaneInv
  <1>3. /\ \A t \in Tasks : task[t].attempts \in Nat /\ task'[t].attempts \in Nat
        /\ \A w \in Sweepers, t \in Tasks : sweep[w].seen[t] \in Nat
    BY QueueConstants DEF LaneInv, LaneTypeOK, TypeOK, Row, Sweep
  <1>4. \A t \in Tasks : task[t].attempts > 0 => task'[t].attempts > 0
    BY <1>2, <1>3
  <1>5. RowsNamed' /\ WorkClaimed'
    BY <1>2, <1>4 DEF LaneInv, RowsNamed, WorkClaimed
  <1>6. SweepFresh'
    <2> SUFFICES ASSUME NEW w \in Sweepers, NEW t \in Tasks,
                        t \in sweep[w].open \cup sweep[w].landed \cup sweep[w].dead
                 PROVE  /\ sweep[w].seen[t] <= task'[t].attempts
                        /\ Open(t)' /\ task'[t].attempts = sweep[w].seen[t] => ~Leased(t)'
                        /\ t \in sweep[w].landed => sweep[w].seen[t] > 0
      BY DEF SweepFresh
    <2>1. /\ sweep[w].seen[t] <= task[t].attempts
          /\ Open(t) /\ task[t].attempts = sweep[w].seen[t] => ~Leased(t)
          /\ t \in sweep[w].landed => sweep[w].seen[t] > 0
      BY DEF LaneInv, SweepFresh
    <2> QED
      BY <1>2, <1>3, <2>1
  <1> QED
    BY <1>1, <1>5, <1>6 DEF LaneInv

\* What the lanes share stays as it should be under the steps of the company
\* lane that are its own.
LEMMA CompanyLaneKept == CompanyInv /\ [CompanyNext]_allVars => LaneInv'
  <1> SUFFICES ASSUME CompanyInv, [CompanyNext]_allVars PROVE LaneInv'
    OBVIOUS
  <1> DEFINE Places == {"idle", "claimed", "marked", "turn", "over"}
             Known == \A t \in Tasks, a \in Attempts : work'[t][a] # "idle" => work[t][a] # "idle"
  <1>0. /\ LaneInv /\ LaneTypeOK /\ SettlesFailed /\ [QueueStep]_task
        /\ TypeOK /\ request \in [Subjects -> Request] /\ settling \subseteq Settle
        /\ work \in [Tasks -> [Attempts -> Places]]
    BY CompanyStep DEF CompanyInv, LaneInv, LaneTypeOK
  <1>1. TypeOK'
    BY <1>0, QueueNext DEF LaneInv, QueueInv
  <1>2. CASE SharedStep
    BY <1>0, <1>2, SharedIsNext, LaneNext
  <1>3. CASE UNCHANGED vars
    BY <1>0, <1>3, LaneNext
  <1>4. ASSUME NEW s \in Subjects, Add(s) \/ SignInInsert(s) PROVE LaneInv'
    <2>1. UNCHANGED <<record, work, settling, booking, sweep, request, crashes>>
      BY <1>4 DEF Add, SignInInsert
    <2>2. LaneTypeOK'
      BY <1>0, <1>1, <2>1 DEF LaneTypeOK, record
    <2> QED
      BY <1>0, <2>1, <2>2, LaneKept
  <1>5. ASSUME NEW s \in Subjects, AskQueue(s) PROVE LaneInv'
    <2>1. UNCHANGED <<record, work, settling, booking, sweep, crashes>>
      BY <1>5 DEF AskQueue
    <2>2. request' \in [Subjects -> Request]
      <3>1. request[s] \in Request /\ NoRequest \in Request
        BY <1>0 DEF Request, NoRequest
      <3>2. [request[s] EXCEPT !.pc = "queued"] \in Request
        BY <3>1 DEF Request
      <3>3. \A t \in Tasks : [request[s] EXCEPT !.pc = "queued", !.row = t] \in Request
        BY <3>1 DEF Request
      <3>4. left.rows \subseteq Tasks
        BY DEF CompanyInv, CompanyTypeOK, Budget
      <3>5. ASSUME NEW t \in left.rows,
                   request' = [request EXCEPT ![s].pc = "queued", ![s].row = t]
            PROVE  request' \in [Subjects -> Request]
        <4>1. request' = [request EXCEPT ![s] = [request[s] EXCEPT !.pc = "queued", !.row = t]]
          BY <1>0, <3>5
        <4> QED
          BY <1>0, <3>3, <3>4, <4>1
      <3> QED
        BY <1>0, <1>5, <3>1, <3>2, <3>5 DEF AskQueue
    <2>3. LaneTypeOK'
      BY <1>0, <1>1, <2>1, <2>2 DEF LaneTypeOK, record
    <2> QED
      BY <1>0, <2>1, <2>3, LaneKept
  <1>6. ASSUME NEW s, NEW status \in Statuses,
               WriteContact(s, status, request) \/ UNCHANGED <<record, request>>,
               UNCHANGED <<task, settling, booking, sweep, crashes>>,
               work' \in [Tasks -> [Attempts -> Places]], Known
        PROVE  LaneInv'
    <2>1. LaneTypeOK'
      BY <1>0, <1>1, <1>6, WriteTypes DEF LaneTypeOK, record
    <2> QED
      BY <1>0, <1>6, <2>1, LaneKept
  <1>7. ASSUME NEW t \in Tasks, NEW a \in Attempts, Handling(t, a), Ends(t, a)
        PROVE  work' \in [Tasks -> [Attempts -> Places]] /\ Known
    BY <1>0, <1>7 DEF Ends, Handling
  <1>8. UNCHANGED work => work' \in [Tasks -> [Attempts -> Places]] /\ Known
    BY <1>0
  <1> HIDE DEF Known
  <1>9. ASSUME NEW s \in Subjects, NEW d \in Domains \cup {NoDomain}, Rename(s, d) PROVE LaneInv'
    BY <1>6, <1>8, <1>9 DEF Rename, Statuses
  <1>10. ASSUME NEW t \in Tasks, NEW a \in Attempts, MarkLooking(t, a) \/ Fill(t, a)
         PROVE  LaneInv'
    BY <1>6, <1>8, <1>10 DEF MarkLooking, Fill, Statuses
  <1>11. ASSUME NEW t \in Tasks, NEW a \in Attempts, SettleLook(t, a) PROVE LaneInv'
    <2>1. look[t][a].to \in Statuses
      BY DEF CompanyInv, CompanyTypeOK, Look, Statuses
    <2>2. work' \in [Tasks -> [Attempts -> Places]] /\ Known
      BY <1>7, <1>8, <1>11 DEF SettleLook, Handed
    <2> QED
      BY <1>6, <1>11, <2>1, <2>2 DEF SettleLook
  <1>12. ASSUME NEW t \in Tasks, NEW a \in Attempts, EndLook(t, a) PROVE LaneInv'
    <2>1. work' \in [Tasks -> [Attempts -> Places]] /\ Known
      BY <1>7, <1>12 DEF EndLook, Handed
    <2>2. fresh' \in [Tasks -> BOOLEAN] /\ touched' \in [Tasks -> BOOLEAN]
      BY <1>0, <1>12, CloseTypes DEF EndLook, LaneTypeOK
    <2>3. UNCHANGED <<contact, settling, booking, sweep, request, crashes>>
      BY <1>12 DEF EndLook
    <2>4. LaneTypeOK'
      BY <1>0, <1>1, <2>1, <2>2, <2>3 DEF LaneTypeOK
    <2> QED
      BY <1>0, <2>1, <2>3, <2>4, LaneKept DEF Known
  <1>13. ASSUME NEW t \in Tasks, NEW a \in Attempts, Throw(t, a) PROVE LaneInv'
    <2>1. work' \in [Tasks -> [Attempts -> Places]] /\ Known
      BY <1>7, <1>13 DEF Throw, Handed
    <2>2. settling' \subseteq Settle
      BY <1>0, <1>13, SettleTypes DEF Throw, Statuses
    <2>3. UNCHANGED <<task, record, booking, sweep, request, crashes>>
      BY <1>13 DEF Throw
    <2>4. LaneTypeOK'
      BY <1>0, <1>1, <2>1, <2>2, <2>3 DEF LaneTypeOK, record
    <2> QED
      BY <1>0, <2>1, <2>3, <2>4, LaneKept DEF Known
  <1>14. ASSUME NEW x \in settling, SettleReadBusy(x) \/ SettleThrows(x) PROVE LaneInv'
    <2>1. UNCHANGED <<task, record, work, booking, sweep, request, crashes>>
      BY <1>14 DEF SettleReadBusy, SettleThrows
    <2>2. [x EXCEPT !.ready = TRUE, !.pendingOk = FALSE] \in Settle
      BY <1>0 DEF Settle
    <2>3. settling' \subseteq Settle
      BY <1>0, <1>14, <2>2 DEF SettleReadBusy, SettleThrows
    <2>4. LaneTypeOK'
      BY <1>0, <1>1, <2>1, <2>3 DEF LaneTypeOK, record
    <2> QED
      BY <1>0, <1>8, <2>1, <2>4, LaneKept DEF Known
  <1>15. ASSUME NEW t \in Tasks, NEW a \in Attempts, ReadCompany(t, a) \/ Answer(t, a)
         PROVE  UNCHANGED vars
    BY <1>15 DEF ReadCompany, Answer
  <1>16. ASSUME NEW s \in Subjects, SignInRead(s) \/ SignInCheck(s) PROVE UNCHANGED vars
    BY <1>16 DEF SignInRead, SignInCheck
  <1> QED
    BY <1>2, <1>3, <1>4, <1>5, <1>9, <1>10, <1>11, <1>12, <1>13, <1>14, <1>15, <1>16
    DEF CompanyNext, SharedStep, allVars, SignIn, Handle, AskRead, AskMark, VisibleClaim,
        CompanySettle, CompanySweep, CompanyTime, AgentDies, ApiDies, KeySet

-----------------------------------------------------------------------------
LEMMA CompanyTypes == CompanyInv /\ [CompanyNext]_allVars => CompanyTypeOK'
  <1> SUFFICES ASSUME CompanyInv, [CompanyNext]_allVars PROVE CompanyTypeOK'
    OBVIOUS
  <1>0. CompanyTypeOK /\ LaneTypeOK'
    BY CompanyLaneKept DEF CompanyInv, LaneInv
  <1> DEFINE D == domain' \in [Subjects -> Domains \cup {NoDomain}]
             F == foundFor' \in [Subjects -> Domains \cup {NoDomain}]
             L == look' \in [Tasks -> [Attempts -> Look]]
             A == adding' \in [Subjects -> BOOLEAN]
             G == signIn' \in [Subjects -> {"idle", "wanted", "missing"}]
             K == key' \in BOOLEAN
             B == left' \in Budget
             R == stranded' \subseteq Subjects
  <1>1. D /\ F /\ L /\ A /\ G /\ K /\ B /\ R => CompanyTypeOK'
    BY <1>0 DEF CompanyTypeOK
  <1>2. /\ UNCHANGED domain => D
        /\ UNCHANGED foundFor => F
        /\ UNCHANGED look => L
        /\ UNCHANGED adding => A
        /\ UNCHANGED signIn => G
        /\ UNCHANGED key => K
        /\ UNCHANGED left => B
        /\ UNCHANGED stranded => R
    BY <1>0 DEF CompanyTypeOK
  <1>3. Fails => B
    <2>1. left \in Budget
      BY <1>0 DEF CompanyTypeOK
    <2>2. left.failures > 0 => left.failures - 1 \in Nat
      BY <2>1 DEF Budget
    <2>3. left.failures > 0 => [left EXCEPT !.failures = left.failures - 1] \in Budget
      BY <2>1, <2>2 DEF Budget
    <2> QED
      BY <2>3 DEF Fails
  <1>4. ASSUME NEW t \in Tasks, NEW a \in Attempts, NEW x \in Look, Now(t, a, x)
        PROVE  L /\ UNCHANGED <<domain, adding, signIn, key, stranded>>
    BY <1>0, <1>4 DEF Now, CompanyTypeOK
  <1>5. NoLook \in Look
    BY DEF NoLook, Look
  <1>6. \A t \in Tasks, a \in Attempts : look[t][a] \in Look
    BY <1>0 DEF CompanyTypeOK
  <1> HIDE DEF D, F, L, A, G, K, B, R
  <1>7. ASSUME NEW s \in Subjects, NEW d \in Domains \cup {NoDomain}, Rename(s, d) PROVE CompanyTypeOK'
    <2>1. left \in Budget
      BY <1>0 DEF CompanyTypeOK
    <2>2. left.renames > 0 => left.renames - 1 \in Nat
      BY <2>1 DEF Budget
    <2>3. left.renames > 0 => [left EXCEPT !.renames = left.renames - 1] \in Budget
      BY <2>1, <2>2 DEF Budget
    <2>4. B
      BY <1>7, <2>3 DEF Rename, B
    <2>5. D /\ A
      BY <1>0, <1>7 DEF Rename, CompanyTypeOK, D, A
    <2> QED
      BY <1>1, <1>2, <1>7, <2>4, <2>5 DEF Rename
  <1>8. ASSUME NEW s \in Subjects, Add(s) PROVE CompanyTypeOK'
    <2>1. A
      BY <1>0, <1>8 DEF Add, CompanyTypeOK, A
    <2>2. B
      BY <1>2, <1>3, <1>8 DEF Add
    <2> QED
      BY <1>1, <1>2, <1>8, <2>1, <2>2 DEF Add
  <1>9. ASSUME NEW s \in Subjects, AskRead(s) PROVE CompanyTypeOK'
    <2>1. left \in Budget
      BY <1>0 DEF CompanyTypeOK
    <2>2. left.requests > 0 => left.requests - 1 \in Nat
      BY <2>1 DEF Budget
    <2>3. left.requests > 0 => [left EXCEPT !.requests = left.requests - 1] \in Budget
      BY <2>1, <2>2 DEF Budget
    <2>4. B
      BY <1>9, <2>3 DEF AskRead, B
    <2> QED
      BY <1>1, <1>2, <1>9, <2>4 DEF AskRead
  <1>10. ASSUME NEW s \in Subjects, SignInRead(s) \/ SignInCheck(s) \/ SignInInsert(s)
         PROVE  CompanyTypeOK'
    <2>1. G
      BY <1>0, <1>10 DEF SignInRead, SignInCheck, SignInInsert, CompanyTypeOK, G
    <2> QED
      BY <1>1, <1>2, <1>10, <2>1 DEF SignInRead, SignInCheck, SignInInsert
  <1>11. CASE KeySet
    BY <1>1, <1>2, <1>11 DEF KeySet, K
  <1>12. CASE UNCHANGED companyVars
    BY <1>1, <1>2, <1>12 DEF companyVars
  <1>13. ASSUME NEW t \in Tasks, NEW a \in Attempts,
                ReadCompany(t, a) \/ MarkLooking(t, a) \/ Answer(t, a)
         PROVE  CompanyTypeOK'
    <2>1. UNCHANGED <<foundFor, left>>
      BY <1>13 DEF ReadCompany, MarkLooking, Answer
    <2>2. PICK x \in Look : Now(t, a, x)
      <3> USE DEF Look, NoLook
      <3>1. CASE ReadCompany(t, a)
        <4>1. domain[Of(t)] \in Domains \cup {NoDomain}
          BY <1>0, <3>1, HandlingClaimed DEF ReadCompany, CompanyTypeOK
        <4>2. /\ [NoLook EXCEPT !.at = "settle", !.to = "SKIPPED"] \in Look
              /\ [NoLook EXCEPT !.at = "settle", !.to = "SKIPPED", !.anyStatus = TRUE] \in Look
              /\ [NoLook EXCEPT !.at = "read", !.domain = domain[Of(t)]] \in Look
          BY <4>1
        <4> QED
          BY <3>1, <4>2 DEF ReadCompany
      <3>2. CASE MarkLooking(t, a)
        BY <1>6, <3>2 DEF MarkLooking
      <3>3. CASE Answer(t, a)
        BY <1>6, <3>3 DEF Answer
      <3> QED
        BY <1>13, <3>1, <3>2, <3>3
    <2>3. L /\ UNCHANGED <<domain, adding, signIn, key, stranded>>
      BY <1>4, <2>2
    <2> QED
      BY <1>1, <1>2, <2>1, <2>3
  <1>14. ASSUME NEW t \in Tasks, NEW a \in Attempts,
                Fill(t, a) \/ SettleLook(t, a) \/ EndLook(t, a) \/ Throw(t, a)
         PROVE  CompanyTypeOK'
    <2>1. PICK x \in Look : Now(t, a, x)
      <3>1. [look[t][a] EXCEPT !.at = "end"] \in Look
        BY <1>6 DEF Look
      <3> QED
        BY <1>5, <1>14, <3>1 DEF Fill, SettleLook, EndLook, Throw, Handed
    <2>2. L /\ UNCHANGED <<domain, adding, signIn, key, stranded>>
      BY <1>4, <2>1
    <2>3. F
      BY <1>0, <1>2, <1>6, <1>14 DEF Fill, SettleLook, EndLook, Throw, CompanyTypeOK, Look, F
    <2>4. B
      BY <1>2, <1>3, <1>14 DEF Fill, SettleLook, EndLook, Throw
    <2> QED
      BY <1>1, <1>2, <2>2, <2>3, <2>4
  <1>15. ASSUME NEW x \in settling, SettleThrows(x) PROVE CompanyTypeOK'
    <2>1. R
      BY <1>0, <1>15 DEF SettleThrows, Strands, CompanyTypeOK, R
    <2> QED
      BY <1>1, <1>2, <1>3, <1>15, <2>1 DEF SettleThrows
  <1>16. CASE AgentDies
    <2>1. R /\ L
      BY <1>0, <1>5, <1>16 DEF AgentDies, Strands, CompanyTypeOK, R, L
    <2> QED
      BY <1>1, <1>2, <1>3, <1>16, <2>1 DEF AgentDies
  <1>17. CASE ApiDies
    <2>1. A /\ G
      BY <1>17 DEF ApiDies, A, G
    <2> QED
      BY <1>1, <1>2, <1>3, <1>17, <2>1 DEF ApiDies
  <1>18. CASE UNCHANGED allVars
    BY <1>12, <1>18 DEF allVars
  <1> QED
    BY <1>7, <1>8, <1>9, <1>10, <1>11, <1>12, <1>13, <1>14, <1>15, <1>16, <1>17, <1>18
    DEF CompanyNext, SignIn, Handle, AskMark, AskQueue, VisibleClaim, CompanySettle, CompanySweep,
        CompanyTime

-----------------------------------------------------------------------------
\* A row keeps its kind, and a row there was not before is an inserted one.
LEMMA RowKinds ==
  ASSUME QueueInv, [QueueStep]_task, NEW t \in Tasks,
         \A k \in Kinds, s \in Subjects, due \in BOOLEAN : ~Insert(t, k, s, due)
  PROVE  /\ task'[t].kind = task[t].kind
         /\ task'[t].state # "absent" => task[t].state # "absent"
  <1>0. task[t] \in Row /\ task \in [Tasks -> Row]
    BY DEF QueueInv, TypeOK
  <1> DEFINE Same == /\ task'[t].kind = task[t].kind
                     /\ task'[t].state # "absent" => task[t].state # "absent"
  <1>1. CASE task'[t] = task[t]
    BY <1>1
  <1>2. ASSUME NEW u \in Tasks, NEW k \in Kinds, NEW s \in Subjects, NEW due \in BOOLEAN,
               Insert(u, k, s, due)
        PROVE  task'[t] = task[t]
    BY <1>0, <1>2 DEF Insert
  <1>3. ASSUME NEW u \in Tasks, Postpone(u) \/ Lapse(u) \/ ComeDue(u) PROVE Same
    BY <1>0, <1>3 DEF Postpone, Lapse, ComeDue, Row
  <1>4. ASSUME NEW S \in SUBSET Tasks, Claim(S, Kinds) PROVE Same
    <2>1. task'[t] = task[t] \/
          task'[t] = [task[t] EXCEPT !.lease = "live", !.attempts = task[t].attempts + 1]
      BY <1>4 DEF Claim
    <2> QED
      BY <1>0, <2>1 DEF Row
  <1>5. ASSUME NEW S \in SUBSET Tasks, NEW o, \A u \in S : Open(u), Close(S, o) PROVE Same
    <2>1. task'[t] = task[t] \/
          (task[t].state = "open" /\
           task'[t] = [task[t] EXCEPT !.state = "finished", !.outcome = o,
                                      !.lease = "none", !.due = FALSE])
      BY <1>5 DEF Close, Open
    <2> QED
      BY <1>0, <2>1 DEF Row
  <1>6. ASSUME NEW S \in SUBSET Tasks, Release(S) PROVE Same
    <2>1. task'[t] = task[t] \/ task'[t] = [task[t] EXCEPT !.lease = "none"]
      BY <1>6 DEF Release
    <2> QED
      BY <1>0, <2>1 DEF Row
  <1>7. ASSUME NEW u \in Tasks, NEW o \in {"ran", "stopped"}, Complete(u, o) PROVE Same
    BY <1>5, <1>7 DEF Complete
  <1>8. ASSUME NEW S \in SUBSET Tasks, Retire(S) \/ Land(S) PROVE Same
    BY <1>5, <1>8 DEF Retire, Land, Exhausted
  <1> QED
    BY <1>1, <1>2, <1>3, <1>4, <1>6, <1>7, <1>8 DEF QueueStep

LEMMA BrandKept == CompanyInv /\ [CompanyNext]_allVars => BrandRows'
  <1> SUFFICES ASSUME CompanyInv, [CompanyNext]_allVars, NEW t \in Tasks,
                      task'[t].state # "absent"
               PROVE  task'[t].kind = "brand"
    BY DEF BrandRows
  <1>0. QueueInv /\ TypeOK /\ BrandRows /\ [QueueStep]_task
    BY CompanyStep DEF CompanyInv, LaneInv, QueueInv
  <1>1. CASE \A k \in Kinds, s \in Subjects, due \in BOOLEAN : ~Insert(t, k, s, due)
    BY <1>0, <1>1, RowKinds DEF BrandRows
  <1>2. ASSUME NEW k \in Kinds, NEW s \in Subjects, NEW due \in BOOLEAN, Insert(t, k, s, due)
        PROVE  task'[t].kind = "brand"
    <2>0. /\ task[t].state = "absent" /\ task'[t].kind = k /\ task'[t].state = "open"
          /\ task'[t].attempts = 0
      BY <1>0, <1>2 DEF Insert, TypeOK
    <2>1. ASSUME NEW u \in Subjects, Add(u) \/ AskQueue(u) \/ SignInInsert(u)
          PROVE  task'[t].kind = "brand"
      <3>1. PICK v \in Tasks : Insert(v, "brand", u, TRUE)
        BY <2>0, <2>1, Inserts
      <3> QED
        BY <1>0, <2>0, <3>1 DEF Insert, TypeOK
    <2>2. ~(UNCHANGED task)
      BY <2>0
    <2>3. ASSUME NEW v \in Tasks, NEW a \in Attempts, EndLook(v, a) PROVE FALSE
      BY <1>0, <2>0, <2>3 DEF EndLook, CloseRows, Close, Open, TypeOK
    <2>4. ASSUME NEW S \in SUBSET Tasks, ClaimDue(S) PROVE FALSE
      BY <2>0, <2>4 DEF ClaimDue, Claim, Claimable, Open
    <2>5. ASSUME NEW w \in Sweepers, SweepStep(w) PROVE FALSE
      BY <2>0, <2>5
      DEF SweepStep, SweepRead, SweepJudge, SweepLand, SweepRetire, SweepRelease, CloseRows, Close,
          StillStale, Exhausted, Open
    <2>6. CASE Time
      BY <1>0, <2>0, <2>6 DEF Time, Lapse, ComeDue, Open, TypeOK
    <2>7. ASSUME NEW x \in settling, SettleRead(x) \/ SettleWrite(x) \/ SettleReadBusy(x) \/ SettleThrows(x)
          PROVE  UNCHANGED task
      BY <2>7 DEF SettleRead, SettleWrite, SettleReadBusy, SettleThrows
    <2>8. ASSUME NEW v \in Tasks, NEW a \in Attempts,
                 \/ ReadCompany(v, a) \/ MarkLooking(v, a) \/ Answer(v, a) \/ Fill(v, a)
                 \/ SettleLook(v, a) \/ Throw(v, a)
          PROVE  UNCHANGED task
      BY <2>8 DEF ReadCompany, MarkLooking, Answer, Fill, SettleLook, Throw, vars
    <2>9. ASSUME NEW u \in Subjects,
                 \/ SignInRead(u) \/ SignInCheck(u) \/ RequestRead(u) \/ RequestMark(u)
                 \/ \E d \in Domains \cup {NoDomain} : Rename(u, d)
          PROVE  UNCHANGED task
      BY <2>9 DEF SignInRead, SignInCheck, RequestRead, RequestMark, Rename, vars
    <2> QED
      BY <2>1, <2>2, <2>3, <2>4, <2>5, <2>6, <2>7, <2>8, <2>9
      DEF CompanyNext, allVars, vars, SignIn, Handle, AskRead, AskMark, VisibleClaim, CompanySettle,
          CompanySweep, CompanyTime, AgentDies, ApiDies, AgentStops, ApiStops, KeySet
  <1> QED
    BY <1>1, <1>2

\* What begins a settle in this lane is a failure of an attempt at the row or
\* its retirement.
LEMMA SettlesKept == CompanyInv /\ [CompanyNext]_allVars => SettlesFailed'
  <1> SUFFICES ASSUME CompanyInv, [CompanyNext]_allVars PROVE SettlesFailed'
    OBVIOUS
  <1>0. /\ SettlesFailed /\ settling \subseteq Settle
        /\ QueueInv /\ RowsNamed /\ [QueueStep]_task
    BY CompanyStep DEF CompanyInv, LaneInv, LaneTypeOK
  <1>1. \A t \in Tasks : task[t].state # "absent" => task'[t].state # "absent"
    BY <1>0, QueueMonotone
  <1>2. ASSUME \A x \in settling' : \/ \E y \in settling : x.task = y.task /\ x.to = y.to
                                    \/ x.to = "FAILED" /\ x.task \in Tasks /\ task[x.task].state # "absent"
        PROVE  SettlesFailed'
    BY <1>0, <1>1, <1>2 DEF SettlesFailed, Settle
  <1>3. ASSUME NEW S \in SUBSET Tasks, \A t \in S : task[t].state # "absent", BeginSettle(S, "FAILED")
        PROVE  SettlesFailed'
    BY <1>2, <1>3 DEF BeginSettle
  <1>4. CASE settling' \subseteq settling
    BY <1>2, <1>4
  <1>5. ASSUME NEW x \in settling, SettleRead(x) \/ SettleReadBusy(x) PROVE SettlesFailed'
    <2>1. x \in Settle
      BY <1>0
    <2>2. PICK b : settling' = (settling \ {x}) \cup {[x EXCEPT !.ready = TRUE, !.pendingOk = b]}
      BY <1>5 DEF SettleRead, SettleReadBusy
    <2>3. /\ [x EXCEPT !.ready = TRUE, !.pendingOk = b].task = x.task
          /\ [x EXCEPT !.ready = TRUE, !.pendingOk = b].to = x.to
      BY <2>1 DEF Settle
    <2> QED
      BY <1>2, <2>2, <2>3
  <1>6. ASSUME NEW t \in Tasks, NEW a \in Attempts, Throw(t, a) PROVE SettlesFailed'
    BY <1>3, <1>6, HandlingClaimed DEF Throw
  <1>7. ASSUME NEW w \in Sweepers, SweepStep(w) PROVE SettlesFailed'
    <2>1. CASE SweepRetire(w)
      BY <1>3, <2>1 DEF SweepRetire, Exhausted, Open
    <2> QED
      BY <1>4, <1>7, <2>1 DEF SweepStep, SweepRead, SweepJudge, SweepLand, SweepRelease
  <1>8. ASSUME NEW x \in settling, SettleWrite(x) \/ SettleThrows(x) PROVE settling' \subseteq settling
    BY <1>8 DEF SettleWrite, SettleThrows
  <1>9. ASSUME NEW t \in Tasks, NEW a \in Attempts, Handle(t, a) PROVE settling' \subseteq settling
    BY <1>9 DEF Handle, ReadCompany, MarkLooking, Answer, Fill, SettleLook, EndLook, vars
  <1>10. ASSUME NEW s \in Subjects,
                \/ SignIn(s) \/ AskRead(s) \/ AskQueue(s) \/ AskMark(s) \/ Add(s)
                \/ \E d \in Domains \cup {NoDomain} : Rename(s, d)
         PROVE  settling' \subseteq settling
    BY <1>10
    DEF SignIn, SignInRead, SignInCheck, SignInInsert, AskRead, RequestRead, AskQueue, AskMark,
        RequestMark, Add, Rename, vars
  <1> QED
    BY <1>4, <1>5, <1>6, <1>7, <1>8, <1>9, <1>10
    DEF CompanyNext, allVars, vars, VisibleClaim, ClaimDue, CompanySettle, CompanySweep, CompanyTime,
        Time, AgentDies, AgentStops, ApiDies, ApiStops, KeySet

\* A handler's step is about what it holds itself.
LEMMA HoldsKept == CompanyInv /\ [CompanyNext]_allVars => HandlerHolds'
  <1> SUFFICES ASSUME CompanyInv, [CompanyNext]_allVars PROVE HandlerHolds'
    OBVIOUS
  <1>0. /\ HandlerHolds
        /\ work \in [Tasks -> [Attempts -> {"idle", "claimed", "marked", "turn", "over"}]]
        /\ look \in [Tasks -> [Attempts -> Look]]
    BY DEF CompanyInv, CompanyTypeOK, LaneTypeOK
  <1>1. ASSUME NEW t \in Tasks, NEW a \in Attempts, NEW x, Handling(t, a), Now(t, a, x), UNCHANGED work
        PROVE  HandlerHolds'
    BY <1>0, <1>1 DEF HandlerHolds, Handling, Now
  <1>2. ASSUME NEW t \in Tasks, NEW a \in Attempts, Handed(t, a) PROVE HandlerHolds'
    BY <1>0, <1>2 DEF HandlerHolds, Handling, Handed, Now, Ends
  <1>3. CASE UNCHANGED <<work, look>>
    BY <1>0, <1>3 DEF HandlerHolds, Handling
  <1>4. ASSUME NEW S \in SUBSET Tasks, VisibleClaim(S) PROVE HandlerHolds'
    <2>1. UNCHANGED look
      BY <1>4 DEF VisibleClaim, companyVars
    <2>2. \A t \in Tasks, a \in Attempts : Handling(t, a) => Handling(t, a)'
      BY <1>0, <1>4 DEF VisibleClaim, ClaimDue, Handling
    <2> QED
      BY <1>0, <2>1, <2>2 DEF HandlerHolds
  <1>5. CASE AgentDies
    BY <1>5 DEF AgentDies, HandlerHolds
  <1>6. ASSUME NEW t \in Tasks, NEW a \in Attempts, Handle(t, a) PROVE HandlerHolds'
    <2>1. CASE ReadCompany(t, a) \/ Answer(t, a)
      BY <1>1, <2>1 DEF ReadCompany, Answer, vars
    <2>2. CASE MarkLooking(t, a) \/ Fill(t, a)
      BY <1>1, <2>2 DEF MarkLooking, Fill
    <2>3. CASE SettleLook(t, a) \/ EndLook(t, a)
      BY <1>1, <1>2, <2>3 DEF SettleLook, EndLook
    <2> QED
      BY <1>6, <2>1, <2>2, <2>3 DEF Handle
  <1>7. ASSUME NEW t \in Tasks, NEW a \in Attempts, Throw(t, a) PROVE HandlerHolds'
    BY <1>2, <1>7 DEF Throw
  <1>8. ASSUME NEW x \in settling, CompanySettle(x) \/ SettleThrows(x) PROVE UNCHANGED <<work, look>>
    BY <1>8 DEF CompanySettle, SettleRead, SettleReadBusy, SettleWrite, SettleThrows, companyVars
  <1>9. ASSUME NEW w \in Sweepers, CompanySweep(w) PROVE UNCHANGED <<work, look>>
    BY <1>9
    DEF CompanySweep, SweepStep, SweepRead, SweepJudge, SweepLand, SweepRetire, SweepRelease, companyVars
  <1>10. ASSUME NEW s \in Subjects,
                \/ SignIn(s) \/ AskRead(s) \/ AskQueue(s) \/ AskMark(s) \/ Add(s)
                \/ \E d \in Domains \cup {NoDomain} : Rename(s, d)
         PROVE  UNCHANGED <<work, look>>
    BY <1>10
    DEF SignIn, SignInRead, SignInCheck, SignInInsert, AskRead, RequestRead, AskQueue, AskMark,
        RequestMark, Add, Rename, vars, companyVars
  <1> QED
    BY <1>3, <1>4, <1>5, <1>6, <1>7, <1>8, <1>9, <1>10
    DEF CompanyNext, allVars, vars, companyVars, CompanyTime, Time, ApiDies, ApiStops, KeySet

LEMMA CompanyStarts == CompanyInit => CompanyInv
  <1> SUFFICES ASSUME CompanyInit PROVE CompanyInv
    OBVIOUS
  <1>1. LaneInv /\ LaneTypeOK
    BY LaneStarts DEF CompanyInit, LaneInv
  <1>2. left \in Budget /\ left.domain \in Domains \cup {NoDomain} /\ left.keyed \in BOOLEAN
    BY CompanyConstants DEF CompanyInit, Budget
  <1>3. NoLook \in Look
    BY DEF NoLook, Look
  <1>4. CompanyTypeOK
    BY <1>1, <1>2, <1>3 DEF CompanyInit, CompanyTypeOK
  <1>5. BrandRows /\ SettlesFailed /\ HandlerHolds
    BY DEF CompanyInit, LaneInit, Init, NoRow, BrandRows, SettlesFailed, HandlerHolds
  <1> QED
    BY <1>1, <1>4, <1>5 DEF CompanyInv

LEMMA CompanyKept == CompanyInv /\ [CompanyNext]_allVars => CompanyInv'
  BY CompanyLaneKept, CompanyTypes, BrandKept, SettlesKept, HoldsKept DEF CompanyInv

\* The inductive invariant of the company lane: what the lanes share, rows of one
\* kind, settles of failures alone, and nothing held without a handler.
THEOREM CompanyInvariant == CompanySpec => []CompanyInv
  BY CompanyStarts, CompanyKept, PTL DEF CompanySpec

\* Creations, renames, requests, sign-ins, handlers that outlive their lease and
\* stops of either process take only the steps of the queue.
THEOREM CompanyImplementsQueue == CompanySpec => Queue
  <1>1. CompanyInit => Init
    BY DEF CompanyInit, LaneInit
  <1> QED
    BY <1>1, CompanyStep, CompanyInvariant, PTL DEF CompanySpec, Queue, QueueSpec

\* So a live lease and the first ending of a row are as safe from late handlers
\* as they are from late turns.
THEOREM CompanyRowsKept == CompanySpec => FirstEndingWins /\ LiveLeaseKept
  <1>1. CompanyInv /\ [CompanyNext]_allVars => [QueueStep]_task /\ QueueInv
    BY CompanyStep DEF CompanyInv, LaneInv
  <1>2. CompanyInv /\ [CompanyNext]_allVars =>
          [\A t \in Tasks : Finished(t) => task'[t] = task[t]]_vars
    BY <1>1, ClosedStep
  <1>3. CompanyInv /\ [CompanyNext]_allVars =>
          [\A t \in Tasks : Open(t) /\ Leased(t) =>
             IF Open(t)' THEN task'[t].lease # "none"
                         ELSE task'[t].outcome \in {"ran", "stopped"}]_vars
    BY <1>1, LeaseStep
  <1> QED
    BY <1>2, <1>3, CompanyInvariant, PTL DEF CompanySpec, FirstEndingWins, LiveLeaseKept

-----------------------------------------------------------------------------
(* The status of a company. *)

\* Who writes the status of a company, and over what.
LEMMA StatusWrites ==
  ASSUME CompanyInv, [CompanyNext]_allVars, NEW s \in Subjects, contact'[s] # contact[s]
  PROVE  \/ contact'[s] = "PENDING"
         \/ \E t \in Tasks, a \in Attempts :
               MarkLooking(t, a) /\ Of(t) = s /\ contact[s] # "COMPLETE" /\ contact'[s] = "RUNNING"
         \/ contact'[s] = "COMPLETE"
         \/ contact[s] # "COMPLETE" /\ contact'[s] \in {"FAILED", "SKIPPED"}
  <1>0. /\ contact \in [Subjects -> Statuses] /\ SettlesFailed
        /\ \A t \in Tasks, a \in Attempts : look[t][a] \in Look
    BY DEF CompanyInv, CompanyTypeOK, LaneTypeOK
  <1> DEFINE Goal ==
         \/ contact'[s] = "PENDING"
         \/ \E t \in Tasks, a \in Attempts :
               MarkLooking(t, a) /\ Of(t) = s /\ contact[s] # "COMPLETE" /\ contact'[s] = "RUNNING"
         \/ contact'[s] = "COMPLETE"
         \/ contact[s] # "COMPLETE" /\ contact'[s] \in {"FAILED", "SKIPPED"}
  <1>1. ASSUME NEW u, NEW status, NEW requests, WriteContact(u, status, requests)
        PROVE  u = s /\ contact'[s] = status
    BY <1>0, <1>1 DEF WriteContact
  <1>2. ASSUME NEW u \in Subjects, NEW d \in Domains \cup {NoDomain}, Rename(u, d) PROVE Goal
    BY <1>1, <1>2 DEF Rename
  <1>3. ASSUME NEW u \in Subjects, AskMark(u) PROVE Goal
    BY <1>1, <1>3 DEF AskMark, RequestMark, record
  <1>4. ASSUME NEW t \in Tasks, NEW a \in Attempts, MarkLooking(t, a) PROVE Goal
    BY <1>1, <1>4 DEF MarkLooking, record
  <1>5. ASSUME NEW t \in Tasks, NEW a \in Attempts, Fill(t, a) PROVE Goal
    BY <1>1, <1>5 DEF Fill
  <1>6. ASSUME NEW t \in Tasks, NEW a \in Attempts, SettleLook(t, a) PROVE Goal
    <2>1. /\ SettleGuard(look[t][a], contact[Of(t)])
          /\ Of(t) = s /\ contact'[s] = look[t][a].to
      BY <1>1, <1>6 DEF SettleLook, record
    <2>2. contact[s] # "COMPLETE"
      BY <2>1 DEF SettleGuard
    <2>3. look[t][a].to \in {"COMPLETE", "FAILED", "SKIPPED"}
      BY <1>0 DEF Look
    <2> QED
      BY <2>1, <2>2, <2>3
  <1>7. ASSUME NEW x \in settling, SettleWrite(x) PROVE Goal
    <2>1. MaySettle(x) /\ task[x.task].subject = s /\ contact'[s] = x.to /\ x.to = "FAILED"
      BY <1>0, <1>1, <1>7 DEF SettleWrite, SettlesFailed, record
    <2>2. contact[s] # "COMPLETE"
      BY <2>1 DEF MaySettle
    <2> QED
      BY <2>1, <2>2
  <1>8. ~UNCHANGED contact
    OBVIOUS
  <1> HIDE DEF Goal
  <1>9. ASSUME NEW t \in Tasks, NEW a \in Attempts, Handle(t, a) \/ Throw(t, a) PROVE Goal
    BY <1>4, <1>5, <1>6, <1>8, <1>9 DEF Handle, ReadCompany, Answer, EndLook, Throw, vars, record
  <1>10. ASSUME NEW x \in settling, CompanySettle(x) \/ SettleThrows(x) PROVE Goal
    BY <1>7, <1>8, <1>10 DEF CompanySettle, SettleRead, SettleReadBusy, SettleThrows, record
  <1>11. ASSUME NEW w \in Sweepers, CompanySweep(w) PROVE FALSE
    BY <1>8, <1>11
    DEF CompanySweep, SweepStep, SweepRead, SweepJudge, SweepLand, SweepRetire, SweepRelease, record
  <1>12. ASSUME NEW u \in Subjects, SignIn(u) \/ AskRead(u) \/ AskQueue(u) \/ Add(u) PROVE FALSE
    BY <1>8, <1>12
    DEF SignIn, SignInRead, SignInCheck, SignInInsert, AskRead, RequestRead, AskQueue, Add, vars, record
  <1>13. Goal
    BY <1>2, <1>3, <1>8, <1>9, <1>10, <1>11, <1>12
    DEF CompanyNext, allVars, vars, record, VisibleClaim, ClaimDue, CompanyTime, Time, AgentDies,
        AgentStops, ApiDies, ApiStops, KeySet
  <1> QED
    BY <1>13 DEF Goal

\* A company that was looked up stays so until a rep asks again or renames it:
\* no late handler, second attempt or retired row takes COMPLETE away.
THEOREM CompleteStays == CompanySpec => CompleteKept
  <1>1. CompanyInv /\ [CompanyNext]_allVars =>
          [\A s \in Subjects :
             contact[s] = "COMPLETE" => contact'[s] \in {"COMPLETE", "PENDING"}]_allVars
    BY StatusWrites
  <1> QED
    BY <1>1, CompanyInvariant, PTL DEF CompanySpec, CompleteKept

\* A row, a handler or a settle that will still write the status of s does so
\* after the step too, or a settle has taken its place.
LEMMA WatchStays ==
  ASSUME CompanyInv, [CompanyNext]_allVars, NEW s \in Subjects, Watched(s),
         \A t \in Tasks : Open(t) /\ ~Closing(t) /\ Of(t) = s =>
            \/ Open(t)' /\ ~Closing(t)'
            \/ \E x \in settling' : x.task = t,
         \A t \in Tasks, a \in Attempts : Handling(t, a) /\ ~Done(t, a) /\ Of(t) = s =>
            \/ Handling(t, a)' /\ ~Done(t, a)'
            \/ \E x \in settling' : x.task = t,
         \A x \in settling : Of(x.task) = s => \E y \in settling' : y.task = x.task
  PROVE  Watched(s)'
  <1>1. \A t \in Tasks : task[t].state # "absent" => task'[t].subject = task[t].subject
    BY CompanyStep, QueueMonotone DEF CompanyInv, LaneInv
  <1>2. settling \subseteq Settle /\ SettlesFailed
    BY DEF CompanyInv, LaneInv, LaneTypeOK
  <1>3. \A t \in Tasks : Open(t) => Of(t)' = Of(t)
    BY <1>1 DEF Open, Of
  <1>4. \A t \in Tasks, a \in Attempts : Handling(t, a) => Of(t)' = Of(t)
    BY <1>1, HandlingClaimed DEF Of
  <1>5. \A x \in settling : x.task \in Tasks /\ Of(x.task)' = Of(x.task)
    BY <1>1, <1>2 DEF SettlesFailed, Settle, Of
  <1>6. ASSUME NEW t \in Tasks, Of(t)' = s, \E x \in settling' : x.task = t PROVE Watched(s)'
    BY <1>6 DEF Watched
  <1>7. ASSUME NEW t \in Tasks, Open(t), Of(t) = s, ~Closing(t) PROVE Watched(s)'
    <2>1. CASE Open(t)' /\ ~Closing(t)'
      BY <1>3, <1>7, <2>1 DEF Watched
    <2>2. CASE \E x \in settling' : x.task = t
      BY <1>3, <1>6, <1>7, <2>2
    <2> QED
      BY <1>7, <2>1, <2>2
  <1>8. ASSUME NEW t \in Tasks, NEW a \in Attempts, Handling(t, a), Of(t) = s, ~Done(t, a)
        PROVE  Watched(s)'
    <2>1. CASE Handling(t, a)' /\ ~Done(t, a)'
      BY <1>4, <1>8, <2>1 DEF Watched
    <2>2. CASE \E x \in settling' : x.task = t
      BY <1>4, <1>6, <1>8, <2>2
    <2> QED
      BY <1>8, <2>1, <2>2
  <1>9. ASSUME NEW x \in settling, Of(x.task) = s PROVE Watched(s)'
    BY <1>5, <1>6, <1>9
  <1> QED
    BY <1>7, <1>8, <1>9 DEF Watched

\* The step of a handler that goes on changes what is closing for no other row.
LEMMA HandlerSteps ==
  ASSUME CompanyInv, [CompanyNext]_allVars, NEW t \in Tasks, NEW a \in Attempts,
         NEW x \in Look, Now(t, a, x), UNCHANGED <<settling, sweep>>,
         UNCHANGED work \/ Ends(t, a),
         NEW s \in Subjects, Watched(s),
         \A u \in Tasks : Open(u) /\ Of(u) = s /\ ~Closing(u) => Open(u)',
         \/ Of(t) # s
         \/ Done(t, a)
         \/ UNCHANGED work /\ x.at # "end"
  PROVE  Watched(s)'
  <1>0. /\ work \in [Tasks -> [Attempts -> {"idle", "claimed", "marked", "turn", "over"}]]
        /\ look \in [Tasks -> [Attempts -> Look]]
    BY DEF CompanyInv, CompanyTypeOK, LaneTypeOK
  <1>1. \A u \in Tasks, b \in Attempts : u # t \/ b # a =>
           /\ Handling(u, b)' <=> Handling(u, b)
           /\ Done(u, b)' <=> Done(u, b)
    BY <1>0 DEF Now, Ends, Handling, Done
  <1>2. UNCHANGED work /\ x.at # "end" => ~Done(t, a)' /\ (Handling(t, a)' <=> Handling(t, a))
    BY <1>0 DEF Now, Handling, Done
  <1>3. ASSUME NEW u \in Tasks, Open(u), Of(u) = s, ~Closing(u) PROVE ~Closing(u)'
    <2>1. \A b \in Attempts : ~Done(u, b)
      BY <1>3 DEF Closing
    <2>2. \A b \in Attempts : ~Done(u, b)'
      BY <1>1, <1>2, <1>3, <2>1
    <2> QED
      BY <1>3, <2>2 DEF Closing
  <1>4. ASSUME NEW u \in Tasks, NEW b \in Attempts, Handling(u, b), ~Done(u, b), Of(u) = s
        PROVE  Handling(u, b)' /\ ~Done(u, b)'
    BY <1>1, <1>2, <1>4
  <1> QED
    BY <1>3, <1>4, WatchStays

\* The only steps after which nobody is left are those that write how it ended,
\* and those that lose the last one.
LEMMA WatchKept == CompanyInv /\ RunningIsWatched /\ [CompanyNext]_allVars => RunningIsWatched'
  <1> SUFFICES ASSUME CompanyInv, RunningIsWatched, [CompanyNext]_allVars,
                      NEW s \in Subjects, contact'[s] = "RUNNING", s \notin stranded'
               PROVE  Watched(s)'
    BY DEF RunningIsWatched
  <1>0. /\ contact \in [Subjects -> Statuses]
        /\ work \in [Tasks -> [Attempts -> {"idle", "claimed", "marked", "turn", "over"}]]
        /\ look \in [Tasks -> [Attempts -> Look]] /\ sweep \in [Sweepers -> Sweep]
        /\ settling \subseteq Settle
        /\ TypeOK /\ BrandRows /\ HandlerHolds
    BY DEF CompanyInv, CompanyTypeOK, LaneInv, LaneTypeOK, QueueInv
  <1>1. CASE contact[s] # "RUNNING"
    <2>1. PICK t \in Tasks, a \in Attempts : MarkLooking(t, a) /\ Of(t) = s
      BY <1>1, StatusWrites
    <2>2. Handling(t, a)' /\ ~Done(t, a)' /\ Of(t)' = s
      BY <1>0, <2>1 DEF MarkLooking, Now, Handling, Done, Of, Look
    <2> QED
      BY <2>2 DEF Watched
  <1> SUFFICES ASSUME contact[s] = "RUNNING" PROVE Watched(s)'
    BY <1>1
  <1>2. stranded \subseteq stranded'
    <2>1. ASSUME NEW u \in Subjects,
                 \/ SignIn(u) \/ AskRead(u) \/ AskQueue(u) \/ AskMark(u) \/ Add(u)
                 \/ \E d \in Domains \cup {NoDomain} : Rename(u, d)
          PROVE  UNCHANGED stranded
      BY <2>1 DEF SignIn, SignInRead, SignInCheck, SignInInsert, AskRead, AskQueue, AskMark, Add,
                  Rename, companyVars
    <2>2. ASSUME NEW t \in Tasks, NEW a \in Attempts, Handle(t, a) \/ Throw(t, a)
          PROVE  UNCHANGED stranded
      <3>1. \A x : Now(t, a, x) => UNCHANGED stranded
        BY DEF Now
      <3> QED
        BY <2>2, <3>1
        DEF Handle, ReadCompany, MarkLooking, Answer, Fill, SettleLook, EndLook, Throw, Handed
    <2>3. Strands => stranded \subseteq stranded'
      BY DEF Strands
    <2> QED
      BY <2>1, <2>2, <2>3
      DEF CompanyNext, allVars, companyVars, KeySet, VisibleClaim, CompanySettle, SettleThrows,
          CompanySweep, CompanyTime, AgentDies, ApiDies
  <1>3. Watched(s)
    BY <1>2 DEF RunningIsWatched
  \* Steps that touch neither handlers nor settles nor sweeps.
  <1>4. ASSUME UNCHANGED <<work, look, settling, sweep>>,
               \A t \in Tasks : Open(t) => Open(t)'
        PROVE  Watched(s)'
    <2>1. \A t \in Tasks, a \in Attempts :
             /\ Handling(t, a)' <=> Handling(t, a)
             /\ Done(t, a)' <=> Done(t, a)
      BY <1>4 DEF Handling, Done
    <2>2. \A t \in Tasks : Closing(t)' <=> Closing(t)
      BY <1>4, <2>1 DEF Closing
    <2> QED
      BY <1>3, <1>4, <2>1, <2>2, WatchStays
  <1>5. UNCHANGED task => \A t \in Tasks : Open(t) => Open(t)'
    BY DEF Open
  <1>6. ASSUME NEW u \in Subjects, Add(u) \/ AskQueue(u) \/ SignInInsert(u) PROVE Watched(s)'
    <2>1. \A t \in Tasks : Open(t) => Open(t)'
      BY <1>0, <1>6, Inserts DEF Insert, Open, TypeOK
    <2>2. UNCHANGED <<work, look, settling, sweep>>
      BY <1>6 DEF Add, AskQueue, SignInInsert, companyVars
    <2> QED
      BY <1>4, <2>1, <2>2
  <1>7. ASSUME NEW u \in Subjects,
               \/ SignInRead(u) \/ SignInCheck(u) \/ AskRead(u) \/ AskMark(u)
               \/ \E d \in Domains \cup {NoDomain} : Rename(u, d)
        PROVE  Watched(s)'
    <2>1. UNCHANGED <<task, work, look, settling, sweep>>
      BY <1>7 DEF SignInRead, SignInCheck, AskRead, RequestRead, AskMark, RequestMark, Rename, vars,
                  companyVars
    <2> QED
      BY <1>4, <1>5, <2>1
  <1>8. CASE CompanyTime
    <2>1. \A t \in Tasks : Open(t) => Open(t)'
      BY <1>0, <1>8 DEF CompanyTime, Time, Lapse, ComeDue, Open, TypeOK, Row
    <2>2. UNCHANGED <<work, look, settling, sweep>>
      BY <1>8 DEF CompanyTime, Time, companyVars
    <2> QED
      BY <1>4, <2>1, <2>2
  <1>9. CASE KeySet \/ ApiDies \/ UNCHANGED allVars
    <2>1. UNCHANGED <<task, work, look, settling, sweep>>
      BY <1>9 DEF KeySet, ApiDies, ApiStops, allVars, vars, companyVars
    <2> QED
      BY <1>4, <1>5, <2>1
  <1>10. ASSUME NEW S \in SUBSET Tasks, VisibleClaim(S) PROVE Watched(s)'
    <2>1. UNCHANGED <<look, settling, sweep>>
      BY <1>10 DEF VisibleClaim, ClaimDue, companyVars
    <2>2. \A t \in Tasks : Open(t) => Open(t)'
      BY <1>0, <1>10 DEF VisibleClaim, ClaimDue, Claim, Open, TypeOK, Row
    <2>3. \A t \in Tasks, a \in Attempts : Handling(t, a) => Handling(t, a)'
      BY <1>0, <1>10 DEF VisibleClaim, ClaimDue, Handling
    <2>4. \A t \in Tasks, a \in Attempts : Done(t, a)' => Done(t, a)
      BY <1>0, <2>1 DEF Done, HandlerHolds, NoLook
    <2>5. \A t \in Tasks : Closing(t)' => Closing(t)
      BY <2>1, <2>4 DEF Closing
    <2> QED
      BY <1>3, <2>1, <2>2, <2>3, <2>4, <2>5, WatchStays
  <1>11. ASSUME NEW t \in Tasks, NEW a \in Attempts, ReadCompany(t, a) \/ Answer(t, a)
         PROVE  Watched(s)'
    <2>1. CASE ReadCompany(t, a)
      <3>1. domain[Of(t)] \in Domains \cup {NoDomain}
        BY <2>1, HandlingClaimed DEF ReadCompany, CompanyInv, CompanyTypeOK
      <3>2. PICK x \in Look : Now(t, a, x) /\ x.at # "end"
        <4>1. \A y \in {[NoLook EXCEPT !.at = "settle", !.to = "SKIPPED"],
                        [NoLook EXCEPT !.at = "settle", !.to = "SKIPPED", !.anyStatus = TRUE],
                        [NoLook EXCEPT !.at = "read", !.domain = domain[Of(t)]]} :
                 y \in Look /\ y.at # "end"
          BY <3>1 DEF NoLook, Look
        <4> QED
          BY <2>1, <4>1 DEF ReadCompany
      <3>3. UNCHANGED <<task, work, settling, sweep>>
        BY <2>1 DEF ReadCompany, vars
      <3> QED
        BY <1>3, <1>5, <3>2, <3>3, HandlerSteps
    <2>2. CASE Answer(t, a)
      <3>1. PICK x \in Look : Now(t, a, x) /\ x.at # "end"
        <4>1. look[t][a] \in Look
          BY <1>0
        <4>2. \A y \in {[look[t][a] EXCEPT !.at = "found"],
                        [look[t][a] EXCEPT !.at = "settle", !.to = "SKIPPED"],
                        [look[t][a] EXCEPT !.at = "settle", !.to = "FAILED"],
                        [look[t][a] EXCEPT !.at = "settle", !.to = "FAILED", !.retry = TRUE]} :
                 y \in Look /\ y.at # "end"
          BY <4>1 DEF Look
        <4> QED
          BY <2>2, <4>2 DEF Answer
      <3>2. UNCHANGED <<task, work, settling, sweep>>
        BY <2>2 DEF Answer, vars
      <3> QED
        BY <1>3, <1>5, <3>1, <3>2, HandlerSteps
    <2> QED
      BY <1>11, <2>1, <2>2
  <1>12. ASSUME NEW t \in Tasks, NEW a \in Attempts, MarkLooking(t, a) PROVE Watched(s)'
    <2>0. look[t][a] \in Look
      BY <1>0
    <2>1. /\ [look[t][a] EXCEPT !.at = "asking"] \in Look
          /\ [look[t][a] EXCEPT !.at = "asking"].at # "end"
      BY <2>0 DEF Look
    <2>2. /\ Now(t, a, [look[t][a] EXCEPT !.at = "asking"])
          /\ UNCHANGED <<task, work, settling, sweep>>
      BY <1>12 DEF MarkLooking
    <2> HIDE DEF Now
    <2> QED
      BY <1>3, <1>5, <2>1, <2>2, HandlerSteps
  <1>13. ASSUME NEW t \in Tasks, NEW a \in Attempts, Fill(t, a) \/ SettleLook(t, a)
         PROVE  Watched(s)'
    <2>1. Of(t) # s
      <3>1. ASSUME NEW status, NEW requests, WriteContact(Of(t), status, requests), Of(t) = s
            PROVE  contact'[s] = status
        BY <1>0, <3>1 DEF WriteContact
      <3>2. CASE Fill(t, a)
        BY <3>1, <3>2 DEF Fill
      <3>3. CASE SettleLook(t, a)
        <4>1. look[t][a].to # "RUNNING"
          BY <1>0 DEF Look
        <4>2. SettleGuard(look[t][a], "RUNNING")
          BY DEF SettleGuard
        <4> QED
          BY <3>1, <3>3, <4>1, <4>2 DEF SettleLook
      <3> QED
        BY <1>13, <3>2, <3>3
    <2>2. PICK x \in Look : Now(t, a, x)
      <3>0. look[t][a] \in Look
        BY <1>0
      <3>1. [look[t][a] EXCEPT !.at = "end"] \in Look /\ NoLook \in Look
        BY <3>0 DEF Look, NoLook
      <3> QED
        BY <1>13, <3>1 DEF Fill, SettleLook, Handed
    <2>3. UNCHANGED <<task, settling, sweep>> /\ (UNCHANGED work \/ Ends(t, a))
      BY <1>13 DEF Fill, SettleLook, Handed
    <2> QED
      BY <1>3, <1>5, <2>1, <2>2, <2>3, HandlerSteps
  <1>14. ASSUME NEW t \in Tasks, NEW a \in Attempts, EndLook(t, a) PROVE Watched(s)'
    <2>1. Done(t, a) /\ Closing(t)
      BY <1>14 DEF EndLook, Done, Closing
    <2>2. \A u \in Tasks : Open(u) /\ ~Closing(u) => Open(u)'
      BY <1>0, <1>14, <2>1 DEF EndLook, CloseRows, Close, Open, TypeOK
    <2>3. NoLook \in Look
      BY DEF NoLook, Look
    <2>4. Now(t, a, NoLook) /\ Ends(t, a) /\ UNCHANGED <<settling, sweep>>
      BY <1>14 DEF EndLook, Handed
    <2> HIDE DEF Now
    <2> QED
      BY <1>3, <2>1, <2>2, <2>3, <2>4, HandlerSteps
  <1>15. ASSUME NEW t \in Tasks, NEW a \in Attempts, Throw(t, a) PROVE Watched(s)'
    <2>1. \E x \in settling' : x.task = t
      <3>1. OwnsStatus(t)
        BY <1>0, <1>15, HandlingClaimed DEF Throw, BrandRows, OwnsStatus
      <3>2. BeginSettle({t}, "FAILED")
        BY <1>15 DEF Throw
      <3>3. [task |-> t, to |-> "FAILED", ready |-> FALSE, pendingOk |-> FALSE] \in settling'
        BY <3>1, <3>2 DEF BeginSettle
      <3> QED
        BY <3>3
    <2>2. \A u \in Tasks, b \in Attempts : u # t \/ b # a =>
             /\ Handling(u, b)' <=> Handling(u, b)
             /\ Done(u, b)' <=> Done(u, b)
      BY <1>0, <1>15 DEF Throw, Handed, Now, Ends, Handling, Done
    <2>3. ~Done(t, a)'
      BY <1>0, <1>15 DEF Throw, Handed, Now, Done, NoLook
    <2>4. \A u \in Tasks : Closing(u)' => Closing(u)
      BY <1>15, <2>2, <2>3 DEF Closing, Throw
    <2>5. settling \subseteq settling' /\ UNCHANGED task
      BY <1>15 DEF Throw, BeginSettle
    <2> QED
      BY <1>3, <1>5, <2>1, <2>2, <2>4, <2>5, WatchStays
  <1>16. ASSUME NEW x \in settling, CompanySettle(x) PROVE Watched(s)'
    <2>1. /\ UNCHANGED <<task, work, look, sweep>>
          /\ \A t \in Tasks, a \in Attempts :
                /\ Handling(t, a)' <=> Handling(t, a)
                /\ Done(t, a)' <=> Done(t, a)
      BY <1>16 DEF CompanySettle, SettleRead, SettleReadBusy, SettleWrite, companyVars, Handling, Done
    <2>2. \A t \in Tasks : Closing(t)' <=> Closing(t)
      BY <2>1 DEF Closing
    <2>3. \A y \in settling : Of(y.task) = s => \E z \in settling' : z.task = y.task
      <3>1. CASE SettleRead(x) \/ SettleReadBusy(x)
        <4>1. x \in Settle
          BY <1>0
        <4>2. PICK b : settling' = (settling \ {x}) \cup {[x EXCEPT !.ready = TRUE, !.pendingOk = b]}
          BY <3>1 DEF SettleRead, SettleReadBusy
        <4>3. [x EXCEPT !.ready = TRUE, !.pendingOk = b].task = x.task
          BY <4>1 DEF Settle
        <4> QED
          BY <4>2, <4>3
      <3>2. CASE SettleWrite(x)
        <4>1. Of(x.task) # s
          <5> SUFFICES ASSUME Of(x.task) = s PROVE FALSE
            OBVIOUS
          <5>1. MaySettle(x) /\ x.to = "FAILED"
            BY DEF MaySettle, Of, CompanyInv, SettlesFailed
          <5>2. WriteContact(s, "FAILED", request)
            BY <3>2, <5>1 DEF SettleWrite, Of
          <5> QED
            BY <1>0, <5>2 DEF WriteContact
        <4> QED
          BY <3>2, <4>1 DEF SettleWrite
      <3> QED
        BY <1>16, <3>1, <3>2 DEF CompanySettle
    <2> QED
      BY <1>3, <1>5, <2>1, <2>2, <2>3, WatchStays
  <1>17. ASSUME NEW w \in Sweepers, CompanySweep(w) PROVE Watched(s)'
    <2>0. /\ UNCHANGED <<work, look>> /\ settling \subseteq settling'
          /\ \A t \in Tasks, a \in Attempts :
                /\ Handling(t, a)' <=> Handling(t, a)
                /\ Done(t, a)' <=> Done(t, a)
      BY <1>17
      DEF CompanySweep, SweepStep, SweepRead, SweepJudge, SweepLand, SweepRetire, SweepRelease,
          BeginSettle, companyVars, Handling, Done
    <2>1. ASSUME \A t \in Tasks : Open(t) /\ Of(t) = s /\ ~Closing(t) =>
                    \/ Open(t)' /\ (t \in sweep'[w].landed => t \in sweep[w].landed)
                    \/ \E x \in settling' : x.task = t
          PROVE  Watched(s)'
      <3>1. \A u \in Sweepers \ {w} : sweep'[u] = sweep[u]
        BY <1>0, <1>17
        DEF CompanySweep, SweepStep, SweepRead, SweepJudge, SweepLand, SweepRetire, SweepRelease
      <3>2. \A t \in Tasks : Open(t) /\ ~Closing(t) /\ Of(t) = s =>
               \/ Open(t)' /\ ~Closing(t)'
               \/ \E x \in settling' : x.task = t
        BY <2>0, <2>1, <3>1 DEF Closing
      <3> QED
        BY <1>3, <2>0, <3>2, WatchStays
    <2>2. CASE SweepRead(w)
      BY <1>0, <1>5, <2>1, <2>2 DEF SweepRead
    <2>3. CASE SweepJudge(w)
      <3>1. \A t \in Tasks : Of(t) = s => t \notin sweep'[w].landed
        BY <1>0, <2>3 DEF SweepJudge, FinishedElsewhere, Of
      <3> QED
        BY <1>5, <2>1, <2>3, <3>1 DEF SweepJudge
    <2>4. CASE SweepLand(w)
      <3>1. \A t \in Tasks : ~Closing(t) => t \notin sweep[w].landed
        BY DEF Closing
      <3>2. \A t \in Tasks : t \notin sweep[w].landed => task'[t] = task[t]
        BY <2>4 DEF SweepLand, CloseRows, Close
      <3>3. \A t \in Tasks : t \notin sweep'[w].landed
        BY <1>0, <2>4 DEF SweepLand, Sweep
      <3> QED
        BY <2>1, <3>1, <3>2, <3>3 DEF Open
    <2>5. CASE SweepRetire(w)
      <3>1. \A t \in Tasks : Exhausted(t) => \E x \in settling' : x.task = t
        <4> TAKE t \in Tasks
        <4>1. Exhausted(t) => OwnsStatus(t)
          BY <1>0 DEF Exhausted, Open, BrandRows, OwnsStatus
        <4>2. BeginSettle({u \in Tasks : Exhausted(u)}, "FAILED")
          BY <2>5 DEF SweepRetire
        <4>3. Exhausted(t) =>
                [task |-> t, to |-> "FAILED", ready |-> FALSE, pendingOk |-> FALSE] \in settling'
          BY <4>1, <4>2 DEF BeginSettle
        <4> QED
          BY <4>3
      <3>2. \A t \in Tasks : ~Exhausted(t) => task'[t] = task[t]
        BY <2>5 DEF SweepRetire, CloseRows, Close
      <3>3. \A t \in Tasks : t \in sweep'[w].landed => t \in sweep[w].landed
        BY <1>0, <2>5 DEF SweepRetire, Sweep
      <3> QED
        BY <2>1, <3>1, <3>2, <3>3 DEF Open
    <2>6. CASE SweepRelease(w)
      <3>1. \A t \in Tasks : Open(t) => Open(t)'
        BY <1>0, <2>6 DEF SweepRelease, Open, TypeOK, Row
      <3>2. \A t \in Tasks : t \notin sweep'[w].landed
        BY <1>0, <2>6 DEF SweepRelease, NoSweep
      <3> QED
        BY <2>1, <3>1, <3>2
    <2> QED
      BY <1>17, <2>2, <2>3, <2>4, <2>5, <2>6 DEF CompanySweep, SweepStep
  <1>18. ASSUME Strands PROVE Watched(s)'
    BY <1>18 DEF Strands
  <1> QED
    BY <1>6, <1>7, <1>8, <1>9, <1>10, <1>11, <1>12, <1>13, <1>14, <1>15, <1>16, <1>17, <1>18
    DEF CompanyNext, SignIn, Handle, SettleThrows, AgentDies

\* No company is left at RUNNING with nobody to say how its look-up ended, except
\* those whose last one was lost with a process or a write, which are counted.
THEOREM StaysWatched == CompanySpec => []RunningIsWatched
  <1>1. CompanyInit => RunningIsWatched
    BY DEF CompanyInit, LaneInit, RunningIsWatched
  <1> QED
    BY <1>1, WatchKept, CompanyInvariant, PTL DEF CompanySpec
=============================================================================
