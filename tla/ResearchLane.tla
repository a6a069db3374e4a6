---------------------------- MODULE ResearchLane ----------------------------
(***************************************************************************)
(* The research lane of the agent: dispatchers that lease rows of the      *)
(* queue and start one eve session per row (lib/dispatch.ts), the channel  *)
(* events that close a row when its turn ends (channels/crm.ts), the       *)
(* settling of the contact's enrichmentStatus (lib/enrichment.ts), the     *)
(* stale-task sweep (lib/stale-tasks.ts), a rep asking for a fresh look    *)
(* (ContactsService.enrich) and a session booking the next look            *)
(* (tools/schedule_recheck.ts).                                            *)
(*                                                                         *)
(* Each await between two database calls is a step boundary.  The agent    *)
(* process may stop at any of them; sessions live in eve and survive.      *)
(*                                                                         *)
(* Timestamps are kept as the orders the code asks about:                  *)
(*   fresh[t]    t is open and enrichedAt of its contact >= its startedAt  *)
(*   touched[t]  t is closed and updatedAt of its contact >= finishedAt    *)
(* Events in one millisecond are taken to be ordered.                      *)
(***************************************************************************)
EXTENDS TaskQueue

CONSTANTS Sweepers,     \* passes of reconcileStaleTasks that may overlap
          BATCH,        \* DISPATCH.research.batch
          MaxCrashes    \* bound: how often a process stops

ASSUME LaneConstants ==
    /\ "identify" \in Kinds
    /\ Kinds \subseteq {"identify", "recheck", "meeting-prep", "brand"}
    /\ Tasks \cap {"idle", "create", "done", "none"} = {}
    /\ BATCH \in Nat \ {0} /\ MaxCrashes \in Nat

VARIABLES contact,    \* contact[s]: enrichmentStatus
          fresh, touched,
          work,       \* work[t][a]: where attempt a of row t is
          settling,   \* settle() calls that have begun and not yet written
          booking,    \* booking[t]: the schedule_recheck call of t's session
          sweep,      \* sweep[w]: a pass of reconcileStaleTasks
          request,    \* request[s]: ContactsService.enrich for contact s
          crashes

record == <<contact, fresh, touched>>
vars   == <<task, contact, fresh, touched, work, settling, booking, sweep, request, crashes>>

Statuses == {"PENDING", "RUNNING", "COMPLETE", "FAILED", "SKIPPED"}
Attempts == 1 .. MAX_ATTEMPTS

\* Mutant: the rows about companies own no status.
OwnsStatus_mutant(t) == task[t].kind \in {"identify", "recheck"}

\* ownsContactStatus and ownsCompanyStatus: the kinds that write the status of
\* the record they name.  A "brand" row names a company (CompanyLane).
OwnsStatus(t) == task[t].kind \in {"identify", "recheck", "brand"}

Settle  == [task : Tasks, to : Statuses, ready : BOOLEAN, pendingOk : BOOLEAN]
Sweep   == [pc : {"idle", "read", "judged", "landed", "retired"},
            seen : [Tasks -> 0 .. MAX_ATTEMPTS],
            open : SUBSET Tasks, landed : SUBSET Tasks, dead : SUBSET Tasks]
Request == [pc : {"idle", "read", "queued", "marked"}, row : Tasks \cup {"none"},
            same : BOOLEAN]

NoSweep == [pc |-> "idle", seen |-> [t \in Tasks |-> 0],
            open |-> {}, landed |-> {}, dead |-> {}]
NoRequest == [pc |-> "idle", row |-> "none", same |-> FALSE]

LaneTypeOK ==
    /\ TypeOK
    /\ contact \in [Subjects -> Statuses]
    /\ fresh \in [Tasks -> BOOLEAN]
    /\ touched \in [Tasks -> BOOLEAN]
    /\ work \in [Tasks -> [Attempts -> {"idle", "claimed", "marked", "turn", "over"}]]
    /\ settling \subseteq Settle
    /\ booking \in [Tasks -> Tasks \cup {"idle", "create", "done"}]
    /\ sweep \in [Sweepers -> Sweep]
    /\ request \in [Subjects -> Request]
    /\ crashes \in 0 .. MaxCrashes

LaneInit ==
    /\ Init
    /\ contact = [s \in Subjects |-> "PENDING"]     \* the schema's default
    /\ fresh = [t \in Tasks |-> FALSE]
    /\ touched = [t \in Tasks |-> FALSE]
    /\ work = [t \in Tasks |-> [a \in Attempts |-> "idle"]]
    /\ settling = {}
    /\ booking = [t \in Tasks |-> "idle"]
    /\ sweep = [w \in Sweepers |-> NoSweep]
    /\ request = [s \in Subjects |-> NoRequest]
    /\ crashes = 0

-----------------------------------------------------------------------------
(* Writes of the contact row: every one moves updatedAt. *)

WriteContact(s, status, requests) ==
    /\ contact' = [contact EXCEPT ![s] = status]
    /\ touched' = [t \in Tasks |-> touched[t] \/ (Finished(t) /\ task[t].subject = s)]
    /\ fresh' = [t \in Tasks |->
                   \/ fresh[t]
                   \/ status = "COMPLETE" /\ Open(t) /\ task[t].subject = s /\ task[t].attempts > 0]
    /\ request' = [requests EXCEPT ![s].same = FALSE]

\* finishedAt is now: the contact was not written since, and startedAt is not
\* asked about again.
CloseRows(S, outcome) ==
    /\ Close(S, outcome)
    /\ touched' = [t \in Tasks |-> touched[t] /\ t \notin S]
    /\ fresh' = [t \in Tasks |-> fresh[t] /\ t \notin S]

BeginSettle(ts, status) ==
    settling' = settling \cup
        {[task |-> t, to |-> status, ready |-> FALSE, pendingOk |-> FALSE] :
            t \in {u \in ts : OwnsStatus(u)}}

Ends(t, a) == work' = [work EXCEPT ![t][a] = "over"]

-----------------------------------------------------------------------------
(* The API: a rep asks for a fresh look, a meeting comes up. *)

RequestRead(s) ==
    /\ request[s].pc \in {"idle", "marked"}
    /\ request' = [request EXCEPT ![s] = [pc |-> "read", row |-> "none", same |-> TRUE]]
    /\ UNCHANGED <<task, record, work, settling, booking, sweep, crashes>>

RequestQueue(s) ==
    /\ request[s].pc = "read"
    /\ \/ /\ Booked("identify", s)
          /\ request' = [request EXCEPT ![s] = NoRequest]
          /\ UNCHANGED task
       \/ \E t \in Tasks :
            /\ Enqueue(t, "identify", s)
            /\ request' = [request EXCEPT ![s] =
                            [pc |-> "queued", row |-> t, same |-> request[s].same]]
    /\ UNCHANGED <<record, work, settling, booking, sweep, crashes>>

\* updateMany where updatedAt is still the one that was read.
RequestMark(s) ==
    /\ request[s].pc = "queued"
    /\ IF request[s].same
       THEN WriteContact(s, "PENDING", [request EXCEPT ![s].pc = "marked"])
       ELSE /\ request' = [request EXCEPT ![s] = NoRequest]
            /\ UNCHANGED record
    /\ UNCHANGED <<task, work, settling, booking, sweep, crashes>>

MeetingSoon(t, s) ==
    /\ "meeting-prep" \in Kinds
    /\ Enqueue(t, "meeting-prep", s)
    /\ UNCHANGED <<record, work, settling, booking, sweep, request, crashes>>

-----------------------------------------------------------------------------
(* A dispatcher: runResearchLane and beginResearch. *)

ClaimDue(S) ==
    /\ Cardinality(S) <= BATCH
    /\ Claim(S, Kinds)
    /\ work' = [t \in Tasks |->
                  IF t \in S THEN [work[t] EXCEPT ![task'[t].attempts] = "claimed"] ELSE work[t]]
    /\ UNCHANGED <<record, settling, booking, sweep, request, crashes>>

MarkRunning(t, a) ==
    /\ work[t][a] = "claimed"
    /\ work' = [work EXCEPT ![t][a] = "marked"]
    /\ IF OwnsStatus(t) /\ contact[task[t].subject] # "COMPLETE"
       THEN WriteContact(task[t].subject, "RUNNING", request)
       ELSE UNCHANGED <<record, request>>
    /\ UNCHANGED <<task, settling, booking, sweep, crashes>>

\* eve accepts the message: a turn of the row's session runs, in time or late.
StartAccepted(t, a) ==
    /\ work[t][a] = "marked"
    /\ work' = [work EXCEPT ![t][a] = "turn"]
    /\ UNCHANGED <<task, record, settling, booking, sweep, request, crashes>>

\* markRunning threw, or eve refused the message.
StartFailed(t, a) ==
    /\ work[t][a] \in {"claimed", "marked"}
    /\ Ends(t, a) /\ BeginSettle({t}, "FAILED")
    /\ UNCHANGED <<task, record, booking, sweep, request, crashes>>

-----------------------------------------------------------------------------
(* A session: it may book the next look, and its turn ends one way or never. *)

ScheduleLookUp(t) ==
    /\ \E a \in Attempts : work[t][a] = "turn"
    /\ booking[t] = "idle" /\ "recheck" \in Kinds
    /\ \/ \E u \in Tasks :
            /\ Open(u) /\ task[u].kind = "recheck" /\ task[u].subject = task[t].subject
            /\ booking' = [booking EXCEPT ![t] = u]
       \/ /\ ~Booked("recheck", task[t].subject)
          /\ booking' = [booking EXCEPT ![t] = "create"]
    /\ UNCHANGED <<task, record, work, settling, sweep, request, crashes>>

ScheduleWrite(t) ==
    /\ booking[t] \notin {"idle", "done"}
    /\ \/ /\ booking[t] = "create"
          /\ \E u \in Tasks : Insert(u, "recheck", task[t].subject, FALSE)
       \/ /\ booking[t] \in Tasks /\ Open(booking[t])
          /\ Postpone(booking[t])
       \/ /\ booking[t] \in Tasks /\ Finished(booking[t])  \* dueAt of a closed row moves
          /\ UNCHANGED task
    /\ booking' = [booking EXCEPT ![t] = "done"]
    /\ UNCHANGED <<record, work, settling, sweep, request, crashes>>

\* closeTask: completeTask, or just the subject when the row is closed already.
CloseTask(t, outcome, status) ==
    /\ IF Open(t) THEN CloseRows({t}, outcome) ELSE UNCHANGED <<task, fresh, touched>>
    /\ BeginSettle({t}, status)
    /\ UNCHANGED contact

\* A turn ends when its tool calls have returned.
TurnOver(t, a) ==
    /\ work[t][a] = "turn" /\ booking[t] \in {"idle", "done"}
    /\ Ends(t, a)
    /\ booking' = [booking EXCEPT ![t] = "idle"]
    /\ UNCHANGED <<sweep, request, crashes>>

TurnEnds(t, a)    == TurnOver(t, a) /\ CloseTask(t, "ran", "COMPLETE")
TurnStopped(t, a) == TurnOver(t, a) /\ CloseTask(t, "stopped", "SKIPPED")
TurnFailed(t, a)  == TurnOver(t, a) /\ BeginSettle({t}, "FAILED") /\ UNCHANGED <<task, record>>

-----------------------------------------------------------------------------
(* settle: read finishedAt and the open requests, then one guarded write. *)

HasOpenRequest(t) ==
    \E u \in Tasks \ {t} : Open(u) /\ task[u].subject = task[t].subject

Settleable(t, status) ==
    status \in {"COMPLETE", "FAILED"} /\ Finished(t) /\ ~HasOpenRequest(t)

SettleRead(x) ==
    /\ x \in settling /\ ~x.ready
    /\ settling' = (settling \ {x}) \cup
         {[x EXCEPT !.ready = TRUE, !.pendingOk = Settleable(x.task, x.to)]}
    /\ UNCHANGED <<task, record, work, booking, sweep, request, crashes>>

\* Mutant: the write does not ask whether the contact was written meanwhile.
MaySettle_mutant(x) ==
    LET now == contact[task[x.task].subject]
    IN  \/ now = "RUNNING"
        \/ now = "COMPLETE" /\ x.to = "COMPLETE"
        \/ now = "PENDING" /\ x.pendingOk

\* The WHERE of the write.
MaySettle(x) ==
    LET now == contact[task[x.task].subject]
    IN  \/ now = "RUNNING"
        \/ now = "COMPLETE" /\ x.to = "COMPLETE"
        \/ now = "PENDING" /\ x.pendingOk /\ ~touched[x.task]

SettleWrite(x) ==
    /\ x \in settling /\ x.ready
    /\ settling' = settling \ {x}
    /\ IF MaySettle(x) THEN WriteContact(task[x.task].subject, x.to, request)
                       ELSE UNCHANGED <<record, request>>
    /\ UNCHANGED <<task, work, booking, sweep, crashes>>

-----------------------------------------------------------------------------
(* reconcileStaleTasks. *)

Stale(t) == Open(t) /\ task[t].due /\ ~Leased(t)

SweepRead(w) ==
    /\ sweep[w].pc = "idle"
    /\ sweep' = [sweep EXCEPT ![w] =
         [pc |-> "read", open |-> {t \in Tasks : Stale(t)}, landed |-> {},
          seen |-> [t \in Tasks |-> IF Stale(t) THEN task[t].attempts ELSE 0],
          dead |-> {t \in Tasks : Stale(t) /\ task[t].lease = "expired"}]]
    /\ UNCHANGED <<task, record, work, settling, booking, request, crashes>>

FinishedElsewhere(w, t) ==
    /\ sweep[w].seen[t] > 0 /\ OwnsStatus(t)
    /\ contact[task[t].subject] = "COMPLETE" /\ fresh[t]

SweepJudge(w) ==
    /\ sweep[w].pc = "read"
    /\ LET landed == {t \in sweep[w].open : FinishedElsewhere(w, t)}
           dead   == {t \in sweep[w].dead \ landed : sweep[w].seen[t] < MAX_ATTEMPTS}
       IN  sweep' = [sweep EXCEPT ![w] =
                      [pc |-> "judged", open |-> {}, landed |-> landed, dead |-> dead,
                       seen |-> [t \in Tasks |->
                                   IF t \in landed \cup dead THEN sweep[w].seen[t] ELSE 0]]]
    /\ UNCHANGED <<task, record, work, settling, booking, request, crashes>>

\* leasedUntil is NULL, or still before the sweep's own "now": nobody has
\* claimed the row since the sweep read it.
StillStale(w, t) ==
    Open(t) /\ (task[t].lease = "none" \/ task[t].attempts = sweep[w].seen[t])

SweepLand(w) ==
    /\ sweep[w].pc = "judged"
    /\ LET S == {t \in sweep[w].landed : StillStale(w, t)}
       IN  CloseRows(S, "landed")
    /\ sweep' = [sweep EXCEPT ![w].pc = "landed", ![w].landed = {}]
    /\ UNCHANGED <<contact, work, settling, booking, request, crashes>>

\* retireAbandoned: retireExhausted, then a settle for each retired row.
SweepRetire(w) ==
    /\ sweep[w].pc = "landed"
    /\ LET S == {t \in Tasks : Exhausted(t)}
       IN  /\ CloseRows(S, "retired")
           /\ BeginSettle(S, "FAILED")
    /\ sweep' = [sweep EXCEPT ![w].pc = "retired"]
    /\ UNCHANGED <<contact, work, booking, request, crashes>>

SweepRelease(w) ==
    /\ sweep[w].pc = "retired"
    /\ LET S == {t \in sweep[w].dead : StillStale(w, t) /\ task[t].lease # "none"}
       IN  task' = [t \in Tasks |->
                      IF t \in S THEN [task[t] EXCEPT !.lease = "none"] ELSE task[t]]
    /\ sweep' = [sweep EXCEPT ![w] = NoSweep]
    /\ UNCHANGED <<record, work, settling, booking, request, crashes>>

-----------------------------------------------------------------------------
(* Time, and processes that stop. *)

Time ==
    /\ \E t \in Tasks : Lapse(t) \/ ComeDue(t)
    /\ UNCHANGED <<record, work, settling, booking, sweep, request, crashes>>

\* The agent process stops: what it held in memory is gone.  Turns go on.
AgentStops ==
    /\ crashes < MaxCrashes /\ crashes' = crashes + 1
    /\ work' = [t \in Tasks |-> [a \in Attempts |->
                  IF work[t][a] \in {"claimed", "marked"} THEN "over" ELSE work[t][a]]]
    /\ settling' = {}
    /\ sweep' = [w \in Sweepers |-> NoSweep]
    /\ UNCHANGED <<task, record, booking, request>>

ApiStops ==
    /\ crashes < MaxCrashes /\ crashes' = crashes + 1
    /\ request' = [s \in Subjects |-> NoRequest]
    /\ UNCHANGED <<task, record, work, settling, booking, sweep>>

-----------------------------------------------------------------------------
SweepStep(w) == SweepRead(w) \/ SweepJudge(w) \/ SweepLand(w) \/ SweepRetire(w) \/ SweepRelease(w)

Next ==
    \/ \E s \in Subjects : RequestRead(s) \/ RequestQueue(s) \/ RequestMark(s)
    \/ \E t \in Tasks, s \in Subjects : MeetingSoon(t, s)
    \/ \E S \in SUBSET Tasks : ClaimDue(S)
    \/ \E t \in Tasks, a \in Attempts :
          \/ MarkRunning(t, a) \/ StartAccepted(t, a) \/ StartFailed(t, a)
          \/ TurnEnds(t, a) \/ TurnStopped(t, a) \/ TurnFailed(t, a)
    \/ \E t \in Tasks : ScheduleLookUp(t) \/ ScheduleWrite(t)
    \/ \E x \in settling : SettleRead(x) \/ SettleWrite(x)
    \/ \E w \in Sweepers : SweepStep(w)
    \/ Time \/ AgentStops \/ ApiStops

Spec == LaneInit /\ [][Next]_vars

-----------------------------------------------------------------------------
(* Properties. *)

\* "A live lease is never touched" (docs/agent.md): a sweep working from a
\* snapshot never closes or frees a row that a dispatcher has claimed since;
\* only the turn that works on a leased row closes it.
LiveLeaseKept ==
    [][\A t \in Tasks : Open(t) /\ Leased(t) =>
          IF Open(t)' THEN task'[t].lease # "none"
                      ELSE task'[t].outcome \in {"ran", "stopped"}]_vars

\* The first ending wins: completeTask, retireExhausted and the sweep race for
\* the same row, and whoever comes second changes nothing.
FirstEndingWins ==
    [][\A t \in Tasks : Finished(t) =>
          task'[t] = task[t]]_vars

\* "Leaves a fresh request alone when a retired task settles late": while the
\* row a rep's request queued waits unclaimed, the PENDING that the request
\* wrote is not replaced by the ending of any other task.
FreshRequestKept ==
    [][\A s \in Subjects :
          /\ request[s].pc = "marked" /\ contact[s] = "PENDING"
          /\ Open(request[s].row) /\ task[request[s].row].attempts = 0
          => contact'[s] \in {"PENDING", "RUNNING"}]_vars

\* Every row that is opened is closed in the end, whether its session reports
\* back, fails, hangs, or is lost with the process.
EveryTaskEnds == \A t \in Tasks : Open(t) ~> Finished(t)

\* The lanes do to the rows only what the queue promises.
Queue == QueueSpec

\* docs/agent.md: a recheck booked for a later day "is scheduled, and closing
\* it would delete the next look at that contact".
BookedLookKept == [][\A t \in Tasks : Open(t) /\ ~task[t].due => ~Finished(t)']_vars
=============================================================================
