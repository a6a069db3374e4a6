---------------------------- MODULE AgentVersions ----------------------------
(***************************************************************************)
(* One agent's versions and triggers: the builder saves drafts, people     *)
(* deploy, revise, pause, archive and remove, and passes of the dispatcher *)
(* turn due schedules and CRM events into runs of the version a trigger    *)
(* points at.  The sources are, in the API,                                *)
(* agent/agent-definitions.service.ts and, in the agent,                   *)
(* lib/builder-runtime.ts and lib/custom-agent-dispatch.ts.                *)
(*                                                                         *)
(* Every transaction that locks the agent's row is one step.  A pass reads *)
(* the triggers before it locks anything, and the transaction about an     *)
(* event never locks the agent.  A replayed request changes nothing and is *)
(* left out.  A draft has one trigger here, which keeps the draft's number *)
(* while revisions move it.  What becomes of a run is in AgentRuns.        *)
(***************************************************************************)
EXTENDS Naturals

CONSTANTS Versions,   \* numbers of versions, in order
          Passes,     \* passes of queueDueAgentRuns that may overlap
          Matchers,   \* passes of queueEventAgentRuns that may overlap
          Events,     \* CRM events, each an agent-event task that may run twice
          INTERVAL,   \* intervalMinutes of the schedules, in ticks
          MaxTime     \* bound: ticks

ASSUME VersionConstants ==
    /\ Versions \subseteq Nat \ {0} /\ Events \subseteq Nat \ {0}
    /\ INTERVAL \in Nat \ {0} /\ MaxTime \in Nat

VARIABLES agent,     \* agentDefinition.status
          current,   \* currentVersionId, or 0
          version,   \* version[v]: agentVersion.status
          approved,  \* versions with an approvedAt
          trigger,   \* trigger[v]: the agentTrigger row of draft v
          runs,      \* agentRun rows that triggers queued
          pass,      \* pass[p]: what a pass of queueDueAgentRuns has read
          match,     \* match[m]: what a pass of queueEventAgentRuns has read
          now

defs == <<agent, current, version, approved>>
vars == <<agent, current, version, approved, trigger, runs, pass, match, now>>

Statuses == {"DRAFT", "LIVE", "PAUSED", "ARCHIVED", "DELETED"}
Trigger  == [type : {"none", "SCHEDULE", "EVENT"}, version : Versions \cup {0},
             enabled : BOOLEAN, next : Nat]
Run      == [trigger : Versions, slot : Nat, version : Versions]
Seen     == [pc : {"idle", "seen", "eligible"}, trigger : Versions \cup {0}, slot : Nat,
             version : Versions \cup {0}, next : Nat]

NoTrigger == [type |-> "none", version |-> 0, enabled |-> FALSE, next |-> 0]
Resting   == [pc |-> "idle", trigger |-> 0, slot |-> 0, version |-> 0, next |-> 0]

TypeOK ==
    /\ agent \in Statuses /\ current \in Versions \cup {0}
    /\ version \in [Versions -> {"absent", "READY", "DEPLOYED"}] /\ approved \subseteq Versions
    /\ trigger \in [Versions -> Trigger] /\ runs \subseteq Run
    /\ pass \in [Passes -> Seen] /\ match \in [Matchers -> Seen]
    /\ now \in Nat
    /\ \A p \in Passes : pass[p].pc # "idle" => pass[p].trigger \in Versions /\ pass[p].version \in Versions
    /\ \A m \in Matchers : match[m].pc # "idle" => match[m].trigger \in Versions /\ match[m].version \in Versions

Init ==
    /\ agent = "DRAFT" /\ current = 0
    /\ version = [v \in Versions |-> "absent"] /\ approved = {}
    /\ trigger = [v \in Versions |-> NoTrigger] /\ runs = {}
    /\ pass = [p \in Passes |-> Resting] /\ match = [m \in Matchers |-> Resting]
    /\ now = 0

-----------------------------------------------------------------------------
(* The builder and the people. *)

\* nextVersionNumber.
NextVersion(v) == \A u \in Versions : version[u] = "absent" <=> u >= v

\* saveBuilderDraft.  A schedule whose first time has passed since it was
\* validated has no next time; the same draft again changes nothing.
Draft(v, type, next) ==
    /\ agent # "DELETED" /\ NextVersion(v)
    /\ next = 0 \/ (type = "SCHEDULE" /\ next > now)
    /\ version' = [version EXCEPT ![v] = "READY"]
    /\ trigger' = [trigger EXCEPT ![v] = [type |-> type, version |-> v, enabled |-> FALSE, next |-> next]]
    /\ UNCHANGED <<agent, current, approved, runs, pass, match, now>>

\* Mutant: the approval is not carried over.
Revise_mutant(v) ==
    /\ agent # "DELETED" /\ current # 0 /\ NextVersion(v)
    /\ version' = [version EXCEPT ![v] = version[current]]
    /\ current' = v
    /\ trigger' = [t \in Versions |->
                     IF trigger[t].version = current THEN [trigger[t] EXCEPT !.version = v]
                                                     ELSE trigger[t]]
    /\ UNCHANGED <<agent, approved, runs, pass, match, now>>

\* revise and saveFile: a new version in place of the current one, with its
\* status, its approval and its triggers.
Revise(v) ==
    /\ agent # "DELETED" /\ current # 0 /\ NextVersion(v)
    /\ version' = [version EXCEPT ![v] = version[current]]
    /\ approved' = IF current \in approved THEN approved \cup {v} ELSE approved
    /\ current' = v
    /\ trigger' = [t \in Versions |->
                     IF trigger[t].version = current THEN [trigger[t] EXCEPT !.version = v]
                                                     ELSE trigger[t]]
    /\ UNCHANGED <<agent, runs, pass, match, now>>

Deployed(v) == [u \in Versions |-> IF u = v THEN "DEPLOYED"
                                   ELSE IF version[u] = "DEPLOYED" THEN "READY" ELSE version[u]]

\* Mutant: what the version before had enabled stays enabled.
Deploy_mutant(v) ==
    /\ agent # "DELETED" /\ version[v] # "absent"
    /\ version' = Deployed(v) /\ approved' = approved \cup {v}
    /\ current' = v /\ agent' = "LIVE"
    /\ trigger' = [t \in Versions |->
                     [trigger[t] EXCEPT !.enabled = @ \/ trigger[t].version = v]]
    /\ UNCHANGED <<runs, pass, match, now>>

\* deploy, of a READY version or one that was deployed before.
Deploy(v) ==
    /\ agent # "DELETED" /\ version[v] # "absent"
    /\ version' = Deployed(v) /\ approved' = approved \cup {v}
    /\ current' = v /\ agent' = "LIVE"
    /\ trigger' = [t \in Versions |-> [trigger[t] EXCEPT !.enabled = (trigger[t].version = v)]]
    /\ UNCHANGED <<runs, pass, match, now>>

\* pause, resume, archive and restore.
Transitions == {<<"LIVE", "PAUSED">>, <<"PAUSED", "LIVE">>, <<"LIVE", "ARCHIVED">>,
                <<"PAUSED", "ARCHIVED">>, <<"ARCHIVED", "PAUSED">>}

ChangeStatus(status) ==
    /\ <<agent, status>> \in Transitions /\ agent' = status
    /\ UNCHANGED <<current, version, approved, trigger, runs, pass, match, now>>

Remove ==
    /\ agent # "DELETED" /\ agent' = "DELETED"
    /\ trigger' = [t \in Versions |->
                     IF trigger[t].enabled THEN [[trigger[t] EXCEPT !.enabled = FALSE] EXCEPT !.next = 0]
                                           ELSE trigger[t]]
    /\ UNCHANGED <<current, version, approved, runs, pass, match, now>>

-----------------------------------------------------------------------------
(* Schedules. *)

\* Mutant: the schedule is not moved.
Advance_mutant(from, at) == from

\* The first slot after the pass began; the slots missed make one run.
Advance(from, at) == from + INTERVAL * (((at - from) \div INTERVAL) + 1)

\* An upsert on idempotencyKey.
Queued(t, slot, v) ==
    IF \E r \in runs : r.trigger = t /\ r.slot = slot
    THEN runs
    ELSE runs \cup {[trigger |-> t, slot |-> slot, version |-> v]}

Due(t) ==
    /\ agent = "LIVE" /\ trigger[t].enabled /\ trigger[t].type = "SCHEDULE"
    /\ trigger[t].next # 0 /\ trigger[t].next <= now

\* A pass of queueDueAgentRuns reads the triggers that are due.
SeeDue(p, t) ==
    /\ pass[p].pc = "idle" /\ Due(t)
    /\ pass' = [pass EXCEPT ![p] = [pc |-> "seen", trigger |-> t, slot |-> trigger[t].next,
                                    version |-> trigger[t].version,
                                    next |-> Advance(trigger[t].next, now)]]
    /\ UNCHANGED <<defs, trigger, runs, match, now>>

\* Mutant: the schedule is moved whatever it was moved to meanwhile.
Unmoved_mutant(p) == trigger[pass[p].trigger].enabled

\* The trigger is still enabled, and no other pass has moved it.
Unmoved(p) == LET t == trigger[pass[p].trigger] IN t.enabled /\ t.next = pass[p].slot

\* The transaction about one trigger, with the agent locked; the version is the
\* one the pass has read.
QueueDue(p) ==
    /\ pass[p].pc = "seen" /\ pass' = [pass EXCEPT ![p] = Resting]
    /\ IF agent = "LIVE" /\ Unmoved(p)
       THEN /\ trigger' = [trigger EXCEPT ![pass[p].trigger].next = pass[p].next]
            /\ runs' = Queued(pass[p].trigger, pass[p].slot, pass[p].version)
       ELSE UNCHANGED <<trigger, runs>>
    /\ UNCHANGED <<defs, match, now>>

-----------------------------------------------------------------------------
(* Events. *)

Matches(t) == agent = "LIVE" /\ trigger[t].enabled /\ trigger[t].type = "EVENT"

\* A pass of queueEventAgentRuns reads the triggers.
SeeEvent(m, e, t) ==
    /\ match[m].pc = "idle" /\ Matches(t)
    /\ match' = [match EXCEPT ![m] = [pc |-> "seen", trigger |-> t, slot |-> e,
                                      version |-> trigger[t].version, next |-> 0]]
    /\ UNCHANGED <<defs, trigger, runs, pass, now>>

\* The transaction about one trigger looks again, without a lock.
CheckEvent(m) ==
    /\ match[m].pc = "seen"
    /\ match' = [match EXCEPT ![m] = IF Matches(match[m].trigger) THEN [@ EXCEPT !.pc = "eligible"]
                                                                  ELSE Resting]
    /\ UNCHANGED <<defs, trigger, runs, pass, now>>

QueueEvent(m) ==
    /\ match[m].pc = "eligible" /\ match' = [match EXCEPT ![m] = Resting]
    /\ runs' = Queued(match[m].trigger, match[m].slot, match[m].version)
    /\ UNCHANGED <<defs, trigger, pass, now>>

-----------------------------------------------------------------------------
Tick == now < MaxTime /\ now' = now + 1 /\ UNCHANGED <<defs, trigger, runs, pass, match>>

AgentStops ==
    /\ pass' = [p \in Passes |-> Resting] /\ match' = [m \in Matchers |-> Resting]
    /\ UNCHANGED <<defs, trigger, runs, now>>

People(v) ==
    \/ \E type \in {"SCHEDULE", "EVENT"}, next \in 0 .. MaxTime : Draft(v, type, next)
    \/ Revise(v) \/ Deploy(v)
Scheduling(p) == (\E t \in Versions : SeeDue(p, t)) \/ QueueDue(p)
Matching(m)   == (\E e \in Events, t \in Versions : SeeEvent(m, e, t)) \/ CheckEvent(m) \/ QueueEvent(m)

Next ==
    \/ \E v \in Versions : People(v)
    \/ \E status \in Statuses : ChangeStatus(status)
    \/ Remove \/ Tick \/ AgentStops
    \/ \E p \in Passes : Scheduling(p)
    \/ \E m \in Matchers : Matching(m)

Spec == Init /\ [][Next]_vars

\* Every tick of the dispatcher makes a pass, which goes on; the agent may stop
\* in the middle of one, but not of every one.
FairSpec ==
    Spec /\ WF_vars(\E p \in Passes, t \in Versions : SeeDue(p, t))
         /\ SF_vars(\E p \in Passes : QueueDue(p))

-----------------------------------------------------------------------------
(* Properties. *)

\* Only triggers of the current version fire, and the current version is the
\* deployed one, whatever is drafted, revised, deployed again or removed.
EnabledAreCurrent ==
    /\ \A t \in Versions : trigger[t].enabled => trigger[t].version = current /\ current # 0
    /\ current # 0 => version[current] = "DEPLOYED"

\* "Deployment is the human approval boundary" (docs/agent.md): no trigger ever
\* queues a version that nobody approved, though a pass uses the version it read
\* before the agent was revised or deployed anew.
OnlyApproved == \A r \in runs : r.version \in approved

\* Overlapping passes that began at different times move a schedule forward
\* only, so no slot comes twice.
SchedulesMoveOn ==
    [][\A t \in Versions : trigger[t].next # 0 /\ trigger'[t].next # 0 =>
          trigger'[t].next >= trigger[t].next]_vars

\* Once an agent is paused, archived or removed, no schedule queues a run,
\* though a pass may have read the schedule before.
StoppedSchedulesRest ==
    [][\A r \in runs' \ runs : trigger[r.trigger].type = "SCHEDULE" =>
          agent = "LIVE" /\ trigger[r.trigger].enabled]_vars

\* A due schedule of a live agent queues its run, or is taken out of service.
DueIsQueued == \A t \in Versions : Due(t) ~> ~Due(t)

\* docs/agent.md: "Deployment enables every trigger on the approved version".
LiveHasTriggers == agent = "LIVE" => \E t \in Versions : trigger[t].enabled
=============================================================================
