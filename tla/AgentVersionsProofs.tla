------------------------- MODULE AgentVersionsProofs -------------------------
(***************************************************************************)
(* What AgentVersions promises, for every set of versions, passes and      *)
(* events.  A pass acts on what it read before the agent was locked, so    *)
(* the invariant speaks of what passes hold: a version that was approved,  *)
(* a next time that is not before the slot, and, about an event, a         *)
(* trigger that stays one of an event.                                     *)
(***************************************************************************)
EXTENDS AgentVersions, TLAPS

CurrentApproved == current # 0 => current \in approved

\* A trigger belongs to a draft that was saved.
TriggersSaved ==
    \A t \in Versions : trigger[t].type # "none" \/ trigger[t].next # 0 => version[t] # "absent"

PassesHold ==
    \A p \in Passes : pass[p].pc # "idle" =>
        /\ pass[p].version \in approved /\ pass[p].next >= pass[p].slot
        /\ trigger[pass[p].trigger].type = "SCHEDULE"

MatchesHold ==
    \A m \in Matchers : match[m].pc # "idle" =>
        match[m].version \in approved /\ trigger[match[m].trigger].type = "EVENT"

VInv ==
    /\ TypeOK /\ EnabledAreCurrent /\ CurrentApproved /\ TriggersSaved
    /\ PassesHold /\ MatchesHold /\ OnlyApproved

-----------------------------------------------------------------------------
\* What advance returns is a time, and not before the one it started from.
LEMMA AdvanceMovesOn ==
    ASSUME NEW from \in Nat, NEW at \in Nat, from <= at
    PROVE  Advance(from, at) \in Nat /\ Advance(from, at) >= from
<1> DEFINE missed == ((at - from) \div INTERVAL) + 1
<1>1. INTERVAL \in Nat \ {0} BY VersionConstants
<1>2. missed \in Nat BY <1>1, SMT
<1> HIDE DEF missed
<1>3. INTERVAL * missed \in Nat BY <1>1, <1>2, SMT
<1>4. Advance(from, at) = from + INTERVAL * missed BY DEF Advance, missed
<1> QED BY <1>3, <1>4, SMT

\* The upsert adds at most the row it names.
LEMMA QueuedAdds ==
    ASSUME NEW t, NEW slot, NEW v
    PROVE  Queued(t, slot, v) \in {runs, runs \cup {[trigger |-> t, slot |-> slot, version |-> v]}}
BY DEF Queued

\* The version that a new draft takes is one that does not exist.
LEMMA NextIsAbsent == ASSUME NEW v \in Versions, NextVersion(v), TypeOK PROVE version[v] = "absent"
<1>1. v >= v BY VersionConstants, SMT
<1> QED BY <1>1 DEF NextVersion

LEMMA InitV == Init => VInv
BY VersionConstants DEF Init, VInv, TypeOK, EnabledAreCurrent, CurrentApproved, TriggersSaved, PassesHold,
   MatchesHold, OnlyApproved, Statuses, Trigger, Run, Seen, NoTrigger, Resting

-----------------------------------------------------------------------------
(* The builder and the people. *)

LEMMA DraftV ==
    ASSUME VInv, NEW v \in Versions, NEW type \in {"SCHEDULE", "EVENT"}, NEW next \in Nat, Draft(v, type, next)
    PROVE  VInv'
<1> DEFINE row == [type |-> type, version |-> v, enabled |-> FALSE, next |-> next]
<1>1. row \in Trigger /\ ~row.enabled BY DEF Trigger
<1>2. trigger' = [trigger EXCEPT ![v] = row] BY DEF Draft
<1>3. version[v] = "absent" BY NextIsAbsent DEF VInv, Draft
<1> HIDE DEF row
<1>4. TypeOK' BY <1>1, <1>2 DEF VInv, TypeOK, Draft
<1>5. EnabledAreCurrent' BY <1>1, <1>2, <1>3 DEF VInv, TypeOK, EnabledAreCurrent, Draft
<1>6. CurrentApproved' /\ OnlyApproved' BY DEF VInv, CurrentApproved, OnlyApproved, Draft
<1>7. TriggersSaved' BY <1>2 DEF VInv, TypeOK, TriggersSaved, Draft
<1>8. \A t \in Versions : trigger[t].type # "none" => trigger'[t] = trigger[t]
  BY <1>2, <1>3 DEF VInv, TypeOK, TriggersSaved
<1>9. PassesHold' /\ MatchesHold' BY <1>8 DEF VInv, TypeOK, PassesHold, MatchesHold, Draft
<1> QED BY <1>4, <1>5, <1>6, <1>7, <1>9 DEF VInv

\* A trigger that is moved keeps everything but its version.
LEMMA MovedTrigger ==
    ASSUME NEW t \in Trigger, NEW v \in Versions
    PROVE  LET u == [t EXCEPT !.version = v]
           IN u \in Trigger /\ u.type = t.type /\ u.enabled = t.enabled /\ u.next = t.next /\ u.version = v
BY DEF Trigger

LEMMA ReviseV == ASSUME VInv, NEW v \in Versions, Revise(v) PROVE VInv'
<1>1. version[v] = "absent" BY NextIsAbsent DEF VInv, Revise
<1>2. current \in Versions /\ current # v
  BY <1>1 DEF VInv, TypeOK, Revise, EnabledAreCurrent
<1>3. approved' = approved \cup {v} BY DEF VInv, CurrentApproved, Revise
<1>4. \A t \in Versions :
        /\ trigger'[t] \in Trigger /\ trigger'[t].type = trigger[t].type
        /\ trigger'[t].enabled = trigger[t].enabled /\ trigger'[t].next = trigger[t].next
        /\ trigger'[t].version = IF trigger[t].version = current THEN v ELSE trigger[t].version
  <2> TAKE t \in Versions
  <2>1. trigger[t] \in Trigger BY DEF VInv, TypeOK
  <2>2. trigger'[t] = IF trigger[t].version = current THEN [trigger[t] EXCEPT !.version = v] ELSE trigger[t]
    BY DEF Revise
  <2> QED BY <2>1, <2>2, MovedTrigger
<1>5. trigger' \in [Versions -> Trigger] BY <1>4 DEF Revise
<1>6. TypeOK' BY <1>2, <1>3, <1>5 DEF VInv, TypeOK, Revise
<1>7. EnabledAreCurrent'
  BY <1>2, <1>4, VersionConstants DEF VInv, TypeOK, EnabledAreCurrent, Revise
<1>8. CurrentApproved' /\ OnlyApproved' BY <1>3 DEF VInv, CurrentApproved, OnlyApproved, Revise
<1>9. TriggersSaved' BY <1>2, <1>4 DEF VInv, TypeOK, TriggersSaved, EnabledAreCurrent, Revise
<1>10. PassesHold' /\ MatchesHold' BY <1>3, <1>4 DEF VInv, TypeOK, PassesHold, MatchesHold, Revise
<1> QED BY <1>6, <1>7, <1>8, <1>9, <1>10 DEF VInv

LEMMA DeployV == ASSUME VInv, NEW v \in Versions, Deploy(v) PROVE VInv'
<1>1. version' \in [Versions -> {"absent", "READY", "DEPLOYED"}] /\ version'[v] = "DEPLOYED"
      /\ \A u \in Versions : version[u] # "absent" => version'[u] # "absent"
  BY DEF VInv, TypeOK, Deploy, Deployed
<1>2. \A t \in Versions :
        /\ trigger'[t] \in Trigger /\ trigger'[t].type = trigger[t].type
        /\ trigger'[t].enabled = (trigger[t].version = v) /\ trigger'[t].version = trigger[t].version
        /\ trigger'[t].next = trigger[t].next
  <2> TAKE t \in Versions
  <2>1. trigger[t] \in Trigger BY DEF VInv, TypeOK
  <2>2. trigger'[t] = [trigger[t] EXCEPT !.enabled = (trigger[t].version = v)] BY DEF Deploy
  <2> QED BY <2>1, <2>2 DEF Trigger
<1>3. trigger' \in [Versions -> Trigger] BY <1>2 DEF Deploy
<1>4. TypeOK' BY <1>1, <1>3 DEF VInv, TypeOK, Deploy, Statuses
<1>5. EnabledAreCurrent' BY <1>1, <1>2, VersionConstants DEF EnabledAreCurrent, Deploy
<1>6. CurrentApproved' /\ OnlyApproved' BY DEF VInv, CurrentApproved, OnlyApproved, Deploy
<1>7. TriggersSaved' BY <1>1, <1>2 DEF VInv, TriggersSaved
<1>8. PassesHold' /\ MatchesHold' BY <1>2 DEF VInv, TypeOK, PassesHold, MatchesHold, Deploy
<1> QED BY <1>4, <1>5, <1>6, <1>7, <1>8 DEF VInv

LEMMA ChangeStatusV == ASSUME VInv, NEW status \in Statuses, ChangeStatus(status) PROVE VInv'
BY DEF VInv, ChangeStatus, TypeOK, EnabledAreCurrent, CurrentApproved, TriggersSaved, PassesHold, MatchesHold,
       OnlyApproved

LEMMA RemoveV == ASSUME VInv, Remove PROVE VInv'
<1>1. \A t \in Versions :
        /\ trigger'[t] \in Trigger /\ trigger'[t].type = trigger[t].type
        /\ ~trigger'[t].enabled /\ trigger'[t].version = trigger[t].version
        /\ trigger'[t].next \in {0, trigger[t].next}
  <2> TAKE t \in Versions
  <2>1. trigger[t] \in Trigger BY DEF VInv, TypeOK
  <2>2. CASE trigger[t].enabled
    <3> DEFINE off == [trigger[t] EXCEPT !.enabled = FALSE]
    <3>1. trigger'[t] = [off EXCEPT !.next = 0] BY <2>2 DEF Remove
    <3>2. off \in Trigger /\ off.type = trigger[t].type /\ ~off.enabled /\ off.version = trigger[t].version
      BY <2>1 DEF Trigger
    <3> HIDE DEF off
    <3> QED BY <3>1, <3>2 DEF Trigger
  <2>3. CASE ~trigger[t].enabled
    <3>1. trigger'[t] = trigger[t] BY <2>3 DEF Remove
    <3> QED BY <3>1, <2>1, <2>3, Zenon
  <2> QED BY <2>2, <2>3
<1>2. trigger' \in [Versions -> Trigger] BY <1>1 DEF Remove
<1>3. TypeOK' BY <1>2 DEF VInv, TypeOK, Remove, Statuses
<1>4. EnabledAreCurrent' /\ TriggersSaved' BY <1>1 DEF VInv, EnabledAreCurrent, TriggersSaved, Remove
<1>5. CurrentApproved' /\ OnlyApproved' BY DEF VInv, CurrentApproved, OnlyApproved, Remove
<1>6. PassesHold' /\ MatchesHold' BY <1>1 DEF VInv, TypeOK, PassesHold, MatchesHold, Remove
<1> QED BY <1>3, <1>4, <1>5, <1>6 DEF VInv

-----------------------------------------------------------------------------
(* Schedules and events. *)

LEMMA SeeDueV == ASSUME VInv, NEW p \in Passes, NEW t \in Versions, SeeDue(p, t) PROVE VInv'
<1> DEFINE next == Advance(trigger[t].next, now)
           seen == [pc |-> "seen", trigger |-> t, slot |-> trigger[t].next,
                    version |-> trigger[t].version, next |-> next]
<1>1. /\ trigger[t].next \in Nat /\ trigger[t].next <= now /\ now \in Nat
      /\ trigger[t].version \in approved \cap Versions
  <2>1. trigger[t] \in Trigger /\ trigger[t].enabled /\ trigger[t].next <= now /\ now \in Nat
    BY DEF VInv, TypeOK, SeeDue, Due
  <2>2. trigger[t].version = current /\ current # 0 BY <2>1 DEF VInv, EnabledAreCurrent
  <2>3. trigger[t].version \in approved /\ approved \subseteq Versions BY <2>2 DEF VInv, TypeOK, CurrentApproved
  <2> QED BY <2>1, <2>3 DEF Trigger
<1>2. next \in Nat /\ next >= trigger[t].next BY <1>1, AdvanceMovesOn
<1>3. pass' = [pass EXCEPT ![p] = seen] BY DEF SeeDue
<1> HIDE DEF next
<1>4. seen \in Seen /\ seen.trigger = t /\ seen.version \in approved \cap Versions /\ seen.next >= seen.slot
  BY <1>1, <1>2 DEF Seen
<1> HIDE DEF seen
<1>5. TypeOK' BY <1>3, <1>4 DEF VInv, TypeOK, SeeDue, defs
<1>6. PassesHold' BY <1>3, <1>4 DEF VInv, TypeOK, PassesHold, SeeDue, Due, defs
<1>7. (EnabledAreCurrent /\ CurrentApproved /\ TriggersSaved /\ MatchesHold /\ OnlyApproved)'
  BY DEF VInv, EnabledAreCurrent, CurrentApproved, TriggersSaved, MatchesHold, OnlyApproved, SeeDue, defs
<1> QED BY <1>5, <1>6, <1>7 DEF VInv

\* A queued run of an approved version keeps the rows typed and approved.
LEMMA QueuedV ==
    ASSUME TypeOK, OnlyApproved, NEW t \in Versions, NEW slot \in Nat, NEW v \in approved
    PROVE  LET q == Queued(t, slot, v)
           IN q \subseteq Run /\ \A r \in q : r.version \in approved
<1> DEFINE row == [trigger |-> t, slot |-> slot, version |-> v]
<1>1. row \in Run /\ row.version = v BY DEF TypeOK, Run
<1>2. Queued(t, slot, v) \in {runs, runs \cup {row}} BY QueuedAdds
<1> HIDE DEF row
<1> QED BY <1>1, <1>2 DEF TypeOK, OnlyApproved

LEMMA QueueDueV == ASSUME VInv, NEW p \in Passes, QueueDue(p) PROVE VInv'
<1> DEFINE t == pass[p].trigger
<1>1. /\ pass[p] \in Seen /\ t \in Versions /\ pass[p].version \in approved
      /\ pass[p].slot \in Nat /\ pass[p].next \in Nat
  BY DEF VInv, TypeOK, PassesHold, QueueDue, Seen
<1>2. pass' = [pass EXCEPT ![p] = Resting] /\ Resting \in Seen /\ Resting.pc = "idle"
  BY DEF QueueDue, Resting, Seen
<1>3. trigger[t].type = "SCHEDULE" /\ version[t] # "absent"
  BY <1>1 DEF VInv, PassesHold, TriggersSaved, QueueDue
<1>4. pass' \in [Passes -> Seen]
      /\ \A q \in Passes : pass'[q].pc # "idle" => pass'[q].trigger \in Versions /\ pass'[q].version \in Versions
  BY <1>2 DEF VInv, TypeOK
<1>5. CASE agent = "LIVE" /\ Unmoved(p)
  <2>1. /\ trigger' = [trigger EXCEPT ![t].next = pass[p].next]
        /\ runs' = Queued(t, pass[p].slot, pass[p].version)
    BY <1>5 DEF QueueDue
  <2>2. \A u \in Versions :
          /\ trigger'[u] \in Trigger /\ trigger'[u].type = trigger[u].type
          /\ trigger'[u].enabled = trigger[u].enabled /\ trigger'[u].version = trigger[u].version
          /\ u # t => trigger'[u].next = trigger[u].next
    <3> TAKE u \in Versions
    <3>1. trigger[u] \in Trigger BY DEF VInv, TypeOK
    <3>2. trigger'[u] = IF u = t THEN [trigger[u] EXCEPT !.next = pass[p].next] ELSE trigger[u]
      BY <1>1, <2>1 DEF VInv, TypeOK
    <3> QED BY <1>1, <3>1, <3>2 DEF Trigger
  <2>3. trigger' \in [Versions -> Trigger] BY <2>1, <2>2 DEF VInv, TypeOK
  <2>4. runs' \subseteq Run /\ \A r \in runs' : r.version \in approved
    BY <1>1, <2>1, QueuedV DEF VInv
  <2>5. TypeOK' BY <1>4, <2>3, <2>4 DEF VInv, TypeOK, QueueDue, defs
  <2>6. (EnabledAreCurrent /\ CurrentApproved /\ TriggersSaved)'
    BY <1>3, <2>2 DEF VInv, EnabledAreCurrent, CurrentApproved, TriggersSaved, QueueDue, defs
  <2>7. (PassesHold /\ MatchesHold /\ OnlyApproved)'
    BY <1>2, <2>2, <2>4 DEF VInv, TypeOK, PassesHold, MatchesHold, OnlyApproved, QueueDue, defs
  <2> QED BY <2>5, <2>6, <2>7 DEF VInv
<1>6. CASE ~(agent = "LIVE" /\ Unmoved(p))
  <2>1. UNCHANGED <<defs, trigger, runs, match, now>> BY <1>6 DEF QueueDue
  <2>2. PassesHold' BY <1>2, <2>1 DEF VInv, TypeOK, PassesHold, defs
  <2> QED BY <1>4, <2>1, <2>2 DEF VInv, TypeOK, EnabledAreCurrent, CurrentApproved, TriggersSaved, MatchesHold,
                                  OnlyApproved, defs
<1> QED BY <1>5, <1>6

LEMMA SeeEventV ==
    ASSUME VInv, NEW m \in Matchers, NEW e \in Events, NEW t \in Versions, SeeEvent(m, e, t)
    PROVE  VInv'
<1> DEFINE seen == [pc |-> "seen", trigger |-> t, slot |-> e, version |-> trigger[t].version, next |-> 0]
<1>1. trigger[t].version \in approved \cap Versions /\ trigger[t].type = "EVENT"
  BY DEF VInv, TypeOK, EnabledAreCurrent, CurrentApproved, SeeEvent, Matches
<1>2. match' = [match EXCEPT ![m] = seen] BY DEF SeeEvent
<1>3. seen \in Seen /\ seen.trigger = t /\ seen.version \in approved \cap Versions
  BY <1>1, VersionConstants DEF Seen
<1> HIDE DEF seen
<1>4. TypeOK' BY <1>2, <1>3 DEF VInv, TypeOK, SeeEvent, defs
<1>5. MatchesHold' BY <1>1, <1>2, <1>3 DEF VInv, TypeOK, MatchesHold, SeeEvent, defs
<1>6. (EnabledAreCurrent /\ CurrentApproved /\ TriggersSaved /\ PassesHold /\ OnlyApproved)'
  BY DEF VInv, EnabledAreCurrent, CurrentApproved, TriggersSaved, PassesHold, OnlyApproved, SeeEvent, defs
<1> QED BY <1>4, <1>5, <1>6 DEF VInv

LEMMA CheckEventV == ASSUME VInv, NEW m \in Matchers, CheckEvent(m) PROVE VInv'
<1> DEFINE eligible == [match[m] EXCEPT !.pc = "eligible"]
<1>1. match[m] \in Seen /\ match[m].pc # "idle" BY DEF VInv, TypeOK, CheckEvent
<1>2. /\ eligible \in Seen /\ eligible.trigger = match[m].trigger /\ eligible.version = match[m].version
      /\ Resting \in Seen /\ Resting.pc = "idle"
  BY <1>1 DEF Seen, Resting
<1>3. match' = [match EXCEPT ![m] = eligible] \/ match' = [match EXCEPT ![m] = Resting]
  BY DEF CheckEvent
<1> HIDE DEF eligible
<1>4. TypeOK' BY <1>1, <1>2, <1>3 DEF VInv, TypeOK, CheckEvent, defs
<1>5. MatchesHold' BY <1>1, <1>2, <1>3 DEF VInv, TypeOK, MatchesHold, CheckEvent, defs
<1>6. (EnabledAreCurrent /\ CurrentApproved /\ TriggersSaved /\ PassesHold /\ OnlyApproved)'
  BY DEF VInv, EnabledAreCurrent, CurrentApproved, TriggersSaved, PassesHold, OnlyApproved, CheckEvent, defs
<1> QED BY <1>4, <1>5, <1>6 DEF VInv

LEMMA QueueEventV == ASSUME VInv, NEW m \in Matchers, QueueEvent(m) PROVE VInv'
<1>1. match[m] \in Seen /\ match[m].trigger \in Versions /\ match[m].version \in approved /\ match[m].slot \in Nat
  BY DEF VInv, TypeOK, MatchesHold, QueueEvent, Seen
<1>2. match' = [match EXCEPT ![m] = Resting] /\ Resting \in Seen /\ Resting.pc = "idle"
  BY DEF QueueEvent, Resting, Seen
<1>3. runs' = Queued(match[m].trigger, match[m].slot, match[m].version) BY DEF QueueEvent
<1>4. runs' \subseteq Run /\ \A r \in runs' : r.version \in approved BY <1>1, <1>3, QueuedV DEF VInv
<1>5. TypeOK' BY <1>2, <1>4 DEF VInv, TypeOK, QueueEvent, defs
<1>6. MatchesHold' BY <1>2 DEF VInv, TypeOK, MatchesHold, QueueEvent, defs
<1>7. (EnabledAreCurrent /\ CurrentApproved /\ TriggersSaved /\ PassesHold /\ OnlyApproved)'
  BY <1>4 DEF VInv, EnabledAreCurrent, CurrentApproved, TriggersSaved, PassesHold, OnlyApproved, QueueEvent, defs
<1> QED BY <1>5, <1>6, <1>7 DEF VInv

LEMMA AgentStopsV == ASSUME VInv, AgentStops PROVE VInv'
<1>1. Resting \in Seen /\ Resting.pc = "idle" BY DEF Resting, Seen
<1> QED BY <1>1 DEF VInv, AgentStops, TypeOK, EnabledAreCurrent, CurrentApproved, TriggersSaved, PassesHold,
                    MatchesHold, OnlyApproved, defs

LEMMA StillV == ASSUME VInv, Tick \/ UNCHANGED vars PROVE VInv'
BY DEF VInv, Tick, vars, TypeOK, EnabledAreCurrent, CurrentApproved, TriggersSaved, PassesHold, MatchesHold,
       OnlyApproved, defs

LEMMA NextV == VInv /\ [Next]_vars => VInv'
<1> SUFFICES ASSUME VInv, [Next]_vars PROVE VInv' OBVIOUS
<1>1. ASSUME NEW v \in Versions, People(v) PROVE VInv'
  <2>1. 0 .. MaxTime \subseteq Nat BY VersionConstants, SMT
  <2> QED BY <1>1, <2>1, DraftV, ReviseV, DeployV DEF People
<1>2. ASSUME NEW p \in Passes, Scheduling(p) PROVE VInv' BY <1>2, SeeDueV, QueueDueV DEF Scheduling
<1>3. ASSUME NEW m \in Matchers, Matching(m) PROVE VInv'
  BY <1>3, SeeEventV, CheckEventV, QueueEventV DEF Matching
<1> QED BY <1>1, <1>2, <1>3, ChangeStatusV, RemoveV, AgentStopsV, StillV DEF Next

LEMMA VersionsInv == Spec => []VInv
<1>1. Init => VInv BY InitV
<1>2. VInv /\ [Next]_vars => VInv' BY NextV
<1> QED BY <1>1, <1>2, PTL DEF Spec

-----------------------------------------------------------------------------
(* The theorems. *)

\* Agents, versions, triggers and what passes hold have their types.
THEOREM VersionsTyped == Spec => []TypeOK
BY VersionsInv, PTL DEF VInv

\* Only triggers of the current version are enabled, and the current version is
\* the deployed one.
THEOREM TriggersAreCurrent == Spec => []EnabledAreCurrent
BY VersionsInv, PTL DEF VInv

\* No schedule and no event ever queues a version that nobody approved.
THEOREM RunsAreApproved == Spec => []OnlyApproved
BY VersionsInv, PTL DEF VInv

\* Passes that overlap move a schedule forward only.
THEOREM SchedulesForward == Spec => SchedulesMoveOn
<1> DEFINE Forward == \A t \in Versions : trigger[t].next # 0 /\ trigger'[t].next # 0 =>
                                           trigger'[t].next >= trigger[t].next
           Kept == \A t \in Versions : trigger'[t].next = trigger[t].next
<1>1. VInv /\ [Next]_vars => [Forward]_vars
  <2> SUFFICES ASSUME VInv, Next PROVE Forward BY DEF vars
  <2>0. \A t \in Versions : trigger[t].next \in Nat /\ trigger[t] \in Trigger BY DEF VInv, TypeOK, Trigger
  <2>1. Kept => Forward BY <2>0, SMT
  <2>2. ASSUME NEW v \in Versions, People(v) PROVE Forward
    <3>1. ASSUME NEW type, NEW next, Draft(v, type, next) PROVE Forward
      <4>1. trigger[v].next = 0 BY <3>1, NextIsAbsent DEF VInv, TriggersSaved, Draft
      <4> QED BY <2>0, <3>1, <4>1 DEF VInv, TypeOK, Draft
    <3>2. CASE Revise(v)
      <4>1. ASSUME NEW t \in Versions PROVE trigger'[t].next = trigger[t].next
        <5>1. trigger'[t] = IF trigger[t].version = current THEN [trigger[t] EXCEPT !.version = v] ELSE trigger[t]
          BY <3>2 DEF Revise
        <5> QED BY <2>0, <5>1, MovedTrigger
      <4> QED BY <2>1, <4>1
    <3>3. CASE Deploy(v)
      <4>1. ASSUME NEW t \in Versions PROVE trigger'[t].next = trigger[t].next
        <5>1. trigger'[t] = [trigger[t] EXCEPT !.enabled = (trigger[t].version = v)] BY <3>3 DEF Deploy
        <5> QED BY <2>0, <5>1 DEF Trigger
      <4> QED BY <2>1, <4>1
    <3> QED BY <2>2, <3>1, <3>2, <3>3 DEF People
  <2>3. CASE Remove
    <3>1. ASSUME NEW t \in Versions PROVE trigger'[t].next \in {0, trigger[t].next}
      <4> DEFINE off == [trigger[t] EXCEPT !.enabled = FALSE]
      <4>1. trigger'[t] = IF trigger[t].enabled THEN [off EXCEPT !.next = 0] ELSE trigger[t]
        BY <2>3 DEF Remove
      <4>2. off \in Trigger BY <2>0 DEF Trigger
      <4> HIDE DEF off
      <4> QED BY <4>1, <4>2 DEF Trigger
    <3> QED BY <2>0, <3>1, SMT
  <2>4. ASSUME NEW p \in Passes, Scheduling(p) PROVE Forward
    <3>1. ASSUME NEW t \in Versions, SeeDue(p, t) PROVE Forward BY <2>1, <3>1 DEF SeeDue
    <3>2. CASE QueueDue(p)
      <4>1. CASE agent = "LIVE" /\ Unmoved(p)
        <5>1. /\ pass[p].trigger \in Versions /\ pass[p].next >= pass[p].slot
              /\ trigger[pass[p].trigger].next = pass[p].slot
          BY <3>2, <4>1 DEF VInv, TypeOK, PassesHold, QueueDue, Unmoved
        <5>2. trigger' = [trigger EXCEPT ![pass[p].trigger].next = pass[p].next] BY <3>2, <4>1 DEF QueueDue
        <5>3. ASSUME NEW t \in Versions PROVE trigger'[t].next >= trigger[t].next
          <6>1. trigger'[t] = IF t = pass[p].trigger THEN [trigger[t] EXCEPT !.next = pass[p].next]
                                                     ELSE trigger[t]
            BY <5>1, <5>2 DEF VInv, TypeOK
          <6> QED BY <2>0, <5>1, <6>1 DEF Trigger
        <5> QED BY <5>3
      <4>2. CASE ~(agent = "LIVE" /\ Unmoved(p)) BY <2>1, <3>2, <4>2 DEF QueueDue
      <4> QED BY <4>1, <4>2
    <3> QED BY <2>4, <3>1, <3>2 DEF Scheduling
  <2>5. ASSUME NEW m \in Matchers, Matching(m) PROVE Forward
    BY <2>1, <2>5 DEF Matching, SeeEvent, CheckEvent, QueueEvent
  <2>6. CASE (\E status \in Statuses : ChangeStatus(status)) \/ Tick \/ AgentStops
    BY <2>1, <2>6 DEF ChangeStatus, Tick, AgentStops
  <2> QED BY <2>2, <2>3, <2>4, <2>5, <2>6 DEF Next
<1> QED BY <1>1, VersionsInv, PTL DEF Spec, SchedulesMoveOn

\* What queues a run of a schedule finds the agent live and the trigger enabled.
THEOREM SchedulesStop == Spec => StoppedSchedulesRest
<1> DEFINE Stopped == \A r \in runs' \ runs : trigger[r.trigger].type = "SCHEDULE" =>
                                             agent = "LIVE" /\ trigger[r.trigger].enabled
<1>1. VInv /\ [Next]_vars => [Stopped]_vars
  <2> SUFFICES ASSUME VInv, Next PROVE Stopped BY DEF vars
  <2>1. ASSUME NEW p \in Passes, QueueDue(p) PROVE Stopped
    <3>1. ASSUME NEW r \in runs' \ runs
          PROVE  agent = "LIVE" /\ trigger[r.trigger].enabled
      <4>1. agent = "LIVE" /\ Unmoved(p) /\ runs' = Queued(pass[p].trigger, pass[p].slot, pass[p].version)
        BY <2>1, <3>1 DEF QueueDue
      <4>2. r.trigger = pass[p].trigger BY <3>1, <4>1, QueuedAdds
      <4> QED BY <4>1, <4>2 DEF Unmoved
    <3> QED BY <3>1
  <2>2. ASSUME NEW m \in Matchers, QueueEvent(m) PROVE Stopped
    <3>1. ASSUME NEW r \in runs' \ runs PROVE trigger[r.trigger].type = "EVENT"
      <4>1. runs' = Queued(match[m].trigger, match[m].slot, match[m].version) BY <2>2 DEF QueueEvent
      <4>2. r.trigger = match[m].trigger BY <3>1, <4>1, QueuedAdds
      <4> QED BY <2>2, <4>2 DEF VInv, MatchesHold, QueueEvent
    <3> QED BY <3>1
  <2>3. runs' = runs \/ (\E p \in Passes : QueueDue(p)) \/ (\E m \in Matchers : QueueEvent(m))
    BY DEF Next, People, Scheduling, Matching, Draft, Revise, Deploy, ChangeStatus, Remove, SeeDue, SeeEvent,
           CheckEvent, Tick, AgentStops
  <2> QED BY <2>1, <2>2, <2>3
<1> QED BY <1>1, VersionsInv, PTL DEF Spec, StoppedSchedulesRest
=============================================================================
