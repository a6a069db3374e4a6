----------------------------- MODULE BuilderChats -----------------------------
(***************************************************************************)
(* A private chat with the agent builder: what a user sends is queued as   *)
(* submissions, drained one at a time and in order into the one session of *)
(* eve that the chat has, and a question of the builder is shown until it  *)
(* is answered.  The sources are the builder part of                       *)
(* apps/agent/agent/lib/custom-agent-dispatch.ts, lib/builder-input.ts,    *)
(* hooks/audit.ts and channels/crm.ts, and, in the API,                    *)
(* conversations/conversations.service.ts.                                 *)
(*                                                                         *)
(* Two drains may overlap, and so may the send of one and the recovery by  *)
(* the next.  eve takes messages into a mailbox and works on one at a      *)
(* time; its events are handled in order, except input.requested, which    *)
(* comes from a child session and may be late or repeated.  The session of *)
(* a chat waits after a turn, so session.completed does not occur.         *)
(***************************************************************************)
EXTENDS Naturals, Sequences

CONSTANTS Subs,        \* submissions, numbered in the order of createdAt
          Drains,      \* places for passages of dispatchBuilderSubmission that overlap
          MaxAttempts, \* DISPATCH.builder.maxAttempts
          MaxAsks,     \* bound: questions the builder asks
          MaxCrashes   \* bound: how often the agent stops

ASSUME ChatConstants ==
    /\ Subs \subseteq Nat \ {0} /\ Drains \subseteq Nat
    /\ MaxAttempts \in Nat \ {0} /\ MaxAsks \in Nat /\ MaxCrashes \in Nat

VARIABLES sub,        \* sub[s]: the row of agentConversationSubmission
          kept,       \* the conversation is not removed
          session,    \* agentConversation.sessionId is set
          open,       \* agentConversation.continuationToken is set
          question,   \* pendingInputRequest: the question shown, or 0
          recorded,   \* the questions that have an agentEvent row
          drain,      \* drain[d]: a passage of dispatchBuilderSubmission
          mail,       \* what eve has taken and not begun
          turn,       \* what eve's session does; new before it started
          asked,      \* questions eve has asked so far, numbered by sequence
          copies,     \* copies[s]: how often eve took s: 0, 1, or 2 for more
          doubt,      \* messages whose delivery threw or outlived its lease
          given_up,   \* messages that were FAILED at some time
          crashes

chat == <<kept, session, open, question, recorded>>
eve  == <<mail, turn, asked, copies>>
past == <<doubt, given_up, crashes>>
chatVars == <<sub, kept, session, open, question, recorded, drain, mail, turn, asked, copies,
              doubt, given_up, crashes>>

Submission == [status : {"absent", "PENDING", "SENDING", "ACCEPTED", "FAILED"},
               attempts : Nat, answers : 0 .. MaxAsks]
Drain      == [pc : {"idle", "sending", "taken"}, sub : Subs \cup {0}, attempts : Nat]

NoSubmission == [status |-> "absent", attempts |-> 0, answers |-> 0]
NoDrain      == [pc |-> "idle", sub |-> 0, attempts |-> 0]

ChatTypeOK ==
    /\ sub \in [Subs -> Submission] /\ drain \in [Drains -> Drain] /\ turn \in {"new", "started", "running", "idle"}
    /\ kept \in BOOLEAN /\ session \in BOOLEAN /\ open \in BOOLEAN
    /\ question \in 0 .. asked /\ recorded \subseteq 1 .. asked /\ asked \in 0 .. MaxAsks
    /\ mail \in Seq(Subs)
    /\ copies \in [Subs -> 0 .. 2] /\ doubt \subseteq Subs /\ given_up \subseteq Subs
    /\ crashes \in 0 .. MaxCrashes
    /\ \A s \in Subs : sub[s].status \in {"SENDING", "ACCEPTED", "FAILED"} => sub[s].attempts > 0
    /\ \A d \in Drains : drain[d].pc # "idle" => drain[d].sub \in Subs /\ drain[d].attempts > 0

ChatInit ==
    /\ sub = [s \in Subs |-> NoSubmission]
    /\ kept = TRUE /\ session = FALSE /\ open = FALSE /\ question = 0 /\ recorded = {}
    /\ drain = [d \in Drains |-> NoDrain]
    /\ mail = <<>> /\ turn = "new"
    /\ asked = 0 /\ copies = [s \in Subs |-> 0]
    /\ doubt = {} /\ given_up = {} /\ crashes = 0

-----------------------------------------------------------------------------
(* The user. *)

Is(s, status) == sub[s].status = status
SetStatus(s, status) == sub' = [sub EXCEPT ![s].status = status]

\* A chat sends one message at a time.
NextSub(s) == kept /\ \A p \in Subs : Is(p, "absent") <=> p >= s

\* createBuilder and submitBuilder.
Submit(s) ==
    /\ NextSub(s) /\ SetStatus(s, "PENDING")
    /\ UNCHANGED <<chat, drain, eve, past>>

\* answerBuilderQuestion: one submission for one inputRequestId.  The chat is
\* read before, and not locked: the question may be gone when the row comes.
AnswerQuestion(s, q) ==
    /\ NextSub(s) /\ session /\ q \in recorded
    /\ \A p \in Subs : sub[p].answers # q
    /\ sub' = [sub EXCEPT ![s].status = "PENDING", ![s].answers = q]
    /\ UNCHANGED <<chat, drain, eve, past>>

\* remove: the submissions and events go with the chat.
RemoveChat ==
    /\ kept /\ kept' = FALSE
    /\ sub' = [s \in Subs |-> NoSubmission]
    /\ session' = FALSE /\ open' = FALSE /\ question' = 0 /\ recorded' = {}
    /\ UNCHANGED <<drain, eve, past>>

-----------------------------------------------------------------------------
(* A drain. *)

\* Mutant: any pending submission will do.
FirstInLine_mutant(s) == Is(s, "PENDING")

\* Mutant: what is being sent may be sent again.
FirstInLine_mutant2(s) ==
    /\ sub[s].status \in {"PENDING", "SENDING"}
    /\ \A p \in Subs : p < s => sub[p].status \notin {"PENDING", "SENDING"}

\* The oldest pending submission, while none is being sent.
FirstInLine(s) ==
    /\ Is(s, "PENDING")
    /\ \A p \in Subs : ~Is(p, "SENDING") /\ (p < s => ~Is(p, "PENDING"))

\* A passage takes the first free place.
Free(d) == drain[d].pc = "idle" /\ \A e \in Drains : e < d => drain[e].pc # "idle"

ClaimSubmission(d, s) ==
    /\ Free(d) /\ FirstInLine(s) /\ (session => open)
    /\ sub' = [sub EXCEPT ![s].status = "SENDING", ![s].attempts = @ + 1]
    /\ open' = FALSE
    /\ drain' = [drain EXCEPT ![d] = [pc |-> "sending", sub |-> s, attempts |-> sub[s].attempts + 1]]
    /\ UNCHANGED <<kept, session, question, recorded, eve, past>>

\* send: eve takes the message.
EveTakes(d) ==
    /\ drain[d].pc = "sending" /\ drain' = [drain EXCEPT ![d].pc = "taken"]
    /\ mail' = Append(mail, drain[d].sub)
    /\ copies' = [copies EXCEPT ![drain[d].sub] = IF @ = 0 THEN 1 ELSE 2]
    /\ UNCHANGED <<sub, chat, turn, asked, past>>

\* send returns: the submission is ACCEPTED, whatever it was by now.
SendReturns(d) ==
    /\ drain[d].pc = "taken" /\ drain' = [drain EXCEPT ![d] = NoDrain]
    /\ IF kept THEN SetStatus(drain[d].sub, "ACCEPTED") /\ session' = TRUE /\ question' = 0
               ELSE UNCHANGED <<sub, session, question>>
    /\ UNCHANGED <<kept, open, recorded, eve, past>>

\* Mutant: the conversation stays closed.
SendThrows_mutant(d) ==
    /\ drain[d].pc \in {"sending", "taken"} /\ drain' = [drain EXCEPT ![d] = NoDrain]
    /\ LET s == drain[d].sub
           retry == drain[d].attempts < MaxAttempts
       IN  IF kept THEN /\ SetStatus(s, IF retry THEN "PENDING" ELSE "FAILED")
                        /\ doubt' = doubt \cup {s}
                        /\ given_up' = IF retry THEN given_up ELSE given_up \cup {s}
                   ELSE UNCHANGED <<sub, doubt, given_up>>
    /\ UNCHANGED <<chat, eve, crashes>>

\* send throws, though eve may have taken the message: the submission is
\* PENDING or FAILED, whatever it was by now, by the count this passage took
\* with it.
SendThrows(d) ==
    /\ drain[d].pc \in {"sending", "taken"} /\ drain' = [drain EXCEPT ![d] = NoDrain]
    /\ LET s == drain[d].sub
           retry == drain[d].attempts < MaxAttempts
       IN  IF kept THEN /\ SetStatus(s, IF retry THEN "PENDING" ELSE "FAILED")
                        /\ open' = TRUE /\ doubt' = doubt \cup {s}
                        /\ given_up' = IF retry THEN given_up ELSE given_up \cup {s}
                   ELSE UNCHANGED <<sub, open, doubt, given_up>>
    /\ UNCHANGED <<kept, session, question, recorded, eve, crashes>>

GiveBack(s) ==
    LET retry == sub[s].attempts < MaxAttempts
    IN  /\ SetStatus(s, IF retry THEN "PENDING" ELSE "FAILED")
        /\ given_up' = IF retry THEN given_up ELSE given_up \cup {s}

\* recoverBuilderSubmissions, before a drain lists what is pending: sentAt is
\* older than DISPATCH.builder.leaseMs, whether the send still runs or not.
Recover(s) ==
    /\ Is(s, "SENDING") /\ GiveBack(s) /\ doubt' = doubt \cup {s}
    /\ open' = TRUE
    /\ UNCHANGED <<kept, session, question, recorded, drain, eve, crashes>>

\* What eve holds survives.
AgentStops ==
    /\ crashes < MaxCrashes /\ crashes' = crashes + 1
    /\ drain' = [d \in Drains |-> NoDrain]
    /\ UNCHANGED <<sub, chat, eve, doubt, given_up>>

-----------------------------------------------------------------------------
(* eve, and the handlers of its events. *)

\* session.started in hooks/audit.ts.
SessionStarted ==
    /\ turn = "new" /\ mail # <<>> /\ turn' = "started"
    /\ session' = kept /\ open' = FALSE
    /\ UNCHANGED <<sub, kept, question, recorded, drain, mail, asked, copies, past>>

\* message.received in hooks/audit.ts: the next message of the mailbox.
MessageReceived ==
    /\ turn \in {"started", "idle"} /\ mail # <<>>
    /\ turn' = "running" /\ mail' = Tail(mail) /\ question' = 0
    /\ IF kept THEN SetStatus(Head(mail), "ACCEPTED") ELSE UNCHANGED sub
    /\ UNCHANGED <<kept, session, open, recorded, drain, asked, copies, past>>

\* The builder asks, and its session waits.
Ask ==
    /\ turn = "running" /\ asked < MaxAsks
    /\ asked' = asked + 1 /\ turn' = "idle"
    /\ UNCHANGED <<sub, chat, drain, mail, copies, past>>

\* Mutant: a repeated event shows its question again.
ShowQuestion_mutant(q) ==
    /\ kept /\ session /\ q \in 1 .. asked /\ \A r \in recorded : q >= r
    /\ recorded' = recorded \cup {q} /\ question' = q /\ open' = TRUE
    /\ UNCHANGED <<sub, kept, session, drain, eve, past>>

\* persistBuilderInputRequest: neither a repeated event nor an older question
\* is recorded.
ShowQuestion(q) ==
    /\ kept /\ session /\ q \in 1 .. asked /\ \A r \in recorded : q > r
    /\ recorded' = recorded \cup {q} /\ question' = q /\ open' = TRUE
    /\ UNCHANGED <<sub, kept, session, drain, eve, past>>

\* session.waiting.
SessionWaits ==
    /\ turn = "running" /\ turn' = "idle" /\ open' = kept
    /\ UNCHANGED <<sub, kept, session, question, recorded, drain, mail, asked, copies, past>>

\* turn.failed, turn.cancelled, and session.failed, after which the next message
\* starts another session.
TurnEnds ==
    /\ turn = "running" /\ turn' \in {"idle", "new"} /\ open' = kept /\ question' = 0
    /\ UNCHANGED <<sub, kept, session, recorded, drain, mail, asked, copies, past>>

-----------------------------------------------------------------------------
Delivery(d) == EveTakes(d) \/ SendReturns(d) \/ SendThrows(d)
Draining(s) == (\E d \in Drains : ClaimSubmission(d, s)) \/ Recover(s)
EveStep     == SessionStarted \/ MessageReceived \/ Ask \/ SessionWaits \/ TurnEnds
Asking(q)   == ShowQuestion(q)

ChatNext ==
    \/ \E s \in Subs : Submit(s) \/ Draining(s) \/ \E q \in 1 .. MaxAsks : AnswerQuestion(s, q)
    \/ RemoveChat \/ AgentStops \/ EveStep
    \/ \E d \in Drains : Delivery(d)
    \/ \E q \in 1 .. MaxAsks : Asking(q)

ChatSpec == ChatInit /\ [][ChatNext]_chatVars

\* A drain runs every minute and recovers what is stale; a send returns or
\* throws; eve is durable and its turns end or ask; its events are delivered.
ChatFairSpec ==
    /\ ChatSpec
    /\ \A s \in Subs : WF_chatVars(Draining(s))
    /\ \A d \in Drains : WF_chatVars(Delivery(d))
    /\ WF_chatVars(EveStep)
    /\ \A q \in 1 .. MaxAsks : WF_chatVars(Asking(q))

-----------------------------------------------------------------------------
(* Properties. *)

\* Messages reach the builder in the order they were sent: one is overtaken
\* only after it was given up, though drains overlap and sends outlive leases.
InOrder ==
    \A s, t \in Subs : s < t /\ copies[t] > 0 => copies[s] > 0 \/ s \in given_up

\* A message reaches the builder twice only where a send threw or a lease ran
\* out; overlapping drains alone do not repeat it.
RepeatsHaveCause == \A s \in Subs : copies[s] > 1 => s \in doubt

\* Once the builder has taken up the answer to a question, the question is not
\* put to the user again, though its event may be repeated.
AnsweredIsGone ==
    [][\A s \in Subs : sub[s].answers # 0 /\ copies[s] > 0 /\ question # sub[s].answers =>
          question' # sub[s].answers]_chatVars

\* While the agent does not stop and the chat is not removed, everything the
\* user sent is, again and again, either accepted or given up.
MessageSettles ==
    []<>(kept /\ crashes = 0 => \A s \in Subs : sub[s].status \notin {"PENDING", "SENDING"})
=============================================================================
