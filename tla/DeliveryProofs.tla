--------------------------- MODULE DeliveryProofs ---------------------------
(***************************************************************************)
(* What is delivered: the messages of a user to the builder (BuilderChats) *)
(* and the mail of a mailbox to the CRM (MailboxSync).  The two components *)
(* share no state and no name, and either half stands without the other.   *)
(***************************************************************************)
EXTENDS BuilderChats, MailboxSync, FiniteSetTheorems, WellFoundedInduction, TLAPS

-----------------------------------------------------------------------------
(* The chats. *)

Busy(d) == drain[d].pc # "idle"
InMail(s) == \E i \in 1 .. Len(mail) : mail[i] = s
Reached(s) == copies[s] > 0 \/ s \in given_up

\* Nothing is left of the submissions of a removed chat, and those of a chat
\* were made in order.
RowsInLine ==
    /\ \A s \in Subs : Is(s, "absent") => sub[s] = NoSubmission
    /\ ~kept => \A s \in Subs : Is(s, "absent")
    /\ \A s, t \in Subs : s < t /\ ~Is(t, "absent") => ~Is(s, "absent")

\* What eve or a passage holds was claimed, and what eve holds was taken.
TakenWasClaimed ==
    /\ \A s \in Subs : InMail(s) => copies[s] > 0 /\ (kept => sub[s].attempts > 0)
    /\ \A d \in Drains : Busy(d) =>
          /\ kept => sub[drain[d].sub].attempts > 0
          /\ drain[d].pc = "taken" => copies[drain[d].sub] > 0

\* A submission that is over reached eve or was given up, and so did all that
\* stand before one in the hands of a passage.
LineReached ==
    /\ \A s \in Subs : Is(s, "ACCEPTED") \/ Is(s, "FAILED") => Reached(s)
    /\ \A d \in Drains : Busy(d) => \A s \in Subs : s < drain[d].sub => Reached(s)

\* Without a failure a message is claimed once, by one passage.
ClaimedOnce ==
    \A s \in Subs : s \notin doubt =>
       /\ (Is(s, "absent") /\ kept) \/ Is(s, "PENDING") =>
             copies[s] = 0 /\ \A d \in Drains : ~(Busy(d) /\ drain[d].sub = s)
       /\ \A d, e \in Drains : Busy(d) /\ Busy(e) /\ drain[d].sub = s /\ drain[e].sub = s => d = e
       /\ \A d \in Drains : drain[d].pc = "sending" /\ drain[d].sub = s => copies[s] = 0

\* An answer is to a question that was recorded.
AnswersRecorded == \A s \in Subs : sub[s].answers # 0 => sub[s].answers \in recorded

ChatInv ==
    /\ ChatTypeOK /\ RowsInLine /\ TakenWasClaimed /\ LineReached /\ ClaimedOnce
    /\ AnswersRecorded /\ InOrder /\ RepeatsHaveCause

-----------------------------------------------------------------------------
RowsTyped ==
    /\ sub \in [Subs -> Submission]
    /\ \A s \in Subs : sub[s].status \in {"SENDING", "ACCEPTED", "FAILED"} => sub[s].attempts > 0

DrainsTyped ==
    /\ drain \in [Drains -> Drain]
    /\ \A d \in Drains : drain[d].pc # "idle" => drain[d].sub \in Subs /\ drain[d].attempts > 0

LEMMA ChatStarts == ChatInit => ChatInv
  <1> SUFFICES ASSUME ChatInit PROVE ChatInv
    OBVIOUS
  <1> USE ChatConstants DEF ChatInit, NoSubmission, NoDrain, Busy, Is
  <1>1. ChatTypeOK
    <2>1. RowsTyped /\ DrainsTyped
      BY DEF RowsTyped, DrainsTyped, Submission, Drain
    <2>2. mail \in Seq(Subs) /\ copies \in [Subs -> 0 .. 2]
      OBVIOUS
    <2>3. kept \in BOOLEAN /\ session \in BOOLEAN /\ open \in BOOLEAN
      OBVIOUS
    <2>4. question \in 0 .. asked /\ recorded \subseteq 1 .. asked /\ asked \in 0 .. MaxAsks
      OBVIOUS
    <2> QED
      BY <2>1, <2>2, <2>3, <2>4 DEF ChatTypeOK, RowsTyped, DrainsTyped
  <1>2. RowsInLine /\ LineReached /\ AnswersRecorded
    BY DEF RowsInLine, LineReached, AnswersRecorded
  <1>3. TakenWasClaimed /\ ClaimedOnce
    BY DEF TakenWasClaimed, ClaimedOnce, InMail
  <1>4. InOrder /\ RepeatsHaveCause
    BY DEF InOrder, RepeatsHaveCause
  <1> QED
    BY <1>1, <1>2, <1>3, <1>4 DEF ChatInv

\* A row that is written by its status alone keeps its other columns.
LEMMA SetStatusWrites ==
  ASSUME RowsTyped, NEW s \in Subs,
         NEW st \in {"PENDING", "SENDING", "ACCEPTED", "FAILED"}, SetStatus(s, st),
         st # "PENDING" => sub[s].attempts > 0
  PROVE  /\ RowsTyped'
         /\ sub'[s].status = st
         /\ \A t \in Subs : /\ sub'[t].attempts = sub[t].attempts /\ sub'[t].answers = sub[t].answers
                            /\ t # s => sub'[t] = sub[t]
  BY DEF RowsTyped, SetStatus, Submission

\* A passage that ends.
LEMMA PassageEnds ==
  ASSUME DrainsTyped, NEW d \in Drains, drain' = [drain EXCEPT ![d] = NoDrain]
  PROVE  /\ DrainsTyped'
         /\ drain'[d] = NoDrain
         /\ \A e \in Drains : e # d => drain'[e] = drain[e]
  BY DEF DrainsTyped, Drain, NoDrain

LEMMA ChatTypes == ChatInv /\ [ChatNext]_chatVars => ChatTypeOK'
  <1> SUFFICES ASSUME ChatInv, [ChatNext]_chatVars PROVE ChatTypeOK'
    OBVIOUS
  <1> DEFINE Flags == kept \in BOOLEAN /\ session \in BOOLEAN /\ open \in BOOLEAN
             Rest ==
        /\ turn \in {"new", "started", "running", "idle"}
        /\ question \in 0 .. asked /\ recorded \subseteq 1 .. asked /\ asked \in 0 .. MaxAsks
        /\ mail \in Seq(Subs) /\ copies \in [Subs -> 0 .. 2]
        /\ doubt \subseteq Subs /\ given_up \subseteq Subs /\ crashes \in 0 .. MaxCrashes
  <1>a. RowsTyped' /\ DrainsTyped' /\ Flags' /\ Rest' => ChatTypeOK'
    BY DEF ChatTypeOK, RowsTyped, DrainsTyped
  <1>b. RowsTyped /\ DrainsTyped /\ Flags /\ Rest
    BY DEF ChatInv, ChatTypeOK, RowsTyped, DrainsTyped
  <1>c. (UNCHANGED sub => RowsTyped') /\ (UNCHANGED drain => DrainsTyped')
    BY <1>b DEF RowsTyped, DrainsTyped
  <1> USE ChatConstants DEF chat, eve, past
  <1>1. ASSUME NEW s \in Subs, Submit(s) PROVE ChatTypeOK'
    <2>1. RowsTyped'
      BY <1>1, <1>b, SetStatusWrites DEF Submit
    <2> QED
      BY <1>1, <1>a, <1>b, <1>c, <2>1 DEF Submit
  <1>2. ASSUME NEW s \in Subs, NEW q \in 1 .. MaxAsks, AnswerQuestion(s, q) PROVE ChatTypeOK'
    <2>1. RowsTyped'
      BY <1>2, <1>b DEF AnswerQuestion, RowsTyped, Submission
    <2> QED
      BY <1>2, <1>a, <1>b, <1>c, <2>1 DEF AnswerQuestion
  <1>3. CASE RemoveChat
    <2>1. RowsTyped'
      BY <1>3 DEF RemoveChat, NoSubmission, RowsTyped, Submission
    <2>2. Flags'
      BY <1>3, Zenon DEF RemoveChat
    <2> QED
      BY <1>3, <1>a, <1>b, <1>c, <2>1, <2>2 DEF RemoveChat
  <1>4. ASSUME NEW s \in Subs, NEW d \in Drains, ClaimSubmission(d, s) PROVE ChatTypeOK'
    <2>1. RowsTyped'
      <3>1. PICK n \in Nat : n = sub[s].attempts + 1 /\ n > 0
        BY <1>b DEF RowsTyped, Submission
      <3> DEFINE claimed == [sub[s] EXCEPT !.status = "SENDING", !.attempts = n]
      <3>2. sub' = [sub EXCEPT ![s] = claimed]
        BY <1>4, <3>1, Zenon DEF ClaimSubmission
      <3>3. \A old \in Submission :
               LET r == [old EXCEPT !.status = "SENDING", !.attempts = n]
               IN  r \in Submission /\ r.attempts = n
        BY DEF Submission
      <3>4. claimed \in Submission /\ claimed.attempts > 0
        BY <1>b, <3>1, <3>3 DEF RowsTyped
      <3> HIDE DEF claimed
      <3> QED
        BY <1>b, <3>2, <3>4 DEF RowsTyped
    <2>2. DrainsTyped'
      BY <1>4, <1>b DEF ClaimSubmission, RowsTyped, DrainsTyped, Submission, Drain
    <2> QED
      BY <1>4, <1>a, <1>b, <2>1, <2>2 DEF ClaimSubmission
  <1>5. ASSUME NEW d \in Drains, EveTakes(d) PROVE ChatTypeOK'
    <2>1. DrainsTyped'
      BY <1>5, <1>b DEF EveTakes, DrainsTyped, Drain
    <2>2. drain[d].sub \in Subs
      BY <1>5, <1>b DEF EveTakes, DrainsTyped
    <2>3. mail' \in Seq(Subs) /\ copies' \in [Subs -> 0 .. 2]
      BY <1>5, <1>b, <2>2 DEF EveTakes
    <2> QED
      BY <1>5, <1>a, <1>b, <1>c, <2>1, <2>3 DEF EveTakes
  <1>6. ASSUME NEW d \in Drains, SendReturns(d) PROVE ChatTypeOK'
    <2>1. DrainsTyped'
      BY <1>6, <1>b, PassageEnds DEF SendReturns
    <2>2. drain[d].sub \in Subs /\ (kept => sub[drain[d].sub].attempts > 0)
      BY <1>6, <1>b DEF SendReturns, DrainsTyped, ChatInv, TakenWasClaimed, Busy
    <2>3. RowsTyped'
      BY <1>6, <1>b, <1>c, <2>2, SetStatusWrites DEF SendReturns
    <2>4. Flags'
      BY <1>6, <1>b, Zenon DEF SendReturns
    <2> QED
      BY <1>6, <1>a, <1>b, <2>1, <2>3, <2>4 DEF SendReturns
  <1>7. ASSUME NEW d \in Drains, SendThrows(d) PROVE ChatTypeOK'
    <2>1. DrainsTyped'
      BY <1>7, <1>b, PassageEnds DEF SendThrows
    <2>2. drain[d].sub \in Subs /\ (kept => sub[drain[d].sub].attempts > 0)
      BY <1>7, <1>b DEF SendThrows, DrainsTyped, ChatInv, TakenWasClaimed, Busy
    <2>3. RowsTyped'
      BY <1>7, <1>b, <1>c, <2>2, SetStatusWrites DEF SendThrows
    <2> QED
      BY <1>7, <1>a, <1>b, <2>1, <2>2, <2>3 DEF SendThrows
  <1>8. ASSUME NEW s \in Subs, Recover(s) PROVE ChatTypeOK'
    <2>1. sub[s].attempts > 0
      BY <1>8, <1>b DEF Recover, Is, RowsTyped
    <2>2. RowsTyped'
      BY <1>8, <1>b, <2>1, SetStatusWrites DEF Recover, GiveBack
    <2> QED
      BY <1>8, <1>a, <1>b, <1>c, <2>2 DEF Recover, GiveBack
  <1>9. CASE AgentStops
    <2>1. DrainsTyped'
      BY <1>9 DEF AgentStops, NoDrain, DrainsTyped, Drain
    <2> QED
      BY <1>9, <1>a, <1>b, <1>c, <2>1 DEF AgentStops
  <1>10. CASE SessionStarted \/ SessionWaits \/ TurnEnds \/ Ask
    <2>1. Flags'
      BY <1>10, <1>b, Zenon DEF SessionStarted, SessionWaits, TurnEnds, Ask
    <2>2. Rest'
      <3>1. CASE SessionStarted \/ SessionWaits
        BY <1>b, <3>1 DEF SessionStarted, SessionWaits
      <3>2. CASE TurnEnds
        BY <1>b, <3>2 DEF TurnEnds
      <3>3. CASE Ask
        <4>1. asked' = asked + 1 /\ asked' \in 0 .. MaxAsks /\ recorded' = recorded /\ question' = question
          BY <1>b, <3>3 DEF Ask
        <4>2. question' \in 0 .. asked' /\ recorded' \subseteq 1 .. asked'
          BY <1>b, <4>1
        <4> QED
          BY <1>b, <3>3, <4>1, <4>2 DEF Ask
      <3> QED
        BY <1>10, <3>1, <3>2, <3>3
    <2> QED
      BY <1>10, <1>a, <1>b, <1>c, <2>1, <2>2 DEF SessionStarted, SessionWaits, TurnEnds, Ask
  <1>11. CASE MessageReceived
    <2>1. mail # <<>> /\ Head(mail) \in Subs /\ Tail(mail) \in Seq(Subs) /\ InMail(Head(mail))
      BY <1>11, <1>b DEF MessageReceived, InMail
    <2>2. kept => sub[Head(mail)].attempts > 0
      BY <2>1 DEF ChatInv, TakenWasClaimed
    <2>3. RowsTyped'
      BY <1>11, <1>b, <1>c, <2>1, <2>2, SetStatusWrites DEF MessageReceived
    <2> QED
      BY <1>11, <1>a, <1>b, <1>c, <2>1, <2>3 DEF MessageReceived
  <1>12. ASSUME NEW q \in 1 .. MaxAsks, ShowQuestion(q) PROVE ChatTypeOK'
    BY <1>12, <1>a, <1>b, <1>c DEF ShowQuestion
  <1>13. CASE UNCHANGED chatVars
    BY <1>13, <1>a, <1>b, <1>c DEF chatVars
  <1> QED
    BY <1>1, <1>2, <1>3, <1>4, <1>5, <1>6, <1>7, <1>8, <1>9, <1>10, <1>11, <1>12, <1>13
    DEF ChatNext, Draining, Delivery, EveStep, Asking

-----------------------------------------------------------------------------
(* What every step leaves alone, and the steps that matter to each part of  *)
(* the invariant.                                                           *)

\* What has reached eve, or was given up, stays so, and a doubt stays.
LEMMA ReachedStays ==
  ASSUME ChatTypeOK, [ChatNext]_chatVars
  PROVE  /\ \A s \in Subs : /\ copies'[s] >= copies[s] /\ copies[s] \in Nat /\ copies'[s] \in Nat
                            /\ Reached(s) => Reached(s)'
         /\ given_up \subseteq given_up' /\ doubt \subseteq doubt'
  <1> USE DEF chat, eve, past
  <1>1. ASSUME NEW d \in Drains, EveTakes(d)
        PROVE  \A s \in Subs : copies'[s] >= copies[s] /\ copies'[s] \in Nat
    BY <1>1 DEF EveTakes, ChatTypeOK
  <1>2. copies \in [Subs -> 0 .. 2]
    BY DEF ChatTypeOK
  <1>3. (\E d \in Drains : EveTakes(d)) \/ UNCHANGED copies
    BY DEF ChatNext, chatVars, Submit, AnswerQuestion, RemoveChat, Draining, ClaimSubmission, Recover,
           AgentStops, EveStep, SessionStarted, SessionWaits, TurnEnds, Ask, MessageReceived,
           Delivery, SendReturns, SendThrows, Asking, ShowQuestion
  <1>4. given_up \subseteq given_up' /\ doubt \subseteq doubt'
    BY DEF ChatNext, chatVars, Submit, AnswerQuestion, RemoveChat, Draining, ClaimSubmission, Recover,
           AgentStops, EveStep, SessionStarted, SessionWaits, TurnEnds, Ask, MessageReceived,
           Delivery, EveTakes, SendReturns, SendThrows, Asking, ShowQuestion, GiveBack
  <1>5. \A s \in Subs : copies'[s] >= copies[s] /\ copies[s] \in Nat /\ copies'[s] \in Nat
    BY <1>1, <1>2, <1>3
  <1> QED
    BY <1>4, <1>5 DEF Reached

\* Rows appear in order and go together.
LEMMA RowsStayInLine == ChatInv /\ [ChatNext]_chatVars => RowsInLine'
  <1> SUFFICES ASSUME ChatInv, [ChatNext]_chatVars PROVE RowsInLine'
    OBVIOUS
  <1>0. RowsInLine /\ RowsTyped /\ sub \in [Subs -> Submission]
    BY DEF ChatInv, ChatTypeOK, RowsTyped
  <1> USE ChatConstants DEF RowsInLine, Is, chat, eve, past
  <1>1. ASSUME NEW s \in Subs, NextSub(s), UNCHANGED kept, sub'[s].status = "PENDING",
               \A t \in Subs : t # s => sub'[t] = sub[t]
        PROVE  RowsInLine'
    BY <1>0, <1>1 DEF NextSub
  <1>2. ASSUME NEW s \in Subs, kept, UNCHANGED kept,
               sub[s].status # "absent" \/ sub[s].attempts > 0, sub'[s].status # "absent",
               \A t \in Subs : t # s => sub'[t] = sub[t]
        PROVE  RowsInLine'
    <2>1. sub[s].status # "absent"
      BY <1>0, <1>2 DEF NoSubmission
    <2> QED
      BY <1>0, <1>2, <2>1
  <1>3. ASSUME NEW s \in Subs, Submit(s) \/ (\E q \in 1 .. MaxAsks : AnswerQuestion(s, q))
        PROVE  RowsInLine'
    <2>1. /\ NextSub(s) /\ UNCHANGED kept
          /\ sub'[s].status = "PENDING"
          /\ \A t \in Subs : t # s => sub'[t] = sub[t]
      BY <1>0, <1>3 DEF Submit, AnswerQuestion, SetStatus, Submission
    <2> QED
      BY <1>1, <2>1
  <1>4. CASE RemoveChat
    BY <1>4 DEF RemoveChat, NoSubmission
  <1>5. ASSUME NEW s \in Subs, Draining(s) PROVE RowsInLine'
    <2>1. /\ sub[s].status # "absent" /\ UNCHANGED kept
          /\ sub'[s].status # "absent"
          /\ \A t \in Subs : t # s => sub'[t] = sub[t]
      BY <1>0, <1>5 DEF Draining, ClaimSubmission, FirstInLine, Recover, GiveBack, SetStatus, Submission
    <2>2. kept
      BY <1>0, <2>1
    <2> QED
      BY <1>2, <2>1, <2>2
  <1>6. ASSUME NEW s \in Subs, kept, UNCHANGED kept, sub[s].attempts > 0,
               NEW st \in {"PENDING", "ACCEPTED", "FAILED"}, SetStatus(s, st)
        PROVE  RowsInLine'
    <2>1. sub'[s].status # "absent" /\ \A t \in Subs : t # s => sub'[t] = sub[t]
      BY <1>0, <1>6, SetStatusWrites
    <2> QED
      BY <1>2, <1>6, <2>1
  <1>7. ASSUME NEW d \in Drains, SendReturns(d) \/ SendThrows(d), kept PROVE RowsInLine'
    <2>1. drain[d].sub \in Subs /\ sub[drain[d].sub].attempts > 0
      BY <1>7 DEF SendReturns, SendThrows, ChatInv, ChatTypeOK, TakenWasClaimed, Busy
    <2>2. \E st \in {"PENDING", "ACCEPTED", "FAILED"} : SetStatus(drain[d].sub, st)
      BY <1>7 DEF SendReturns, SendThrows
    <2> QED
      BY <1>6, <1>7, <2>1, <2>2 DEF SendReturns, SendThrows
  <1>8. CASE MessageReceived /\ kept
    <2>1. Head(mail) \in Subs /\ InMail(Head(mail))
      BY <1>8 DEF MessageReceived, InMail, ChatInv, ChatTypeOK
    <2>2. sub[Head(mail)].attempts > 0
      BY <1>8, <2>1 DEF ChatInv, TakenWasClaimed
    <2> QED
      BY <1>6, <1>8, <2>1, <2>2 DEF MessageReceived
  <1>9. CASE UNCHANGED <<sub, kept>>
    BY <1>0, <1>9
  <1> QED
    BY <1>3, <1>4, <1>5, <1>7, <1>8, <1>9
    DEF ChatNext, chatVars, AgentStops, EveStep, SessionStarted, SessionWaits, TurnEnds, Ask, MessageReceived,
        Delivery, EveTakes, SendReturns, SendThrows, Asking, ShowQuestion

\* Every step, seen by a passage: it goes on, eve takes its message, or it
\* begins with a claim.
LEMMA PassageDeeds ==
  ASSUME ChatTypeOK, [ChatNext]_chatVars, NEW d \in Drains, Busy(d)'
  PROVE  \/ drain'[d] = drain[d]
         \/ EveTakes(d) /\ drain'[d] = [drain[d] EXCEPT !.pc = "taken"]
         \/ \E s \in Subs : ClaimSubmission(d, s) /\ drain'[d].sub = s /\ drain'[d].pc = "sending"
  <1>0. drain \in [Drains -> Drain]
    BY DEF ChatTypeOK
  <1> USE DEF chat, eve, past, Busy, NoDrain
  <1>1. ASSUME NEW e \in Drains, SendReturns(e) \/ SendThrows(e) PROVE drain'[d] = drain[d]
    BY <1>0, <1>1 DEF SendReturns, SendThrows
  <1>2. ASSUME NEW e \in Drains, EveTakes(e)
        PROVE  \/ drain'[d] = drain[d]
               \/ EveTakes(d) /\ drain'[d] = [drain[d] EXCEPT !.pc = "taken"]
    BY <1>0, <1>2 DEF EveTakes
  <1>3. ASSUME NEW e \in Drains, NEW s \in Subs, ClaimSubmission(e, s)
        PROVE  \/ drain'[d] = drain[d]
               \/ ClaimSubmission(d, s) /\ drain'[d].sub = s /\ drain'[d].pc = "sending"
    <2>1. drain' = [drain EXCEPT ![e] = [pc |-> "sending", sub |-> s, attempts |-> sub[s].attempts + 1]]
      BY <1>3, Zenon DEF ClaimSubmission
    <2> QED
      BY <1>0, <1>3, <2>1
  <1>4. ~AgentStops
    BY DEF AgentStops
  <1>5. CASE UNCHANGED drain
    BY <1>5
  <1> QED
    BY <1>1, <1>2, <1>3, <1>4, <1>5
    DEF ChatNext, chatVars, Submit, AnswerQuestion, RemoveChat, Draining, Recover, EveStep, SessionStarted,
        SessionWaits, TurnEnds, Ask, MessageReceived, Delivery, Asking, ShowQuestion

\* The mailbox of eve holds what passages put there.
LEMMA MailDeeds ==
  ASSUME ChatTypeOK, [ChatNext]_chatVars, NEW s \in Subs, InMail(s)'
  PROVE  InMail(s) \/ \E d \in Drains : EveTakes(d) /\ drain[d].sub = s
  <1>0. mail \in Seq(Subs)
    BY DEF ChatTypeOK
  <1>1. ASSUME NEW d \in Drains, EveTakes(d) PROVE InMail(s) \/ drain[d].sub = s
    <2>1. drain[d].sub \in Subs /\ mail' = Append(mail, drain[d].sub)
      BY <1>1 DEF EveTakes, ChatTypeOK
    <2>2. PICK i \in 1 .. Len(mail') : mail'[i] = s
      BY DEF InMail
    <2> QED
      BY <1>0, <2>1, <2>2 DEF InMail
  <1>2. CASE MessageReceived
    <2>1. mail # <<>> /\ mail' = Tail(mail)
      BY <1>2 DEF MessageReceived
    <2>2. PICK i \in 1 .. Len(mail') : mail'[i] = s
      BY DEF InMail
    <2>3. i + 1 \in 1 .. Len(mail) /\ mail[i + 1] = s
      BY <1>0, <2>1, <2>2
    <2> QED
      BY <2>3 DEF InMail
  <1>3. CASE UNCHANGED mail
    BY <1>3 DEF InMail
  <1> QED
    BY <1>1, <1>2, <1>3
    DEF ChatNext, chatVars, chat, eve, past, Submit, AnswerQuestion, RemoveChat, Draining, ClaimSubmission,
        Recover, AgentStops, EveStep, SessionStarted, SessionWaits, TurnEnds, Ask, Delivery, SendReturns,
        SendThrows, Asking, ShowQuestion

\* Every step, seen by a row.
LEMMA RowDeeds ==
  ASSUME ChatInv, [ChatNext]_chatVars, NEW s \in Subs
  PROVE  /\ kept' => kept /\ sub'[s].attempts >= sub[s].attempts
         /\ sub'[s].answers # 0 => sub'[s].answers = sub[s].answers \/ sub'[s].answers \in recorded
         /\ Is(s, "ACCEPTED")' => Is(s, "ACCEPTED") \/ Reached(s)
         /\ Is(s, "FAILED")' => Is(s, "FAILED") \/ s \in given_up'
         /\ Is(s, "PENDING")' => Is(s, "PENDING") \/ s \in doubt' \/ (Is(s, "absent") /\ kept)
         /\ Is(s, "absent")' /\ kept' => Is(s, "absent")
  <1> DEFINE P == /\ kept' => kept /\ sub'[s].attempts >= sub[s].attempts
                  /\ sub'[s].answers # 0 => sub'[s].answers = sub[s].answers \/ sub'[s].answers \in recorded
                  /\ Is(s, "ACCEPTED")' => Is(s, "ACCEPTED") \/ Reached(s)
                  /\ Is(s, "FAILED")' => Is(s, "FAILED") \/ s \in given_up'
                  /\ Is(s, "PENDING")' => Is(s, "PENDING") \/ s \in doubt' \/ (Is(s, "absent") /\ kept)
                  /\ Is(s, "absent")' /\ kept' => Is(s, "absent")
  <1>0. RowsTyped /\ ChatTypeOK /\ sub \in [Subs -> Submission] /\ sub[s].attempts \in Nat
    BY DEF ChatInv, ChatTypeOK, RowsTyped, Submission
  <1> USE DEF chat, eve, past, Is
  <1>1. ASSUME sub'[s] = sub[s], UNCHANGED kept PROVE P
    <2>1. sub'[s].attempts >= sub[s].attempts
      BY <1>0, <1>1
    <2>2. kept' = kept
      BY <1>1
    <2>3. kept' => kept /\ sub'[s].attempts >= sub[s].attempts
      BY <2>1, <2>2, Zenon
    <2>4. Is(s, "absent")' /\ kept' => Is(s, "absent")
      BY <1>1
    <2>5. /\ sub'[s].answers # 0 => sub'[s].answers = sub[s].answers \/ sub'[s].answers \in recorded
          /\ Is(s, "ACCEPTED")' => Is(s, "ACCEPTED") \/ Reached(s)
          /\ Is(s, "FAILED")' => Is(s, "FAILED") \/ s \in given_up'
          /\ Is(s, "PENDING")' => Is(s, "PENDING") \/ s \in doubt' \/ (Is(s, "absent") /\ kept)
      BY <1>1
    <2> QED
      BY <2>3, <2>4, <2>5, Zenon
  <1>2. CASE RemoveChat
    BY <1>2 DEF RemoveChat, NoSubmission
  <1>3. ASSUME NEW t \in Subs, NextSub(t), UNCHANGED kept, sub'[t].status = "PENDING",
               sub'[t].attempts = sub[t].attempts,
               sub'[t].answers # 0 => sub'[t].answers = sub[t].answers \/ sub'[t].answers \in recorded,
               \A u \in Subs : u # t => sub'[u] = sub[u]
        PROVE  P
    <2>1. Is(t, "absent") /\ kept
      BY <1>3, ChatConstants DEF NextSub
    <2> QED
      BY <1>0, <1>1, <1>3, <2>1
  <1>4. ASSUME NEW t \in Subs, Submit(t) PROVE P
    BY <1>0, <1>3, <1>4 DEF Submit, SetStatus, Submission
  <1>5. ASSUME NEW t \in Subs, NEW q \in 1 .. MaxAsks, AnswerQuestion(t, q) PROVE P
    BY <1>0, <1>3, <1>5 DEF AnswerQuestion, Submission
  <1>6. ASSUME NEW t \in Subs, NEW d \in Drains, ClaimSubmission(d, t) PROVE P
    <2>1. sub'[t].status = "SENDING" /\ sub'[t].attempts = sub[t].attempts + 1 /\ sub'[t].answers = sub[t].answers
      BY <1>0, <1>6 DEF ClaimSubmission, Submission
    <2>2. \A u \in Subs : u # t => sub'[u] = sub[u]
      BY <1>0, <1>6 DEF ClaimSubmission
    <2> QED
      BY <1>0, <1>1, <1>6, <2>1, <2>2 DEF ClaimSubmission
  <1>7. ASSUME NEW t \in Subs, UNCHANGED kept, sub[t].attempts > 0, kept,
               NEW st \in {"PENDING", "ACCEPTED", "FAILED"}, SetStatus(t, st),
               st = "PENDING" => t \in doubt', st = "ACCEPTED" => Reached(t),
               st = "FAILED" => t \in given_up'
        PROVE  P
    <2>1. /\ sub'[t].status = st
          /\ sub'[s].attempts = sub[s].attempts /\ sub'[s].answers = sub[s].answers
          /\ s # t => sub'[s] = sub[s]
      BY <1>0, <1>7, SetStatusWrites
    <2> QED
      BY <1>0, <1>1, <1>7, <2>1
  <1>8. ASSUME NEW t \in Subs, Recover(t) PROVE P
    <2>1. sub[t].attempts > 0 /\ kept
      BY <1>0, <1>8 DEF Recover, RowsTyped, ChatInv, RowsInLine
    <2>2. \E st \in {"PENDING", "FAILED"} : SetStatus(t, st) /\ (st = "FAILED" => t \in given_up')
      BY <1>8 DEF Recover, GiveBack
    <2> QED
      BY <1>7, <1>8, <2>1, <2>2 DEF Recover
  <1>9. ASSUME NEW d \in Drains, SendReturns(d) \/ SendThrows(d) PROVE P
    <2>0. CASE ~kept
      BY <1>1, <1>9, <2>0 DEF SendReturns, SendThrows
    <2>1. CASE kept
      <3>1. drain[d].sub \in Subs /\ sub[drain[d].sub].attempts > 0
        BY <1>9, <2>1 DEF SendReturns, SendThrows, ChatInv, ChatTypeOK, TakenWasClaimed, Busy
      <3>2. CASE SendReturns(d)
        <4>1. Reached(drain[d].sub)
          BY <3>2 DEF SendReturns, ChatInv, TakenWasClaimed, Busy, Reached
        <4> QED
          BY <1>7, <2>1, <3>1, <3>2, <4>1 DEF SendReturns
      <3>3. CASE SendThrows(d)
        BY <1>7, <2>1, <3>1, <3>3 DEF SendThrows
      <3> QED
        BY <1>9, <3>2, <3>3
    <2> QED
      BY <2>0, <2>1
  <1>10. CASE MessageReceived
    <2>0. CASE ~kept
      BY <1>1, <1>10, <2>0 DEF MessageReceived
    <2>1. CASE kept
      <3>1. Head(mail) \in Subs /\ InMail(Head(mail))
        BY <1>0, <1>10 DEF MessageReceived, InMail, ChatTypeOK
      <3>2. sub[Head(mail)].attempts > 0 /\ Reached(Head(mail))
        BY <2>1, <3>1 DEF ChatInv, TakenWasClaimed, Reached
      <3> QED
        BY <1>7, <1>10, <2>1, <3>1, <3>2 DEF MessageReceived
    <2> QED
      BY <2>0, <2>1
  <1>11. CASE UNCHANGED <<sub, kept>>
    BY <1>1, <1>11
  <1> QED
    BY <1>2, <1>4, <1>5, <1>6, <1>8, <1>9, <1>10, <1>11
    DEF ChatNext, chatVars, AgentStops, Draining, EveStep, SessionStarted, SessionWaits, TurnEnds, Ask,
        Delivery, EveTakes, Asking, ShowQuestion

-----------------------------------------------------------------------------
(* The parts of the invariant. *)

LEMMA TakenStaysClaimed == ChatInv /\ [ChatNext]_chatVars => TakenWasClaimed'
  <1> SUFFICES ASSUME ChatInv, [ChatNext]_chatVars PROVE TakenWasClaimed'
    OBVIOUS
  <1>0. TakenWasClaimed /\ ChatTypeOK /\ DrainsTyped
    BY DEF ChatInv, ChatTypeOK, DrainsTyped
  <1>1. \A s \in Subs : /\ copies'[s] >= copies[s] /\ copies[s] \in Nat /\ copies'[s] \in Nat
                        /\ kept' => kept /\ sub'[s].attempts >= sub[s].attempts
                        /\ sub[s].attempts \in Nat /\ sub'[s].attempts \in Nat
    <2>1. ChatTypeOK'
      BY ChatTypes
    <2>2. \A s \in Subs : sub[s].attempts \in Nat /\ sub'[s].attempts \in Nat
      BY <1>0, <2>1 DEF ChatTypeOK, Submission
    <2> QED
      BY <1>0, <2>2, ReachedStays, RowDeeds
  <1>2. ASSUME NEW d \in Drains, EveTakes(d)
        PROVE  /\ Busy(d) /\ drain[d].sub \in Subs /\ copies'[drain[d].sub] > 0
               /\ kept => sub[drain[d].sub].attempts > 0
    BY <1>0, <1>2 DEF EveTakes, TakenWasClaimed, Busy, ChatTypeOK
  <1>3. ASSUME NEW s \in Subs, InMail(s)' PROVE copies'[s] > 0 /\ (kept' => sub'[s].attempts > 0)
    <2>1. CASE InMail(s)
      BY <1>0, <1>1, <2>1 DEF TakenWasClaimed
    <2>2. ASSUME NEW d \in Drains, EveTakes(d), drain[d].sub = s
          PROVE  copies'[s] > 0 /\ (kept' => sub'[s].attempts > 0)
      BY <1>1, <1>2, <2>2
    <2> QED
      BY <1>0, <1>3, <2>1, <2>2, MailDeeds
  <1>4. ASSUME NEW d \in Drains, Busy(d)'
        PROVE  /\ kept' => sub'[drain'[d].sub].attempts > 0
               /\ drain'[d].pc = "taken" => copies'[drain'[d].sub] > 0
    <2>1. CASE drain'[d] = drain[d]
      BY <1>0, <1>1, <1>4, <2>1 DEF TakenWasClaimed, Busy, DrainsTyped
    <2>2. CASE EveTakes(d) /\ drain'[d] = [drain[d] EXCEPT !.pc = "taken"]
      <3>1. drain'[d].sub = drain[d].sub
        BY <1>0, <2>2 DEF DrainsTyped, Drain
      <3> QED
        BY <1>1, <1>2, <2>2, <3>1
    <2>3. ASSUME NEW s \in Subs, ClaimSubmission(d, s), drain'[d].sub = s, drain'[d].pc = "sending"
          PROVE  /\ kept' => sub'[drain'[d].sub].attempts > 0
                 /\ drain'[d].pc = "taken" => copies'[drain'[d].sub] > 0
      <3>1. sub'[s].status = "SENDING"
        BY <1>0, <2>3 DEF ClaimSubmission, ChatTypeOK, Submission
      <3>2. sub'[s].attempts > 0
        BY <3>1, ChatTypes DEF ChatTypeOK
      <3> QED
        BY <2>3, <3>2
    <2> QED
      BY <1>0, <1>4, <2>1, <2>2, <2>3, PassageDeeds
  <1> QED
    BY <1>3, <1>4 DEF TakenWasClaimed

\* A claim takes the first in line: whatever stands before it is over.
LEMMA LineStaysReached == ChatInv /\ [ChatNext]_chatVars => LineReached'
  <1> SUFFICES ASSUME ChatInv, [ChatNext]_chatVars PROVE LineReached'
    OBVIOUS
  <1>0. LineReached /\ ChatTypeOK /\ DrainsTyped /\ RowsInLine
    BY DEF ChatInv, ChatTypeOK, DrainsTyped
  <1>1. \A s \in Subs : Reached(s) => Reached(s)'
    BY <1>0, ReachedStays
  <1>2. \A s \in Subs : Is(s, "ACCEPTED")' \/ Is(s, "FAILED")' => Reached(s)'
    BY <1>0, <1>1, RowDeeds DEF LineReached, Reached
  <1>3. ASSUME NEW d \in Drains, Busy(d)', NEW p \in Subs, p < drain'[d].sub PROVE Reached(p)'
    <2>1. CASE drain'[d] = drain[d]
      BY <1>0, <1>1, <1>3, <2>1 DEF LineReached, Busy
    <2>2. CASE EveTakes(d) /\ drain'[d] = [drain[d] EXCEPT !.pc = "taken"]
      <3>1. drain'[d].sub = drain[d].sub /\ Busy(d)
        BY <1>0, <2>2 DEF DrainsTyped, Drain, EveTakes, Busy
      <3> QED
        BY <1>0, <1>1, <1>3, <3>1 DEF LineReached
    <2>3. ASSUME NEW s \in Subs, ClaimSubmission(d, s), drain'[d].sub = s PROVE Reached(p)'
      <3>1. /\ Is(s, "PENDING") /\ p < s
            /\ ~Is(p, "SENDING") /\ ~Is(p, "PENDING")
        BY <1>3, <2>3 DEF ClaimSubmission, FirstInLine
      <3>2. ~Is(p, "absent")
        BY <1>0, <3>1 DEF RowsInLine, Is
      <3>3. Is(p, "ACCEPTED") \/ Is(p, "FAILED")
        BY <1>0, <3>1, <3>2 DEF Is, ChatTypeOK, Submission
      <3> QED
        BY <1>0, <1>1, <3>3 DEF LineReached
    <2> QED
      BY <1>0, <1>3, <2>1, <2>2, <2>3, PassageDeeds
  <1> QED
    BY <1>2, <1>3 DEF LineReached

\* eve takes a message from one passage.
LEMMA CopyDeeds ==
  ASSUME ChatTypeOK, [ChatNext]_chatVars, NEW s \in Subs, copies'[s] # copies[s]
  PROVE  \E d \in Drains : /\ EveTakes(d) /\ drain[d].sub = s /\ drain[d].pc = "sending"
                           /\ copies[s] = 0 => copies'[s] = 1
                           /\ copies'[s] > 0
  <1>1. ASSUME NEW d \in Drains, EveTakes(d)
        PROVE  /\ drain[d].sub = s /\ drain[d].pc = "sending"
               /\ copies[s] = 0 => copies'[s] = 1
               /\ copies'[s] > 0
    BY <1>1 DEF EveTakes, ChatTypeOK
  <1>2. \E d \in Drains : EveTakes(d)
    BY DEF ChatNext, chatVars, chat, eve, past, Submit, AnswerQuestion, RemoveChat, Draining, ClaimSubmission,
           Recover, AgentStops, EveStep, SessionStarted, SessionWaits, TurnEnds, Ask, MessageReceived,
           Delivery, SendReturns, SendThrows, Asking, ShowQuestion
  <1> QED
    BY <1>1, <1>2

\* The order: a message eve takes is in the hands of a passage, and all before
\* it were reached when it was claimed.
LEMMA OrderStays == ChatInv /\ [ChatNext]_chatVars => InOrder'
  <1> SUFFICES ASSUME ChatInv, [ChatNext]_chatVars,
                      NEW s \in Subs, NEW t \in Subs, s < t, copies'[t] > 0
               PROVE  Reached(s)'
    BY DEF InOrder, Reached
  <1>0. LineReached /\ ChatTypeOK /\ InOrder
    BY DEF ChatInv
  <1>1. Reached(s) => Reached(s)'
    BY <1>0, ReachedStays
  <1>2. CASE copies'[t] = copies[t]
    BY <1>0, <1>1, <1>2 DEF InOrder, Reached
  <1>3. CASE copies'[t] # copies[t]
    BY <1>0, <1>1, <1>3, CopyDeeds DEF LineReached, Busy
  <1> QED
    BY <1>2, <1>3

\* A claim finds a row nobody holds; what hands it back doubts it.
LEMMA ClaimsStayOnce == ChatInv /\ [ChatNext]_chatVars => ClaimedOnce'
  <1> SUFFICES ASSUME ChatInv, [ChatNext]_chatVars, NEW s \in Subs, s \notin doubt'
               PROVE  /\ (Is(s, "absent")' /\ kept') \/ Is(s, "PENDING")' =>
                            /\ copies'[s] = 0
                            /\ \A d \in Drains : ~(Busy(d)' /\ drain'[d].sub = s)
                      /\ \A d, e \in Drains :
                            Busy(d)' /\ Busy(e)' /\ drain'[d].sub = s /\ drain'[e].sub = s => d = e
                      /\ \A d \in Drains : drain'[d].pc = "sending" /\ drain'[d].sub = s => copies'[s] = 0
    BY DEF ClaimedOnce
  <1> DEFINE Waiting == (Is(s, "absent") /\ kept) \/ Is(s, "PENDING")
             Held(d) == Busy(d) /\ drain[d].sub = s
  <1>0. ChatTypeOK /\ DrainsTyped
    BY DEF ChatInv, ChatTypeOK, DrainsTyped
  <1>1. s \notin doubt
    BY <1>0, ReachedStays
  <1>2. /\ Waiting => copies[s] = 0 /\ \A d \in Drains : ~Held(d)
        /\ \A d, e \in Drains : Held(d) /\ Held(e) => d = e
        /\ \A d \in Drains : drain[d].pc = "sending" /\ drain[d].sub = s => copies[s] = 0
    BY <1>1 DEF ChatInv, ClaimedOnce
  <1>3. (Is(s, "absent")' /\ kept') \/ Is(s, "PENDING")' => Waiting
    BY <1>0, RowDeeds
  <1>4. ASSUME NEW d \in Drains, ClaimSubmission(d, s)
        PROVE  /\ Waiting /\ ~Busy(d) /\ copies' = copies
               /\ ~Is(s, "absent")' /\ ~Is(s, "PENDING")'
               /\ \A e \in Drains : e # d => drain'[e] = drain[e]
    BY <1>0, <1>4 DEF ClaimSubmission, FirstInLine, Free, Busy, Is, eve, ChatTypeOK, Submission, Drain
  <1>5. ASSUME NEW d \in Drains, Held(d)'
        PROVE  \/ Held(d) /\ drain'[d] = drain[d]
               \/ Held(d) /\ EveTakes(d) /\ drain'[d].pc = "taken"
               \/ ClaimSubmission(d, s)
    <2>1. CASE EveTakes(d) /\ drain'[d] = [drain[d] EXCEPT !.pc = "taken"]
      BY <1>0, <1>5, <2>1 DEF EveTakes, Busy, DrainsTyped, Drain
    <2> QED
      BY <1>0, <1>5, <2>1, PassageDeeds DEF Busy
  <1>6. ASSUME copies'[s] # copies[s]
        PROVE  \E d \in Drains : EveTakes(d) /\ Held(d) /\ drain[d].pc = "sending"
    BY <1>0, <1>6, CopyDeeds DEF Busy
  <1> HIDE DEF Waiting
  <1>7. ASSUME (Is(s, "absent")' /\ kept') \/ Is(s, "PENDING")'
        PROVE  copies'[s] = 0 /\ \A d \in Drains : ~Held(d)'
    <2>1. Waiting
      BY <1>3, <1>7
    <2>2. copies'[s] = copies[s]
      BY <1>2, <1>6, <2>1
    <2>3. \A d \in Drains : ~Held(d)'
      BY <1>2, <1>4, <1>5, <1>7, <2>1
    <2> QED
      BY <1>2, <2>1, <2>2, <2>3
  <1>8. ASSUME NEW d \in Drains, NEW e \in Drains, Held(d)', Held(e)' PROVE d = e
    <2>1. CASE ClaimSubmission(d, s)
      <3>1. \A f \in Drains : ~Held(f)
        BY <1>2, <1>4, <2>1
      <3>2. ClaimSubmission(e, s)
        BY <1>5, <1>8, <3>1
      <3> QED
        BY <1>4, <1>8, <2>1, <3>2 DEF Busy
    <2>2. CASE ClaimSubmission(e, s)
      <3>1. \A f \in Drains : ~Held(f)
        BY <1>2, <1>4, <2>2
      <3>2. ClaimSubmission(d, s)
        BY <1>5, <1>8, <3>1
      <3> QED
        BY <1>4, <1>8, <2>2, <3>2 DEF Busy
    <2>3. CASE Held(d) /\ Held(e)
      BY <1>2, <2>3
    <2> QED
      BY <1>5, <1>8, <2>1, <2>2, <2>3
  <1>9. ASSUME NEW d \in Drains, drain'[d].pc = "sending", drain'[d].sub = s PROVE copies'[s] = 0
    <2>1. Held(d)'
      BY <1>9 DEF Busy
    <2>2. CASE ClaimSubmission(d, s)
      BY <1>2, <1>4, <2>2
    <2>3. CASE Held(d) /\ drain'[d] = drain[d]
      <3>1. copies[s] = 0
        BY <1>2, <1>9, <2>3
      <3>2. ASSUME NEW e \in Drains, EveTakes(e), Held(e) PROVE FALSE
        <4>1. e = d
          BY <1>2, <2>3, <3>2
        <4> QED
          BY <1>0, <1>9, <3>2, <4>1 DEF EveTakes, DrainsTyped, Drain
      <3> QED
        BY <1>6, <3>1, <3>2
    <2> QED
      BY <1>5, <1>9, <2>1, <2>2, <2>3
  <1> QED
    BY <1>7, <1>8, <1>9

LEMMA CausesStay == ChatInv /\ [ChatNext]_chatVars => RepeatsHaveCause'
  <1> SUFFICES ASSUME ChatInv, [ChatNext]_chatVars, NEW s \in Subs, copies'[s] > 1, s \notin doubt'
               PROVE  FALSE
    BY DEF RepeatsHaveCause
  <1>0. ChatTypeOK /\ ClaimedOnce /\ RepeatsHaveCause
    BY DEF ChatInv
  <1>1. s \notin doubt
    BY <1>0, ReachedStays
  <1>2. copies'[s] # copies[s]
    BY <1>0, <1>1 DEF RepeatsHaveCause
  <1> QED
    BY <1>0, <1>1, <1>2, CopyDeeds DEF ClaimedOnce

LEMMA AnswersStayRecorded == ChatInv /\ [ChatNext]_chatVars => AnswersRecorded'
  <1> SUFFICES ASSUME ChatInv, [ChatNext]_chatVars, NEW s \in Subs, sub'[s].answers # 0
               PROVE  sub'[s].answers \in recorded'
    BY DEF AnswersRecorded
  <1>1. sub'[s].answers \in recorded
    BY RowDeeds DEF ChatInv, AnswersRecorded
  <1>2. ~RemoveChat
    BY DEF RemoveChat, NoSubmission
  <1>3. recorded \subseteq recorded'
    BY <1>2 DEF ChatNext, chatVars, chat, eve, past, Submit, AnswerQuestion, Draining, ClaimSubmission,
           Recover, AgentStops, EveStep, SessionStarted, SessionWaits, TurnEnds, Ask, MessageReceived,
           Delivery, EveTakes, SendReturns, SendThrows, Asking, ShowQuestion
  <1> QED
    BY <1>1, <1>3

LEMMA ChatInvStays == ChatInv /\ [ChatNext]_chatVars => ChatInv'
  BY ChatTypes, RowsStayInLine, TakenStaysClaimed, LineStaysReached, ClaimsStayOnce,
     AnswersStayRecorded, OrderStays, CausesStay DEF ChatInv

-----------------------------------------------------------------------------
(* What holds of every chat, whatever the numbers of drains, attempts,      *)
(* questions and crashes.                                                   *)

THEOREM ChatInvariant == ChatSpec => []ChatInv
  <1>1. ChatInit => ChatInv
    BY ChatStarts
  <1>2. ChatInv /\ [ChatNext]_chatVars => ChatInv'
    BY ChatInvStays
  <1> QED
    BY <1>1, <1>2, PTL DEF ChatSpec

\* The rows, the passages and the session of a chat have their types.
THEOREM ChatTyped == ChatSpec => []ChatTypeOK
  BY ChatInvariant, PTL DEF ChatInv

\* Messages reach the builder in the order they were sent, or were given up.
THEOREM MessagesInOrder == ChatSpec => []InOrder
  BY ChatInvariant, PTL DEF ChatInv

\* A message reaches the builder twice only after a send threw or its lease
\* ran out.
THEOREM NoCauselessRepeat == ChatSpec => []RepeatsHaveCause
  BY ChatInvariant, PTL DEF ChatInv

\* A question that was answered does not come back: what is shown next is
\* newer than everything recorded, and an answer is to something recorded.
THEOREM AnsweredStaysGone == ChatSpec => AnsweredIsGone
  <1> DEFINE Gone == \A s \in Subs :
                sub[s].answers # 0 /\ copies[s] > 0 /\ question # sub[s].answers =>
                   question' # sub[s].answers
  <1>1. ChatInv /\ [ChatNext]_chatVars => [Gone]_chatVars
    <2> SUFFICES ASSUME ChatInv, [ChatNext]_chatVars, NEW s \in Subs,
                        sub[s].answers # 0, question # sub[s].answers, question' = sub[s].answers
                 PROVE  FALSE
      OBVIOUS
    <2>0. sub[s].answers \in recorded /\ recorded \subseteq 1 .. asked /\ asked \in Nat
      BY DEF ChatInv, AnswersRecorded, ChatTypeOK
    <2>1. ASSUME NEW q \in 1 .. MaxAsks, ShowQuestion(q) PROVE FALSE
      BY <2>0, <2>1 DEF ShowQuestion
    <2>2. CASE UNCHANGED question \/ question' = 0
      BY <2>2
    <2> QED
      BY <2>1, <2>2 DEF ChatNext, chatVars, chat, eve, past, Submit, AnswerQuestion, RemoveChat, Draining,
         ClaimSubmission, Recover, AgentStops, EveStep, SessionStarted, SessionWaits, TurnEnds, Ask,
         MessageReceived, Delivery, EveTakes, SendReturns, SendThrows, Asking
  <1> QED
    BY <1>1, ChatInvariant, PTL DEF ChatSpec, AnsweredIsGone

-----------------------------------------------------------------------------
(* The mailboxes.                                                           *)

Row == [rid : 0 .. of.rows, held : BOOLEAN, cursor : 0 .. None,
        status : {"IDLE", "RUNNING", "FAILED", "NEEDS_RECONNECT"}]

Pass == [pc : {"idle", "listed", "claimed", "got", "begun", "fetched"}, tick : BOOLEAN,
         listed : Nat, rid : Nat, cursor : 0 .. None, next : 0 .. Keep, todo : SUBSET Nat]

Reading(p) == p.pc \in {"got", "begun", "fetched"}

\* Positions never go back, and a position is at most the number of messages:
\* those the code reads stay below the marks None and Keep.
ProviderInv ==
    /\ of \in Instances
    /\ at \in Seq(1 .. MaxMail) /\ Len(at) <= of.mail
    /\ \A i \in Messages : at[i] <= i
    /\ \A i, j \in Messages : i <= j => at[i] <= at[j]
    /\ work \subseteq Messages /\ stored \subseteq Messages /\ dropped \subseteq Messages
    /\ overlooked \subseteq Messages
    /\ floor \in 0 .. Now /\ first \in 0 .. Now /\ since \in 0 .. Now

\* Only a row that is there has an id, and no id is used twice.
RowInv ==
    /\ row \in Row /\ rows \in 0 .. of.rows /\ row.rid <= rows
    /\ row.rid = 0 => row = NoRow
    /\ row.cursor # None => row.cursor <= Now

PassInv(p) ==
    /\ p \in Pass
    /\ p.tick => p.listed > 0
    /\ p.rid <= rows
    /\ Reading(p) => p.rid > 0
    /\ p.cursor # None => p.cursor <= Now
    /\ p.pc \in {"got", "begun"} => p.next <= Now
    /\ p.pc = "fetched" => p.next <= Now \/ p.next = Keep
    /\ p.todo \subseteq Messages

FlagsTyped ==
    /\ scope \in BOOLEAN /\ looking \in BOOLEAN /\ revoking \in BOOLEAN
    /\ fresh \subseteq Syncs /\ upsets \in 0 .. of.upsets

\* What arrived after the watch began is handled, in ms, after the cursor c, or
\* was left behind by a settle.
Ahead(ms, c) ==
    \A m \in work : Awaited(m) => m \in ms \/ m \in After(c) \/ m \in overlooked

RowAhead == row.cursor # None => Ahead({}, row.cursor)

\* A pass has in hand what it listed and has not read; its settle leaves behind
\* only what it could not list.
PassAhead(p) ==
    /\ p.pc \in {"got", "begun"} /\ p.cursor # None => Ahead({}, p.cursor)
    /\ p.pc = "fetched" /\ p.next # Keep =>
          Ahead(p.todo \union Unlisted(p.cursor, p.next), p.next)

\* A pass that may still write the row read it after the row was created.
PassForward(p) ==
    Reading(p) /\ p.rid = row.rid => p.cursor >= first /\ p.next >= first

PassGood(p) == PassInv(p) /\ PassAhead(p) /\ PassForward(p)

MailInv ==
    /\ ProviderInv /\ RowInv /\ FlagsTyped /\ sync \in [Syncs -> Pass]
    /\ RowAhead /\ row.cursor >= first
    /\ \A s \in Syncs : PassGood(sync[s])

-----------------------------------------------------------------------------
\* The greatest of some bounded numbers.
LEMMA MaxOf ==
  ASSUME NEW n \in Nat, NEW S \in SUBSET (0 .. n), S # {}
  PROVE  Max(S) \in S /\ \A x \in S : x <= Max(S)
  <1> DEFINE R == OpToRel(<, Nat)
             T == {n - x : x \in S}
  <1>0. \A x \in S : x \in Nat /\ x <= n /\ n - x \in Nat
    OBVIOUS
  <1>1. T \subseteq Nat /\ T # {}
    BY <1>0
  <1>2. PICK t \in T : \A y \in T : ~(<<y, t>> \in R)
    <2>1. IsWellFoundedOn(R, Nat)
      BY NatLessThanWellFounded
    <2> HIDE DEF R, T
    <2> QED
      BY <1>1, <2>1, WFMin
  <1>3. PICK m \in S : t = n - m
    OBVIOUS
  <1>4. ASSUME NEW x \in S PROVE m >= x
    <2>1. n - x \in T /\ n - x \in Nat /\ t \in Nat
      BY <1>1
    <2>2. ~(n - x < t)
      BY <1>2, <2>1 DEF OpToRel
    <2> QED
      BY <1>3, <2>2
  <1>5. \E y \in S : \A x \in S : y >= x
    BY <1>4
  <1>6. Max(S) \in S /\ \A x \in S : Max(S) >= x
    BY <1>5 DEF Max
  <1> QED
    BY <1>6

\* The first n of a set of numbers: all of it when there are no more, and
\* each of them before all the others.
LEMMA FirstOnes ==
  ASSUME NEW n \in Nat, NEW b \in Nat, NEW S \in SUBSET (1 .. b)
  PROVE  /\ FirstOf(n, S) \subseteq S
         /\ Cardinality(S) <= n => FirstOf(n, S) = S
         /\ \A k \in FirstOf(n, S), m \in S \ FirstOf(n, S) : k < m
         /\ Cardinality(S) \in Nat
  <1> DEFINE Upto(m) == {k \in S : k <= m}
  <1>0. \A m \in S : m \in Nat
    OBVIOUS
  <1>1. IsFiniteSet(S)
    <2>1. IsFiniteSet(1 .. b)
      BY FS_Interval
    <2> QED
      BY <2>1, FS_Subset
  <1>2. \A m \in S : IsFiniteSet(Upto(m)) /\ Cardinality(Upto(m)) \in Nat /\ Cardinality(Upto(m)) <= Cardinality(S)
    BY <1>1, FS_Subset, FS_CardinalityType
  <1>3. Cardinality(S) \in Nat
    BY <1>1, FS_CardinalityType
  <1>4. ASSUME NEW k \in FirstOf(n, S), NEW m \in S \ FirstOf(n, S), m <= k PROVE FALSE
    <2>1. k \in S /\ m \in S /\ Cardinality(Upto(k)) <= n /\ ~(Cardinality(Upto(m)) <= n)
      BY DEF FirstOf
    <2>2. \A x \in Upto(m) : x \in Upto(k)
      <3> SUFFICES ASSUME NEW x \in S, x <= m PROVE x <= k
        OBVIOUS
      <3>1. x \in Nat /\ m \in Nat /\ k \in Nat
        BY <1>0, <2>1
      <3> QED
        BY <1>4, <3>1
    <2>3. Cardinality(Upto(m)) <= Cardinality(Upto(k))
      BY <1>2, <2>1, <2>2, FS_Subset
    <2> QED
      BY <1>2, <2>1, <2>3
  <1>5. \A k \in FirstOf(n, S), m \in S \ FirstOf(n, S) : k < m
    <2>1. FirstOf(n, S) \subseteq S
      BY DEF FirstOf
    <2>2. \A k \in FirstOf(n, S), m \in S \ FirstOf(n, S) : k \in Nat /\ m \in Nat /\ ~(m <= k)
      BY <1>0, <1>4, <2>1
    <2> QED
      BY <2>2
  <1>6. Cardinality(S) <= n => \A m \in S : Cardinality(Upto(m)) <= n
    BY <1>2, <1>3
  <1> QED
    BY <1>3, <1>5, <1>6 DEF FirstOf

-----------------------------------------------------------------------------
(* The positions, and what a plan leaves for the next pass.                 *)

LEMMA Positions ==
  ASSUME ProviderInv
  PROVE  /\ Now \in Nat /\ Now <= Len(at) /\ Len(at) \in Nat /\ Len(at) <= MaxMail
         /\ MaxMail \in Nat /\ None = MaxMail + 1 /\ Keep = MaxMail + 2
         /\ Messages = 1 .. Len(at)
         /\ \A m \in Messages : m \in Nat /\ at[m] \in Nat /\ at[m] <= Now /\ at[m] > 0
  <1>1. of.mail \in Nat /\ of.mail <= MaxMail /\ MaxMail \in Nat
    BY MailboxAssumption DEF ProviderInv, Instance
  <1>2. /\ Len(at) \in Nat /\ Len(at) <= MaxMail /\ Messages = 1 .. Len(at)
        /\ \A m \in Messages : at[m] \in Nat /\ at[m] > 0
    BY <1>1 DEF ProviderInv, Messages
  <1>3. CASE at = << >>
    BY <1>1, <1>2, <1>3 DEF Now, None, Keep
  <1>4. CASE at # << >>
    <2>1. Len(at) \in Messages /\ Now = at[Len(at)]
      BY <1>2, <1>4 DEF Now, ProviderInv
    <2>2. Now \in Nat /\ Now <= Len(at)
      BY <1>2, <2>1 DEF ProviderInv
    <2>3. \A m \in Messages : m \in Nat /\ m <= Len(at) /\ at[m] <= Now
      BY <1>2, <2>1 DEF ProviderInv
    <2> QED
      BY <1>1, <1>2, <2>2, <2>3 DEF None, Keep
  <1> QED
    BY <1>3, <1>4

\* A page is a part of what the provider has.
LEMMA WindowWithin ==
  ASSUME ProviderInv, NEW c
  PROVE  /\ After(c) \subseteq Messages /\ Window(c) \subseteq After(c)
         /\ source # "gmail" => Window(c) = After(c)
  <1>1. After(c) \subseteq Messages
    BY MailboxAssumption DEF After, ProviderInv, source, Instance
  <1>2. CASE source = "gmail"
    <2>1. After(c) \in SUBSET (1 .. Len(at)) /\ Len(at) \in Nat
      BY <1>1, Positions
    <2>2. FirstOf(HistoryPage, After(c)) \subseteq After(c)
      BY <2>1, FirstOnes, MailboxAssumption
    <2> QED
      BY <1>1, <1>2, <2>2 DEF Window
  <1> QED
    BY <1>1, <1>2 DEF Window

\* What a pass reads next was listed, its next cursor is not before the one it
\* started from, and what it leaves is after that, unless it could not list it.
LEMMA PlanCovers ==
  ASSUME ProviderInv, NEW c \in 0 .. None, source # "calendar" => c # None,
         c # None => c <= Now /\ Ahead({}, c)
  PROVE  /\ Plan(c).todo \subseteq Messages
         /\ Plan(c).next \in 0 .. Keep
         /\ Plan(c).next <= Now \/ Plan(c).next = Keep
         /\ Plan(c).next >= c \/ Plan(c).next >= Now
         /\ Plan(c).next # Keep =>
               Ahead(Plan(c).todo \union Unlisted(c, Plan(c).next), Plan(c).next)
  <1>0. /\ Now \in Nat /\ Len(at) \in Nat /\ MaxMail \in Nat /\ Now <= MaxMail
        /\ None = MaxMail + 1 /\ Keep = MaxMail + 2 /\ Messages = 1 .. Len(at)
        /\ \A m \in Messages : m \in Nat /\ at[m] \in Nat /\ at[m] <= Now
    BY Positions
  <1>1. c \in Nat /\ Batch \in Nat
    BY <1>0, MailboxAssumption
  <1>2. work \subseteq Messages /\ source \in {"gmail", "outlook", "calendar"}
    BY MailboxAssumption DEF ProviderInv, source, Instance
  <1>3. CASE source = "gmail"
    <2> DEFINE pending == Window(c) \ stored
    <2>1. pending \in SUBSET (1 .. Len(at)) /\ Window(c) \subseteq Messages
      BY <1>0, WindowWithin
    <2>2. /\ FirstOf(Batch, pending) \subseteq pending
          /\ Cardinality(pending) <= Batch => FirstOf(Batch, pending) = pending
          /\ Cardinality(pending) \in Nat
      BY <1>0, <1>1, <2>1, FirstOnes
    <2>3. /\ Plan(c).todo = FirstOf(Batch, pending)
          /\ Plan(c).next = IF Cardinality(pending) > Batch THEN c ELSE Now
      BY <1>3 DEF Plan, GmailPlan
    <2>4. c # None /\ c <= Now /\ Ahead({}, c)
      BY <1>3
    <2> HIDE DEF pending
    <2>5. CASE Cardinality(pending) > Batch
      <3>1. Plan(c).next = c
        BY <2>3, <2>5
      <3>2. Plan(c).todo \subseteq Messages
        BY <1>0, <2>1, <2>2, <2>3
      <3>3. Ahead(Plan(c).todo \union Unlisted(c, c), c)
        BY <2>4 DEF Ahead
      <3> QED
        BY <1>0, <1>1, <2>4, <3>1, <3>2, <3>3
    <2>6. CASE ~(Cardinality(pending) > Batch)
      <3>1. Plan(c).next = Now /\ Plan(c).todo = pending
        BY <1>1, <2>2, <2>3, <2>6
      <3>2. Ahead(pending \union Unlisted(c, Now), Now)
        <4> SUFFICES ASSUME NEW m \in work, Awaited(m), m \notin overlooked, m \notin pending
                     PROVE  m \in Unlisted(c, Now)
          BY DEF Ahead
        <4>1. m \in Messages /\ c < at[m] /\ at[m] <= Now
          BY <1>0, <1>1, <1>3, <2>4 DEF Ahead, After
        <4>2. m \notin Window(c)
          BY DEF pending, Awaited, Handled
        <4> QED
          BY <4>1, <4>2 DEF Unlisted
      <3>3. Plan(c).todo \subseteq Messages
        BY <1>0, <2>1, <3>1
      <3> QED
        BY <1>0, <3>1, <3>2, <3>3
    <2> QED
      BY <2>5, <2>6
  <1>4. CASE source = "outlook"
    <2> DEFINE seen == FirstOf(Batch, Window(c))
               read == {c} \union {at[m] : m \in seen}
    <2>1. Window(c) = {m \in Messages : at[m] >= c} /\ Window(c) \in SUBSET (1 .. Len(at))
      BY <1>0, <1>4, WindowWithin DEF After
    <2>2. seen \subseteq Window(c) /\ \A k \in seen, m \in Window(c) \ seen : k < m
      BY <1>0, <1>1, <2>1, FirstOnes
    <2>3. Plan(c).todo = seen /\ Plan(c).next = Max(read)
      BY <1>4 DEF Plan, OutlookPlan
    <2>4. c <= Now /\ Ahead({}, c)
      BY <1>4
    <2>5. read \in SUBSET (0 .. Now) /\ read # {}
      <3>1. c \in 0 .. Now /\ \A m \in Messages : at[m] \in 0 .. Now
        BY <1>0, <1>1, <2>4
      <3>2. seen \subseteq Messages
        BY <2>1, <2>2
      <3> HIDE DEF seen
      <3> QED
        BY <3>1, <3>2
    <2> HIDE DEF seen, read
    <2>6. Max(read) \in read /\ \A x \in read : x <= Max(read)
      BY <1>0, <2>5, MaxOf
    <2>7. Max(read) \in Nat /\ c <= Max(read) /\ Max(read) <= Now
      BY <1>0, <2>5, <2>6 DEF read
    <2>8. ASSUME NEW m \in Window(c) \ seen PROVE at[m] >= Max(read)
      <3>1. CASE Max(read) = c
        BY <2>1, <3>1
      <3>2. ASSUME NEW k \in seen, Max(read) = at[k] PROVE at[m] >= Max(read)
        <4>1. k \in Messages /\ m \in Messages /\ k < m
          BY <2>1, <2>2
        <4> QED
          BY <1>0, <3>2, <4>1 DEF ProviderInv
      <3> QED
        BY <2>6, <3>1, <3>2 DEF read
    <2>9. Ahead(seen \union Unlisted(c, Max(read)), Max(read))
      <3> SUFFICES ASSUME NEW m \in work, Awaited(m), m \notin seen, m \notin overlooked
                   PROVE  m \in After(Max(read))
        BY DEF Ahead
      <3>1. m \in Window(c)
        BY <1>4, <2>4, WindowWithin DEF Ahead
      <3>2. at[m] >= Max(read) /\ m \in Messages
        BY <2>1, <2>8, <3>1
      <3> QED
        BY <1>4, <3>2 DEF After
    <2> QED
      BY <1>0, <2>1, <2>2, <2>3, <2>7, <2>9
  <1>5. CASE source = "calendar"
    <2>1. Window(c) = {m \in Messages : c = None \/ at[m] > c} /\ Window(c) \in SUBSET (1 .. Len(at))
      BY <1>0, <1>5, WindowWithin DEF After
    <2>2. /\ FirstOf(Batch, Window(c)) \subseteq Window(c)
          /\ Cardinality(Window(c)) <= Batch => FirstOf(Batch, Window(c)) = Window(c)
          /\ Cardinality(Window(c)) \in Nat
      BY <1>0, <1>1, <2>1, FirstOnes
    <2>3. /\ Plan(c).todo = FirstOf(Batch, Window(c))
          /\ Plan(c).next = IF Cardinality(Window(c)) > Batch THEN Keep ELSE Now
      BY <1>5 DEF Plan, CalendarPlan
    <2>4. CASE Cardinality(Window(c)) > Batch
      BY <1>0, <1>1, <2>1, <2>2, <2>3, <2>4
    <2>5. CASE ~(Cardinality(Window(c)) > Batch)
      <3>1. Plan(c).next = Now /\ Plan(c).todo = Window(c)
        BY <1>1, <2>2, <2>3, <2>5
      <3>2. Ahead(Window(c) \union Unlisted(c, Now), Now)
        <4>1. \A m \in work : Awaited(m) => m \in Window(c) \/ m \in overlooked
          BY <1>2, <1>5, <2>1, WindowWithin DEF Ahead
        <4> QED
          BY <4>1 DEF Ahead
      <3>3. Plan(c).todo \subseteq Messages
        BY <1>0, <2>1, <3>1
      <3> QED
        BY <1>0, <3>1, <3>2, <3>3
    <2> QED
      BY <2>4, <2>5
  <1> QED
    BY <1>2, <1>3, <1>4, <1>5

-----------------------------------------------------------------------------
(* What every step leaves alone.                                            *)

LEMMA Starts ==
  ASSUME ProviderInv, NEW s \in Syncs, PassInv(sync[s]), Start(s)
  PROVE  /\ since' \in 0 .. Now /\ since' >= since /\ first' = first
         /\ row.rid = sync[s].rid => since' >= sync[s].next
  <1>1. /\ Now \in Nat /\ since \in 0 .. Now
        /\ sync[s].next \in Nat /\ sync[s].next <= Now
    BY Positions DEF Start, PassInv, Pass, ProviderInv
  <1>2. Max({since, sync[s].next}) \in {since, sync[s].next} /\
        \A x \in {since, sync[s].next} : x <= Max({since, sync[s].next})
    <2>1. {since, sync[s].next} \in SUBSET (0 .. Now) /\ {since, sync[s].next} # {}
      BY <1>1
    <2> QED
      BY <1>1, <2>1, MaxOf
  <1>3. CASE row.rid = sync[s].rid
    <2>1. since' = Max({since, sync[s].next}) /\ first' = first
      BY <1>3 DEF Start
    <2> QED
      BY <1>1, <1>2, <2>1
  <1>4. CASE row.rid # sync[s].rid
    BY <1>1, <1>4 DEF Start, Threw, history
  <1> QED
    BY <1>3, <1>4

\* Messages arrive, after all the others.
LEMMA Arrivals ==
  ASSUME ProviderInv, [Next]_vars
  PROVE  /\ of' = of
         /\ \/ at' = at /\ work' = work
            \/ \E p \in {Now, Now + 1} :
                  /\ Arrive /\ at' = Append(at, p) /\ p > 0
                  /\ p = Now => source = "outlook"
  <1>1. Now \in Nat
    BY Positions
  <1>2. CASE Arrive
    BY <1>1, <1>2 DEF Arrive
  <1>3. CASE UNCHANGED provider
    BY <1>3 DEF provider
  <1> QED
    BY <1>2, <1>3
    DEF Next, vars, provider, Expire, Work, ListDue, Claim, Get, NotConnected, MarkRunning, Start, Expired,
        Fetch, Store, Settle, SyncNow, Breaks, TokenRefused, ReadFails, StoreThrows, ProviderFails, Crash,
        RetryElapses, Grant, Look, Ensure, RemoveRow, RevokeTokens, PurgeSyncedData

LEMMA Grows ==
  ASSUME ProviderInv, [Next]_vars
  PROVE  /\ of' = of
         /\ \A m \in Messages : m \in Messages' /\ at'[m] = at[m]
         /\ \A m \in Messages' : m \notin Messages =>
               m > Len(at) /\ at'[m] >= Now /\ at'[m] = Now' /\ (source # "outlook" => at'[m] > Now)
         /\ Now' \in Nat /\ Now <= Now' /\ Now' <= Len(at')
         /\ at' \in Seq(1 .. MaxMail) /\ Len(at') <= of.mail /\ Len(at) <= Len(at')
         /\ work' \subseteq Messages' /\ \A m \in work' : m \in Messages => m \in work
  <1>1. /\ Now \in Nat /\ Now <= Len(at) /\ Len(at) \in Nat /\ Len(at) <= MaxMail /\ MaxMail \in Nat
        /\ Messages = 1 .. Len(at)
    BY Positions
  <1>2. of.mail \in Nat /\ of.mail <= MaxMail /\ at \in Seq(1 .. MaxMail) /\ Len(at) <= of.mail
        /\ work \subseteq Messages
    BY MailboxAssumption DEF ProviderInv, Instance
  <1>3. CASE at' = at /\ work' = work
    <2>1. Now' = Now /\ Messages' = Messages
      BY <1>3 DEF Now, Messages
    <2> QED
      BY <1>1, <1>2, <1>3, <2>1, Arrivals
  <1>4. ASSUME NEW p \in {Now, Now + 1}, Arrive, at' = Append(at, p), p > 0,
               p = Now => source = "outlook"
        PROVE  /\ \A m \in Messages : m \in Messages' /\ at'[m] = at[m]
               /\ \A m \in Messages' : m \notin Messages =>
                     m > Len(at) /\ at'[m] >= Now /\ at'[m] = Now' /\ (source # "outlook" => at'[m] > Now)
               /\ Now' \in Nat /\ Now <= Now' /\ Now' <= Len(at')
               /\ at' \in Seq(1 .. MaxMail) /\ Len(at') <= of.mail /\ Len(at) <= Len(at')
               /\ work' \subseteq Messages' /\ \A m \in work' : m \in Messages => m \in work
    <2>1. Len(at) < of.mail
      BY <1>4 DEF Arrive
    <2>2. p \in 1 .. MaxMail
      BY <1>1, <1>2, <1>4, <2>1
    <2>3. /\ at' \in Seq(1 .. MaxMail) /\ Len(at') = Len(at) + 1 /\ at'[Len(at) + 1] = p
          /\ \A i \in 1 .. Len(at) : at'[i] = at[i]
      BY <1>2, <1>4, <2>2
    <2>4. Messages' = 1 .. (Len(at) + 1)
      BY <2>3 DEF Messages
    <2>5. Now' = p
      BY <1>1, <2>3 DEF Now
    <2>6. work' = work \/ work' = work \union {Len(at) + 1}
      BY <1>4 DEF Arrive
    <2>7. work' \subseteq Messages' /\ \A m \in work' : m \in Messages => m \in work
      <3>1. Len(at) + 1 \in Messages' /\ Len(at) + 1 \notin Messages /\ Messages \subseteq Messages'
        BY <1>1, <2>4
      <3> QED
        BY <1>2, <2>6, <3>1
    <2>8. \A m \in Messages' : m \notin Messages => m = Len(at) + 1
      BY <1>1, <2>4
    <2> QED
      BY <1>1, <1>2, <1>4, <2>1, <2>3, <2>4, <2>5, <2>7, <2>8
  <1> QED
    BY <1>3, <1>4, Arrivals

\* What was handled stays so, and the watch does not begin earlier.
LEMMA Kept ==
  ASSUME ProviderInv, \A s \in Syncs : PassInv(sync[s]), [Next]_vars
  PROVE  /\ stored \union dropped \subseteq stored' \union dropped'
         /\ stored' \union dropped' \subseteq stored \union dropped \union Messages
         /\ overlooked \subseteq overlooked' /\ overlooked' \subseteq overlooked \union Messages
         /\ since' >= since /\ since' \in 0 .. Now
         /\ first' \in {first, Now}
         /\ floor' \in {floor, Now}
  <1>1. since \in Nat /\ Now \in Nat /\ since \in 0 .. Now /\ work \subseteq Messages
    BY Positions DEF ProviderInv
  <1> USE DEF provider, account, history
  <1>2. /\ stored \union dropped \subseteq stored' \union dropped'
        /\ stored' \union dropped' \subseteq stored \union dropped \union Messages
    BY <1>1 DEF Next, vars, Arrive, Expire, Work, ListDue, Claim, Get, NotConnected, MarkRunning, Start, Expired,
        Fetch, Store, Settle, SyncNow, Breaks, TokenRefused, ReadFails, StoreThrows, ProviderFails, Crash,
        RetryElapses, Grant, Look, Ensure, RemoveRow, RevokeTokens, PurgeSyncedData
  <1>6. overlooked \subseteq overlooked' /\ overlooked' \subseteq overlooked \union Messages
    <2>1. \A s \in Syncs : Unlisted(sync[s].cursor, sync[s].next) \subseteq Messages
      BY DEF Unlisted
    <2>2. ASSUME NEW s \in Syncs, Settle(s)
          PROVE  overlooked' \in {overlooked, overlooked \union Unlisted(sync[s].cursor, sync[s].next)}
      BY <2>2 DEF Settle
    <2>3. (\E s \in Syncs : Settle(s)) \/ overlooked' = overlooked
      BY DEF Next, vars, Arrive, Expire, Work, ListDue, Claim, Get, NotConnected, MarkRunning, Start, Expired,
          Fetch, Store, SyncNow, Breaks, TokenRefused, ReadFails, StoreThrows, ProviderFails, Crash,
          RetryElapses, Grant, Look, Ensure, RemoveRow, RevokeTokens, PurgeSyncedData
    <2> QED
      BY <2>1, <2>2, <2>3
  <1>3. floor' \in {floor, Now}
    BY DEF Next, vars, Arrive, Expire, Work, ListDue, Claim, Get, NotConnected, MarkRunning, Start, Expired,
        Fetch, Store, Settle, SyncNow, Breaks, TokenRefused, ReadFails, StoreThrows, ProviderFails, Crash,
        RetryElapses, Grant, Look, Ensure, RemoveRow, RevokeTokens, PurgeSyncedData
  <1>4. ASSUME NEW s \in Syncs, Start(s) PROVE since' >= since /\ since' \in 0 .. Now /\ first' = first
    BY <1>4, Starts
  <1>5. ASSUME Ensure PROVE since' >= since /\ since' \in 0 .. Now /\ first' \in {first, Now}
    <2>1. since' = since /\ first' \in {first, Now}
      BY <1>5 DEF Ensure
    <2> QED
      BY <1>1, <2>1
  <1>7. ASSUME NEW s \in Syncs, Threw(s) PROVE UNCHANGED history
    BY <1>7 DEF Threw
  <1>8. ASSUME NEW s \in Syncs, NEW r, FinishWith(s, r) PROVE UNCHANGED history
    BY <1>8 DEF FinishWith, Threw
  <1>9. ASSUME NEW s \in Syncs, Work(s) \/ SyncNow(s) \/ Breaks(s), ~Start(s) PROVE UNCHANGED history
    BY <1>7, <1>8, <1>9 DEF Work, ListDue, Claim, Get, NotConnected, MarkRunning, Expired, Fetch, Store, Settle,
       SyncNow, Breaks, TokenRefused, ReadFails, StoreThrows, ProviderFails, Crash
  <1>10. (\E s \in Syncs : Start(s)) \/ Ensure \/ (since' = since /\ first' = first)
    BY <1>9 DEF Next, vars, Arrive, Expire, RetryElapses, Grant, Look, RemoveRow, RevokeTokens, PurgeSyncedData
  <1>11. since' >= since /\ since' \in 0 .. Now /\ first' \in {first, Now}
    BY <1>1, <1>4, <1>5, <1>10
  <1> QED
    BY <1>2, <1>3, <1>6, <1>11, Zenon

\* What was ahead of a cursor stays so, or is handled.
LEMMA AheadStays ==
  ASSUME ProviderInv, \A s \in Syncs : PassInv(sync[s]), [Next]_vars,
         NEW c \in 0 .. None, c <= Now \/ (c = None /\ source = "calendar"), NEW ms, Ahead(ms, c)
  PROVE  Ahead(ms, c)'
  <1> SUFFICES ASSUME NEW m \in work', Awaited(m)', m \notin ms, m \notin overlooked'
               PROVE  m \in After(c)'
    BY DEF Ahead
  <1>a. at'[m] > since' /\ ~Handled(m)'
    BY DEF Awaited
  <1>0. /\ Now \in Nat /\ c \in Nat /\ since \in Nat /\ since' \in Nat /\ since' >= since
        /\ source' = source /\ source \in {"gmail", "outlook", "calendar"}
        /\ m \in Messages' /\ ~Handled(m)
    <2>1. Now \in Nat /\ None \in Nat /\ since \in 0 .. Now
      BY Positions DEF ProviderInv
    <2>2. source \in {"gmail", "outlook", "calendar"}
      BY MailboxAssumption DEF ProviderInv, source, Instance
    <2>3. source' = source /\ m \in Messages'
      BY Grows DEF source
    <2>4. ~Handled(m)
      BY <1>a, Kept DEF Handled
    <2> QED
      BY <2>1, <2>2, <2>3, <2>4, Kept
  <1>1. CASE m \in Messages
    <2>1. m \in work /\ at'[m] = at[m] /\ at[m] \in Nat
      BY <1>1, Grows, Positions
    <2>2. m \in After(c)
      <3>1. Awaited(m) /\ m \notin overlooked
        BY <1>0, <1>a, <2>1, Kept DEF Awaited
      <3> QED
        BY <2>1, <3>1 DEF Ahead
    <2> QED
      BY <1>0, <2>1, <2>2 DEF After
  <1>2. CASE m \notin Messages
    <2>1. at'[m] \in Nat /\ at'[m] >= Now /\ (source # "outlook" => at'[m] > Now)
      BY <1>0, <1>2, Grows
    <2> QED
      BY <1>0, <2>1 DEF After
  <1> QED
    BY <1>1, <1>2

\* What a page left out stays left out: what arrives later is listed after it.
LEMMA UnlistedStays ==
  ASSUME ProviderInv, [Next]_vars, NEW c \in 0 .. None, NEW n \in Nat
  PROVE  Unlisted(c, n) \subseteq Unlisted(c, n)'
  <1> SUFFICES ASSUME NEW m \in Unlisted(c, n) PROVE m \in Unlisted(c, n)'
    OBVIOUS
  <1>1. /\ m \in Messages /\ m \in Messages' /\ at'[m] = at[m] /\ c < at[m] /\ at[m] <= n
        /\ m \notin Window(c) /\ c \in Nat /\ at[m] \in Nat /\ m \in Nat /\ m <= Len(at) /\ Len(at) \in Nat
    BY Positions, Grows DEF Unlisted
  <1>2. source = "gmail" /\ source' = "gmail"
    <2>1. source \in {"gmail", "outlook", "calendar"} /\ source' = source
      BY Grows, MailboxAssumption DEF ProviderInv, source, Instance
    <2>2. source # "gmail" => m \in After(c)
      BY <1>1, <2>1 DEF After
    <2> QED
      BY <1>1, <2>1, <2>2, WindowWithin
  <1>3. {k \in After(c)' : k <= m} = {k \in After(c) : k <= m}
    <2>1. /\ After(c) = {k \in Messages : at[k] > c}
          /\ After(c)' = {k \in Messages' : at'[k] > c}
      BY <1>2 DEF After
    <2>2. \A k \in Messages' : k <= m => k \in Messages
      <3>1. ProviderInv /\ \A k \in Messages' : k \notin Messages => k > Len(at)
        BY Grows
      <3>2. \A k \in Messages' : k \in Nat
        BY Grows DEF Messages
      <3> QED
        BY <1>1, <3>1, <3>2
    <2>3. \A k \in Messages : k \in Messages' /\ at'[k] = at[k]
      BY Grows
    <2> QED
      BY <2>1, <2>2, <2>3
  <1>4. m \notin Window(c)'
    <2>1. m \in After(c) /\ m \notin FirstOf(HistoryPage, After(c))
      BY <1>1, <1>2 DEF After, Window
    <2>2. Window(c)' = FirstOf(HistoryPage, After(c)')
      BY <1>2 DEF Window
    <2> QED
      BY <1>3, <2>1, <2>2 DEF FirstOf
  <1> QED
    BY <1>1, <1>4 DEF Unlisted

LEMMA ProviderStays ==
  ASSUME ProviderInv, \A s \in Syncs : PassInv(sync[s]), [Next]_vars
  PROVE  ProviderInv'
  <1>0. /\ Now \in Nat /\ Len(at) \in Nat /\ Messages = 1 .. Len(at)
        /\ \A m \in Messages : m \in Nat /\ at[m] \in Nat /\ at[m] <= Now
        /\ Messages' = 1 .. Len(at')
    <2>1. at' \in Seq(1 .. MaxMail)
      BY Grows
    <2> QED
      BY <2>1, Positions DEF Messages
  <1>1. of' \in Instances /\ at' \in Seq(1 .. MaxMail) /\ Len(at') <= of'.mail /\ work' \subseteq Messages'
    BY Grows DEF ProviderInv
  <1>2. /\ \A i \in Messages' : at'[i] <= i
        /\ \A i, j \in Messages' : i <= j => at'[i] <= at'[j]
    <2>1. /\ \A i \in Messages : at[i] <= i
          /\ \A i, j \in Messages : i <= j => at[i] <= at[j]
      BY DEF ProviderInv
    <2>2. \/ at' = at
          \/ \E p \in {Now, Now + 1} : p > 0 /\ at' = Append(at, p)
      BY Arrivals
    <2>3. CASE at' = at
      BY <1>0, <2>1, <2>3 DEF Messages
    <2>4. ASSUME NEW p \in {Now, Now + 1}, p > 0, at' = Append(at, p)
          PROVE  /\ \A i \in Messages' : at'[i] <= i
                 /\ \A i, j \in Messages' : i <= j => at'[i] <= at'[j]
      <3>1. /\ Now <= Len(at) /\ Messages' = 1 .. (Len(at) + 1)
            /\ at'[Len(at) + 1] = p /\ \A i \in Messages : at'[i] = at[i]
        <4>1. at \in Seq(1 .. MaxMail)
          BY DEF ProviderInv
        <4> QED
          BY <1>0, <2>4, <4>1, Positions DEF Messages
      <3>2. p \in Nat /\ p <= Len(at) + 1 /\ \A i \in Messages : at[i] <= p
        BY <1>0, <3>1
      <3>3. \A i \in Messages' : i \in Messages \/ i = Len(at) + 1
        BY <1>0, <3>1
      <3>4. \A i \in Messages : ~(Len(at) + 1 <= i)
        BY <1>0
      <3> QED
        BY <1>0, <2>1, <3>1, <3>2, <3>3, <3>4
    <2> QED
      BY <2>2, <2>3, <2>4
  <1>3. stored' \subseteq Messages' /\ dropped' \subseteq Messages' /\ overlooked' \subseteq Messages'
    <2>1. /\ Messages \subseteq Messages' /\ stored \subseteq Messages /\ dropped \subseteq Messages
          /\ overlooked \subseteq Messages
      BY Grows DEF ProviderInv
    <2> QED
      BY <2>1, Kept
  <1>4. floor' \in 0 .. Now' /\ first' \in 0 .. Now' /\ since' \in 0 .. Now'
    <2>1. Now' \in Nat /\ Now <= Now' /\ floor \in 0 .. Now /\ first \in 0 .. Now
      BY Grows DEF ProviderInv
    <2>2. since' \in 0 .. Now /\ first' \in {first, Now} /\ floor' \in {floor, Now}
      BY Kept
    <2> QED
      BY <1>0, <2>1, <2>2
  <1> QED
    BY <1>1, <1>2, <1>3, <1>4 DEF ProviderInv

-----------------------------------------------------------------------------
(* What a step does to the row.                                             *)

Statuses == {"IDLE", "RUNNING", "FAILED", "NEEDS_RECONNECT"}

\* The row is written and stays the row of its connection; c is its new cursor.
Rewritten(c) == row.rid > 0 /\ row' \in Row /\ row'.rid = row.rid /\ row'.cursor = c

LEMMA ThrewDeeds ==
  ASSUME RowInv, NEW s \in Syncs, PassInv(sync[s]), Threw(s)
  PROVE  /\ row' = row \/ Rewritten(row.cursor)
         /\ Stop(s) /\ UNCHANGED history
  <1>1. row \in Row /\ (sync[s].tick => sync[s].listed > 0)
    BY DEF RowInv, PassInv
  <1>2. CASE sync[s].tick /\ row.rid = sync[s].listed
    <2>1. row' = [row EXCEPT !.status = "FAILED", !.held = FALSE] /\ row.rid > 0
      BY <1>1, <1>2 DEF Threw, Write
    <2>2. 0 \in 0 .. None
      BY MailboxAssumption DEF None
    <2> QED
      BY <1>1, <2>1, <2>2 DEF Rewritten, Row, Threw
  <1>3. CASE ~(sync[s].tick /\ row.rid = sync[s].listed)
    BY <1>3 DEF Threw
  <1> QED
    BY <1>2, <1>3

LEMMA SkippedDeeds ==
  ASSUME RowInv, NEW s \in Syncs, PassInv(sync[s]), Skipped(s)
  PROVE  /\ row' = row \/ Rewritten(row.cursor)
         /\ Stop(s)
  <1>1. row \in Row /\ (sync[s].tick => sync[s].listed > 0)
    BY DEF RowInv, PassInv
  <1>2. CASE sync[s].tick /\ row.rid = sync[s].listed
    <2>1. row' = [row EXCEPT !.held = FALSE] /\ row.rid > 0
      BY <1>1, <1>2 DEF Skipped, Write
    <2>2. 0 \in 0 .. None /\ "IDLE" \in Statuses
      BY MailboxAssumption DEF None, Statuses
    <2> QED
      BY <1>1, <2>1, <2>2 DEF Rewritten, Row, Skipped
  <1>3. CASE ~(sync[s].tick /\ row.rid = sync[s].listed)
    BY <1>3 DEF Skipped
  <1> QED
    BY <1>2, <1>3

LEMMA FinishDeeds ==
  ASSUME RowInv, NEW s \in Syncs, PassInv(sync[s]), Reading(sync[s]), NEW r \in Row, FinishWith(s, r),
         r.rid = row.rid
  PROVE  /\ \/ row' = row
            \/ Rewritten(row.cursor)
            \/ Rewritten(r.cursor) /\ row.rid = sync[s].rid
         /\ Stop(s) /\ UNCHANGED history
  <1>1. CASE row.rid = sync[s].rid
    <2>1. row' = r /\ Stop(s) /\ UNCHANGED history
      BY <1>1 DEF FinishWith, Write
    <2>2. sync[s].rid > 0
      BY DEF PassInv
    <2> QED
      BY <1>1, <2>1, <2>2 DEF Rewritten
  <1>2. CASE row.rid # sync[s].rid
    <2>1. Threw(s)
      BY <1>2 DEF FinishWith
    <2> QED
      BY <2>1, ThrewDeeds
  <1> QED
    BY <1>1, <1>2

\* The cursor of a row moves by a start, a settle or an expiry; a new row has
\* a new id and no cursor.
LEMMA MailRowDeeds ==
  ASSUME ProviderInv, RowInv, \A s \in Syncs : PassInv(sync[s]), [Next]_vars
  PROVE  \/ /\ rows' = rows /\ first' = first
            /\ \/ row' = row \/ row' = NoRow
               \/ Rewritten(row.cursor) \/ Rewritten(None)
               \/ \E s \in Syncs : /\ Start(s) \/ (Settle(s) /\ sync[s].next # Keep)
                                   /\ row.rid = sync[s].rid /\ Rewritten(sync[s].next)
         \/ /\ rows < of.rows /\ rows' = rows + 1 /\ row = NoRow
            /\ row' = [NoRow EXCEPT !.rid = rows + 1] /\ first' = Now
  <1> DEFINE Same == rows' = rows /\ first' = first
             Plain == row' = row \/ row' = NoRow \/ Rewritten(row.cursor)
             Deed == \/ Plain \/ Rewritten(None)
                     \/ \E s \in Syncs : /\ Start(s) \/ (Settle(s) /\ sync[s].next # Keep)
                                         /\ row.rid = sync[s].rid /\ Rewritten(sync[s].next)
             New == /\ rows < of.rows /\ rows' = rows + 1 /\ row = NoRow
                    /\ row' = [NoRow EXCEPT !.rid = rows + 1] /\ first' = Now
  <1>0. /\ row \in Row /\ (row.rid = 0 => row = NoRow) /\ row.rid \in Nat
        /\ 0 \in 0 .. None /\ None \in 0 .. None /\ None \in Nat /\ "IDLE" \in Statuses
    BY MailboxAssumption DEF RowInv, Row, None, Statuses
  <1>w. ASSUME row.rid > 0, NEW c \in 0 .. None, NEW st \in Statuses
        PROVE  /\ row' = [row EXCEPT !.status = st, !.held = FALSE] => Rewritten(row.cursor)
               /\ row' = [row EXCEPT !.status = st, !.held = TRUE] => Rewritten(row.cursor)
               /\ row' = [row EXCEPT !.held = FALSE] => Rewritten(row.cursor)
               /\ row' = [row EXCEPT !.status = st] => Rewritten(row.cursor)
               /\ row' = [row EXCEPT !.cursor = c, !.status = st, !.held = FALSE] => Rewritten(c)
    BY <1>0, <1>w DEF Rewritten, Row, Statuses
  <1> USE DEF history, provider, account
  <1>1. ASSUME NEW s \in Syncs, ListDue(s) \/ SyncNow(s) \/ Fetch(s) \/ Store(s) \/ ReadFails(s) \/ Crash(s)
        PROVE  Same /\ Plain
    BY <1>1 DEF ListDue, SyncNow, Fetch, Store, ReadFails, Crash
  <1>2. ASSUME NEW s \in Syncs, Claim(s) PROVE Same /\ Plain
    <2>1. CASE row.rid = sync[s].listed /\ s \in fresh /\ Due(row)
      <3>1. row' = [row EXCEPT !.status = "RUNNING", !.held = TRUE] /\ row # NoRow
        BY <1>2, <2>1 DEF Claim, Write, Due
      <3>2. row.rid > 0
        BY <1>0, <3>1
      <3> QED
        BY <1>0, <1>2, <1>w, <3>1, <3>2 DEF Claim, Statuses
    <2>2. CASE ~(row.rid = sync[s].listed /\ s \in fresh /\ Due(row))
      BY <1>2, <2>2 DEF Claim
    <2> QED
      BY <2>1, <2>2
  <1>3. ASSUME NEW s \in Syncs, Get(s) \/ NotConnected(s) PROVE Same /\ Plain
    BY <1>3, SkippedDeeds DEF Get, NotConnected
  <1>4. ASSUME NEW s \in Syncs, MarkRunning(s) PROVE Same /\ Plain
    <2>1. CASE row.rid = sync[s].rid
      <3>1. row' = [row EXCEPT !.status = "RUNNING"] /\ row.rid > 0
        BY <1>4, <2>1 DEF MarkRunning, Write, PassInv, Reading
      <3> QED
        BY <1>0, <1>4, <1>w, <2>1, <3>1 DEF MarkRunning, Statuses
    <2>2. CASE row.rid # sync[s].rid
      BY <1>4, <2>2, ThrewDeeds DEF MarkRunning
    <2> QED
      BY <2>1, <2>2
  <1>5. ASSUME NEW s \in Syncs, StoreThrows(s) PROVE Same /\ Plain
    BY <1>5, ThrewDeeds DEF StoreThrows
  <1>6. ASSUME NEW s \in Syncs, TokenRefused(s) \/ ProviderFails(s) PROVE Same /\ Plain
    <2>1. Reading(sync[s]) /\ rows' = rows
      BY <1>6 DEF TokenRefused, ProviderFails, Reading
    <2>2. PICK st \in Statuses : \E w \in {[row EXCEPT !.status = st, !.held = FALSE],
                                         [row EXCEPT !.status = st, !.held = TRUE]} : FinishWith(s, w)
      BY <1>6 DEF TokenRefused, ProviderFails, Statuses
    <2>3. /\ \A w \in {[row EXCEPT !.status = st, !.held = FALSE], [row EXCEPT !.status = st, !.held = TRUE]} :
                w \in Row /\ w.rid = row.rid /\ w.cursor = row.cursor
      BY <1>0 DEF Row, Statuses
    <2>4. PICK w : FinishWith(s, w) /\ w \in Row /\ w.rid = row.rid /\ w.cursor = row.cursor
      BY <2>2, <2>3, Zenon
    <2> QED
      BY <2>1, <2>4, FinishDeeds
  <1>7. ASSUME NEW s \in Syncs, Expired(s) PROVE Same /\ Deed
    <2>1. Reading(sync[s]) /\ rows' = rows
      BY <1>7 DEF Expired, Reading
    <2> DEFINE w == [row EXCEPT !.cursor = None, !.status = "IDLE", !.held = FALSE]
    <2>2. FinishWith(s, w)
      BY <1>7 DEF Expired
    <2>3. w \in Row /\ w.rid = row.rid /\ w.cursor = None
      BY <1>0 DEF Row
    <2> HIDE DEF w
    <2> QED
      BY <2>1, <2>2, <2>3, FinishDeeds
  <1>8. ASSUME NEW s \in Syncs, Settle(s) PROVE Same /\ Deed
    <2>1. Reading(sync[s]) /\ rows' = rows /\ sync[s].next \in 0 .. Keep
      BY <1>8 DEF Settle, Reading, PassInv, Pass
    <2> DEFINE w == Settled(s, row)
    <2>2. FinishWith(s, w)
      BY <1>8 DEF Settle
    <2>3. CASE sync[s].next = Keep
      <3>1. w \in Row /\ w.rid = row.rid /\ w.cursor = row.cursor
        BY <1>0, <2>3 DEF Settled, Row
      <3> HIDE DEF w
      <3> QED
        BY <2>1, <2>2, <3>1, FinishDeeds
    <2>4. CASE sync[s].next # Keep
      <3>1. sync[s].next \in 0 .. None
        BY <2>1, <2>4, MailboxAssumption DEF Keep, None
      <3>2. w \in Row /\ w.rid = row.rid /\ w.cursor = sync[s].next
        BY <1>0, <2>4, <3>1 DEF Settled, Row
      <3> HIDE DEF w
      <3>3. row' = row \/ Rewritten(row.cursor) \/ (Rewritten(sync[s].next) /\ row.rid = sync[s].rid)
        BY <2>1, <2>2, <3>2, FinishDeeds
      <3>4. first' = first
        BY <2>1, <2>2, <3>2, FinishDeeds
      <3> QED
        BY <1>8, <2>1, <2>4, <3>3, <3>4
    <2> QED
      BY <2>3, <2>4
  <1>9. ASSUME NEW s \in Syncs, Start(s) PROVE Same /\ Deed
    <2>1. Reading(sync[s]) /\ rows' = rows /\ sync[s].next \in 0 .. None
      BY <1>9, Positions DEF Start, Reading, PassInv, Pass
    <2>2. CASE row.rid = sync[s].rid
      <3>1. /\ row' = [row EXCEPT !.cursor = sync[s].next, !.status = "RUNNING", !.held = FALSE]
            /\ row.rid > 0 /\ first' = first
        BY <1>9, <2>1, <2>2 DEF Start, Write, PassInv
      <3>2. Rewritten(sync[s].next)
        BY <1>w, <2>1, <3>1 DEF Statuses
      <3> QED
        BY <1>9, <2>1, <2>2, <3>1, <3>2
    <2>3. CASE row.rid # sync[s].rid
      BY <1>9, <2>1, <2>3, ThrewDeeds DEF Start
    <2> QED
      BY <2>2, <2>3
  <1>10. CASE RetryElapses
    <2>1. row' = [row EXCEPT !.held = FALSE] /\ row # NoRow
      BY <1>10 DEF RetryElapses, NoRow
    <2>2. row.rid > 0
      BY <1>0, <2>1
    <2> QED
      BY <1>0, <1>10, <1>w, <2>1, <2>2 DEF RetryElapses
  <1>11. CASE Ensure
    <2>1. CASE row = NoRow
      BY <1>11, <2>1 DEF Ensure, Write
    <2>2. CASE row # NoRow
      <3>1. row' = [row EXCEPT !.status = "IDLE", !.held = FALSE] /\ row.rid > 0
        BY <1>0, <1>11, <2>2 DEF Ensure, Write
      <3> QED
        BY <1>0, <1>11, <1>w, <2>2, <3>1 DEF Ensure
    <2> QED
      BY <2>1, <2>2
  <1>12. CASE RemoveRow
    BY <1>12 DEF RemoveRow, Write
  <1>13. CASE Arrive \/ Expire \/ Grant \/ Look \/ RevokeTokens \/ PurgeSyncedData \/ UNCHANGED vars
    BY <1>13 DEF Arrive, Expire, Grant, Look, RevokeTokens, PurgeSyncedData, vars
  <1> QED
    BY <1>1, <1>2, <1>3, <1>4, <1>5, <1>6, <1>7, <1>8, <1>9, <1>10, <1>11, <1>12, <1>13
    DEF Next, Work, Breaks

-----------------------------------------------------------------------------
(* What a step does to a pass.                                              *)

\* r is what a step of s may leave of pass s.
PassDeed(s, r) ==
    \/ r = Idle
    \/ row # NoRow /\ r = [Idle EXCEPT !.pc = "listed", !.tick = TRUE, !.listed = row.rid]
    \/ r = [sync[s] EXCEPT !.pc = "claimed"]
    \/ /\ row # NoRow
       /\ r = [sync[s] EXCEPT !.pc = "got", !.rid = row.rid, !.cursor = row.cursor, !.next = Now]
    \/ /\ sync[s].pc = "got"
       /\ r = [sync[s] EXCEPT !.pc = "begun", !.next = IF source = "gmail" THEN Now ELSE @]
    \/ /\ Fetch(s)
       /\ r = [sync[s] EXCEPT !.pc = "fetched", !.todo = Plan(sync[s].cursor).todo,
                              !.next = Plan(sync[s].cursor).next]
    \/ /\ sync[s].pc = "fetched"
       /\ \E m \in Messages : /\ m \in work => m \in stored' \union dropped'
                              /\ r = [sync[s] EXCEPT !.todo = @ \ {m}]

LEMMA PassDeeds ==
  ASSUME [Next]_vars, sync \in [Syncs -> Pass]
  PROVE  \/ sync' = sync
         \/ \E s \in Syncs : \E r : PassDeed(s, r) /\ sync' = [sync EXCEPT ![s] = r]
  <1> DEFINE P == \/ sync' = sync
                  \/ \E s \in Syncs : \E r : PassDeed(s, r) /\ sync' = [sync EXCEPT ![s] = r]
  <1>1. ASSUME NEW s \in Syncs, Stop(s) PROVE P
    <2>1. sync' = [sync EXCEPT ![s] = Idle] /\ PassDeed(s, Idle)
      BY <1>1 DEF Stop, PassDeed
    <2> QED
      BY <2>1
  <1>2. ASSUME NEW s \in Syncs, NEW r, FinishWith(s, r) \/ Threw(s) \/ Skipped(s) PROVE Stop(s)
    BY <1>2 DEF FinishWith, Threw, Skipped
  <1>3. ASSUME NEW s \in Syncs, ListDue(s) PROVE P
    <2> DEFINE r == [Idle EXCEPT !.pc = "listed", !.tick = TRUE, !.listed = row.rid]
    <2>1. sync' = [sync EXCEPT ![s] = r] /\ PassDeed(s, r)
      BY <1>3, Zenon DEF ListDue, Due, PassDeed
    <2> QED
      BY <2>1, Zenon
  <1>4. ASSUME NEW s \in Syncs, Claim(s) \/ SyncNow(s) PROVE P
    <2> DEFINE r == [sync[s] EXCEPT !.pc = "claimed"]
    <2>1. CASE sync' = [sync EXCEPT ![s] = r]
      <3>1. PassDeed(s, r)
        BY DEF PassDeed
      <3> QED
        BY <2>1, <3>1, Zenon
    <2>2. Stop(s) \/ sync' = [sync EXCEPT ![s] = r]
      BY <1>4, Zenon DEF Claim, SyncNow
    <2> QED
      BY <1>1, <2>1, <2>2
  <1>5. ASSUME NEW s \in Syncs, Get(s) PROVE P
    <2> DEFINE r == [sync[s] EXCEPT !.pc = "got", !.rid = row.rid, !.cursor = row.cursor, !.next = Now]
    <2>1. CASE row = NoRow
      BY <1>1, <1>2, <1>5, <2>1 DEF Get
    <2>2. CASE row # NoRow
      <3>1. sync' = [sync EXCEPT ![s].pc = "got", ![s].rid = row.rid, ![s].cursor = row.cursor, ![s].next = Now]
        BY <1>5, <2>2 DEF Get
      <3>2. sync' = [sync EXCEPT ![s] = r]
        BY <3>1
      <3>3. PassDeed(s, r)
        BY <2>2, Zenon DEF PassDeed
      <3> QED
        BY <3>2, <3>3, Zenon
    <2> QED
      BY <2>1, <2>2
  <1>6. ASSUME NEW s \in Syncs, MarkRunning(s) PROVE P
    <2> DEFINE r == [sync[s] EXCEPT !.pc = "begun", !.next = IF source = "gmail" THEN Now ELSE @]
    <2>1. CASE row.rid = sync[s].rid
      <3>1. sync' = [sync EXCEPT ![s].pc = "begun", ![s].next = IF source = "gmail" THEN Now ELSE @]
            /\ sync[s].pc = "got"
        BY <1>6, <2>1 DEF MarkRunning
      <3>2. sync' = [sync EXCEPT ![s] = r]
        BY <3>1
      <3>3. PassDeed(s, r)
        BY <3>1, Zenon DEF PassDeed
      <3> QED
        BY <3>2, <3>3, Zenon
    <2>2. CASE row.rid # sync[s].rid
      BY <1>1, <1>2, <1>6, <2>2 DEF MarkRunning
    <2> QED
      BY <2>1, <2>2
  <1>7. ASSUME NEW s \in Syncs, Fetch(s) PROVE P
    <2> DEFINE plan == Plan(sync[s].cursor)
               r == [sync[s] EXCEPT !.pc = "fetched", !.todo = plan.todo, !.next = plan.next]
    <2>1. sync' = [sync EXCEPT ![s].pc = "fetched", ![s].todo = plan.todo, ![s].next = plan.next]
      BY <1>7 DEF Fetch
    <2>2. sync' = [sync EXCEPT ![s] = r]
      BY <2>1
    <2>3. PassDeed(s, r)
      BY <1>7, Zenon DEF PassDeed
    <2> QED
      BY <2>2, <2>3, Zenon
  <1>8. ASSUME NEW s \in Syncs, Store(s) \/ ReadFails(s) PROVE P
    <2>1. PICK m \in Messages : /\ sync' = [sync EXCEPT ![s].todo = @ \ {m}]
                                /\ sync[s].pc = "fetched"
                                /\ m \in work => m \in stored' \union dropped'
      BY <1>8 DEF Store, ReadFails, Done
    <2> DEFINE r == [sync[s] EXCEPT !.todo = @ \ {m}]
    <2>2. sync' = [sync EXCEPT ![s] = r]
      BY <2>1
    <2>3. PassDeed(s, r)
      BY <2>1, Zenon DEF PassDeed
    <2> QED
      BY <2>2, <2>3, Zenon
  <1>9. ASSUME NEW s \in Syncs, Start(s) \/ Expired(s) \/ Settle(s) \/ NotConnected(s) \/ TokenRefused(s)
                   \/ StoreThrows(s) \/ ProviderFails(s) \/ Crash(s)
        PROVE  P
    <2>1. Stop(s)
      BY <1>2, <1>9 DEF Start, Expired, Settle, NotConnected, TokenRefused, StoreThrows, ProviderFails, Crash
    <2> QED
      BY <1>1, <2>1
  <1>10. CASE UNCHANGED sync
    BY <1>10
  <1> QED
    BY <1>3, <1>4, <1>5, <1>6, <1>7, <1>8, <1>9, <1>10
    DEF Next, vars, Work, Breaks, Arrive, Expire, RetryElapses, Grant, Look, Ensure, RemoveRow, RevokeTokens,
        PurgeSyncedData

-----------------------------------------------------------------------------
(* The parts of the invariant.                                              *)

\* Whatever others do, what is true of a pass that rests stays true.
LEMMA PassLasts ==
  ASSUME MailInv, [Next]_vars, NEW p, PassGood(p)
  PROVE  PassGood(p)'
  <1>0. /\ ProviderInv /\ RowInv /\ \A s \in Syncs : PassInv(sync[s])
        /\ p \in Pass /\ PassInv(p) /\ PassAhead(p) /\ PassForward(p)
    BY DEF MailInv, PassGood, PassInv
  <1>1. /\ Now \in Nat /\ Now' \in Nat /\ Now <= Now' /\ Now <= MaxMail /\ MaxMail \in Nat
        /\ None = MaxMail + 1 /\ Keep = MaxMail + 2
        /\ \A m \in Messages : m \in Messages'
        /\ first \in 0 .. Now
    BY <1>0, Positions, Grows DEF ProviderInv
  <1>2. /\ p.cursor \in Nat /\ p.next \in Nat /\ p.rid \in Nat /\ rows \in Nat /\ row.rid \in Nat
        /\ p.cursor \in 0 .. None /\ p.next \in 0 .. Keep
        /\ row.rid <= rows
    BY <1>0, <1>1, MailboxAssumption DEF Pass, RowInv, Row
  <1>3. \/ rows' = rows /\ first' = first /\ (row'.rid = row.rid \/ row'.rid = 0)
        \/ rows' = rows + 1 /\ row'.rid = rows + 1
    <2>1. NoRow.rid = 0 /\ [NoRow EXCEPT !.rid = rows + 1].rid = rows + 1
      BY DEF NoRow
    <2> QED
      BY <1>0, <2>1, MailRowDeeds DEF Rewritten
  <1>4. PassInv(p)'
    <2>1. rows <= rows'
      BY <1>2, <1>3
    <2>2. p.rid <= rows' /\ (p.cursor # None => p.cursor <= Now')
          /\ (p.pc \in {"got", "begun"} => p.next <= Now')
          /\ (p.pc = "fetched" => p.next <= Now' \/ p.next = Keep)
          /\ \A m \in p.todo : m \in Messages'
      <3>1. rows' \in Nat
        BY <1>2, <1>3
      <3> QED
        BY <1>0, <1>1, <1>2, <2>1, <3>1 DEF PassInv
    <2> QED
      BY <1>0, <2>2 DEF PassInv, Reading
  <1>5. PassAhead(p)'
    <2>1. ASSUME p.pc \in {"got", "begun"} /\ p.cursor # None PROVE Ahead({}, p.cursor)'
      <3>1. p.cursor <= Now /\ Ahead({}, p.cursor)
        BY <1>0, <2>1 DEF PassInv, PassAhead
      <3> QED
        BY <1>0, <1>2, <3>1, AheadStays
    <2>2. ASSUME p.pc = "fetched" /\ p.next # Keep
          PROVE  Ahead(p.todo \union Unlisted(p.cursor, p.next), p.next)'
      <3>1. PICK ms : ms = p.todo \union Unlisted(p.cursor, p.next)
        OBVIOUS
      <3>2. p.next <= Now /\ Ahead(ms, p.next)
        BY <1>0, <2>2, <3>1 DEF PassInv, PassAhead
      <3>3. p.next \in 0 .. None
        BY <1>1, <1>2, <3>2
      <3>4. Ahead(ms, p.next)'
        BY <1>0, <3>2, <3>3, AheadStays
      <3>5. ms \subseteq p.todo \union Unlisted(p.cursor, p.next)'
        BY <1>0, <1>2, <3>1, UnlistedStays
      <3> QED
        BY <3>4, <3>5 DEF Ahead
    <2> QED
      BY <2>1, <2>2 DEF PassAhead
  <1>6. PassForward(p)'
    <2> SUFFICES ASSUME Reading(p), p.rid = row'.rid PROVE p.cursor >= first' /\ p.next >= first'
      BY DEF PassForward, Reading
    <2>1. p.rid > 0 /\ p.rid <= rows
      BY <1>0 DEF PassInv
    <2>2. row'.rid = row.rid /\ first' = first
      BY <1>2, <1>3, <2>1
    <2> QED
      BY <1>0, <2>2 DEF PassForward
  <1> QED
    BY <1>4, <1>5, <1>6 DEF PassGood

\* What a step leaves of the pass it moves.
LEMMA PassMoves ==
  ASSUME MailInv, [Next]_vars, NEW s \in Syncs, NEW r, PassDeed(s, r)
  PROVE  PassGood(r)'
  <1> DEFINE p == sync[s]
  <1>0. /\ ProviderInv /\ RowInv /\ \A t \in Syncs : PassInv(sync[t])
        /\ p \in Pass /\ PassInv(p) /\ PassAhead(p) /\ PassForward(p) /\ PassGood(p)
        /\ row \in Row /\ row.cursor >= first /\ RowAhead
    BY DEF MailInv, PassGood, PassInv, RowInv
  <1>1. /\ Now \in Nat /\ Now <= MaxMail /\ MaxMail \in Nat
        /\ None = MaxMail + 1 /\ Keep = MaxMail + 2
        /\ first \in 0 .. Now
    BY <1>0, Positions DEF ProviderInv
  <1>2. /\ p.cursor \in Nat /\ p.next \in Nat /\ p.rid \in Nat /\ rows \in Nat /\ row.rid \in Nat
        /\ p.cursor \in 0 .. None /\ p.next \in 0 .. Keep /\ row.cursor \in 0 .. None
        /\ row.rid <= rows
    BY <1>0, <1>1, MailboxAssumption DEF Pass, RowInv, Row
  <1> HIDE DEF p
  <1>a. ASSUME PassGood(r) PROVE PassGood(r)'
    BY <1>a, PassLasts
  <1>3. CASE r = Idle
    <2>1. Idle \in Pass
      BY <1>1 DEF Idle, Pass
    <2>2. PassGood(Idle)
      BY <1>1, <1>2, <2>1 DEF Idle, PassGood, PassInv, PassAhead, PassForward, Reading
    <2> QED
      BY <1>3, <1>a, <2>2
  <1>4. CASE row # NoRow /\ r = [Idle EXCEPT !.pc = "listed", !.tick = TRUE, !.listed = row.rid]
    <2>1. r \in Pass /\ r.listed = row.rid /\ r.pc = "listed" /\ r.rid = 0 /\ r.cursor = None /\ r.todo = {}
      <3>1. PICK n \in Nat : n = row.rid
        BY <1>2
      <3>2. r = [pc |-> "listed", tick |-> TRUE, listed |-> n, rid |-> 0, cursor |-> None, next |-> None,
                 todo |-> {}]
        BY <1>4, <3>1 DEF Idle
      <3>3. 0 \in Nat /\ None \in 0 .. None /\ None \in 0 .. Keep /\ {} \in SUBSET Nat
        BY <1>1
      <3> QED
        BY <3>1, <3>2, <3>3 DEF Pass
    <2>2. row.rid > 0
      BY <1>0, <1>2, <1>4 DEF RowInv
    <2>3. PassGood(r)
      BY <1>1, <1>2, <2>1, <2>2 DEF PassGood, PassInv, PassAhead, PassForward, Reading
    <2> QED
      BY <1>a, <2>3
  <1>5. CASE r = [p EXCEPT !.pc = "claimed"]
    <2>1. /\ r \in Pass /\ r.pc = "claimed" /\ r.listed = p.listed /\ r.rid = p.rid /\ r.tick = p.tick
          /\ r.cursor = p.cursor /\ r.todo = p.todo
      BY <1>0, <1>5 DEF Pass
    <2>2. PassGood(r)
      BY <1>0, <2>1 DEF PassGood, PassInv, PassAhead, PassForward, Reading
    <2> QED
      BY <1>a, <2>2
  <1>6. CASE /\ row # NoRow
             /\ r = [p EXCEPT !.pc = "got", !.rid = row.rid, !.cursor = row.cursor, !.next = Now]
    <2>1. /\ r \in Pass /\ r.pc = "got" /\ r.listed = p.listed /\ r.tick = p.tick /\ r.rid = row.rid
          /\ r.cursor = row.cursor /\ r.next = Now /\ r.todo = p.todo
      <3>1. PICK n \in Nat, c \in 0 .. None, x \in 0 .. Keep : n = row.rid /\ c = row.cursor /\ x = Now
        BY <1>1, <1>2
      <3>2. \A q \in Pass :
               LET w == [q EXCEPT !.pc = "got", !.rid = n, !.cursor = c, !.next = x]
               IN  /\ w \in Pass /\ w.pc = "got" /\ w.listed = q.listed /\ w.tick = q.tick /\ w.rid = n
                   /\ w.cursor = c /\ w.next = x /\ w.todo = q.todo
        BY DEF Pass
      <3> QED
        BY <1>0, <1>6, <3>1, <3>2
    <2>2. row.rid > 0 /\ (row.cursor # None => row.cursor <= Now /\ Ahead({}, row.cursor))
      BY <1>0, <1>2, <1>6 DEF RowInv, RowAhead
    <2>3. PassInv(r)
      BY <1>0, <1>1, <1>2, <2>1, <2>2 DEF PassInv, Reading
    <2>4. PassAhead(r) /\ PassForward(r)
      BY <1>0, <1>1, <2>1, <2>2 DEF PassAhead, PassForward
    <2> QED
      BY <1>a, <2>3, <2>4 DEF PassGood
  <1>7. CASE /\ p.pc = "got"
             /\ r = [p EXCEPT !.pc = "begun", !.next = IF source = "gmail" THEN Now ELSE @]
    <2>1. /\ r \in Pass /\ r.pc = "begun" /\ r.listed = p.listed /\ r.tick = p.tick /\ r.rid = p.rid
          /\ r.cursor = p.cursor /\ r.next \in {Now, p.next} /\ r.todo = p.todo
      <3>0. PICK x \in 0 .. Keep : x = IF source = "gmail" THEN Now ELSE p.next
        BY <1>1, <1>2
      <3>1. x \in {Now, p.next} /\ r = [p EXCEPT !.pc = "begun", !.next = x]
        BY <1>7, <3>0
      <3>2. \A q \in Pass :
               LET w == [q EXCEPT !.pc = "begun", !.next = x]
               IN  /\ w \in Pass /\ w.pc = "begun" /\ w.listed = q.listed /\ w.tick = q.tick /\ w.rid = q.rid
                   /\ w.cursor = q.cursor /\ w.next = x /\ w.todo = q.todo
        BY DEF Pass
      <3> QED
        BY <1>0, <3>1, <3>2
    <2>2. PassInv(r)
      BY <1>0, <1>1, <1>2, <1>7, <2>1 DEF PassInv, Reading
    <2>3. PassAhead(r) /\ PassForward(r)
      BY <1>0, <1>1, <1>7, <2>1 DEF PassAhead, PassForward, Reading
    <2> QED
      BY <1>a, <2>2, <2>3 DEF PassGood
  <1>8. CASE /\ Fetch(s)
             /\ r = [p EXCEPT !.pc = "fetched", !.todo = Plan(p.cursor).todo, !.next = Plan(p.cursor).next]
    <2>0. p.pc = "begun" /\ (source # "calendar" => p.cursor # None)
      BY <1>8 DEF Fetch, p
    <2>1. p.cursor # None => p.cursor <= Now /\ Ahead({}, p.cursor)
      BY <1>0, <2>0 DEF PassInv, PassAhead
    <2> DEFINE todo == Plan(p.cursor).todo
               next == Plan(p.cursor).next
    <2>2. /\ todo \subseteq Messages /\ next \in 0 .. Keep
          /\ next <= Now \/ next = Keep
          /\ next >= p.cursor \/ next >= Now
          /\ next # Keep => Ahead(todo \union Unlisted(p.cursor, next), next)
      BY <1>0, <1>2, <2>0, <2>1, PlanCovers
    <2> HIDE DEF todo, next
    <2>3. todo \in SUBSET Nat
      BY <1>0, <2>2, Positions
    <2>4. /\ r \in Pass /\ r.pc = "fetched" /\ r.listed = p.listed /\ r.tick = p.tick /\ r.rid = p.rid
          /\ r.cursor = p.cursor /\ r.next = next /\ r.todo = todo
      BY <1>0, <1>8, <2>2, <2>3 DEF Pass, todo, next
    <2>5. PassInv(r)
      BY <1>0, <2>0, <2>2, <2>4 DEF PassInv, Reading
    <2>6. PassAhead(r)
      BY <2>2, <2>4 DEF PassAhead
    <2>7. PassForward(r)
      BY <1>0, <1>1, <1>2, <2>0, <2>2, <2>4 DEF PassForward, Reading
    <2> QED
      BY <1>a, <2>5, <2>6, <2>7 DEF PassGood
  <1>9. ASSUME p.pc = "fetched", NEW m \in Messages, m \in work => m \in stored' \union dropped',
               r = [p EXCEPT !.todo = @ \ {m}]
        PROVE  PassGood(r)'
    <2>1. /\ r \in Pass /\ r.pc = "fetched" /\ r.listed = p.listed /\ r.tick = p.tick /\ r.rid = p.rid
          /\ r.cursor = p.cursor /\ r.next = p.next /\ r.todo = p.todo \ {m}
      BY <1>0, <1>9 DEF Pass
    <2>2. PICK q : q = p
      OBVIOUS
    <2>3. PassGood(q)'
      BY <1>0, <2>2, PassLasts
    <2>4. PassInv(r)'
      BY <1>9, <2>1, <2>2, <2>3 DEF PassGood, PassInv, Reading
    <2>5. PassForward(r)'
      BY <1>9, <2>1, <2>2, <2>3 DEF PassGood, PassForward, Reading
    <2>6. PassAhead(r)'
      <3> SUFFICES ASSUME r.next # Keep, NEW k \in work', Awaited(k)', k \notin overlooked'
                   PROVE  k \in r.todo \/ k \in Unlisted(r.cursor, r.next)' \/ k \in After(r.next)'
        BY <2>1 DEF PassAhead, Ahead
      <3>1. Ahead(q.todo \union Unlisted(q.cursor, q.next), q.next)'
        BY <1>9, <2>1, <2>2, <2>3 DEF PassGood, PassAhead
      <3>2. k \in q.todo \/ k \in Unlisted(q.cursor, q.next)' \/ k \in After(q.next)'
        BY <3>1 DEF Ahead
      <3>3. k # m
        BY <1>0, <1>9, Grows DEF Awaited, Handled
      <3>4. q.cursor = r.cursor /\ q.next = r.next /\ r.todo = q.todo \ {m}
        BY <2>1, <2>2
      <3> QED
        BY <3>2, <3>3, <3>4
    <2> QED
      BY <2>4, <2>5, <2>6 DEF PassGood
  <1> QED
    BY <1>3, <1>4, <1>5, <1>6, <1>7, <1>8, <1>9 DEF PassDeed, p

LEMMA PassesStay ==
  MailInv /\ [Next]_vars => (\A s \in Syncs : PassGood(sync[s]))' /\ sync' \in [Syncs -> Pass]
  <1> SUFFICES ASSUME MailInv, [Next]_vars
               PROVE  /\ \A s \in Syncs : PassGood(sync[s])'
                      /\ sync' \in [Syncs -> Pass]
    OBVIOUS
  <1>0. sync \in [Syncs -> Pass] /\ \A s \in Syncs : PassGood(sync[s])
    BY DEF MailInv
  <1>1. ASSUME NEW s \in Syncs, NEW r, PassDeed(s, r), sync' = [sync EXCEPT ![s] = r]
        PROVE  sync' \in [Syncs -> Pass]
    <2>1. PassGood(r)'
      BY <1>1, PassMoves
    <2>2. r \in Pass
      BY <2>1 DEF PassGood, PassInv
    <2> QED
      BY <1>0, <1>1, <2>2
  <1>2. sync' \in [Syncs -> Pass]
    BY <1>0, <1>1, PassDeeds
  <1>3. ASSUME NEW s \in Syncs PROVE PassGood(sync[s])'
    <2>1. PICK p : p = sync'[s]
      OBVIOUS
    <2>2. CASE p = sync[s]
      <3>1. PassGood(p)
        BY <1>0, <2>2
      <3> QED
        BY <2>1, <3>1, PassLasts DEF PassGood, PassInv, PassAhead, PassForward, Reading, Ahead
    <2>3. CASE PassDeed(s, p)
      BY <2>1, <2>3, PassMoves DEF PassGood, PassInv, PassAhead, PassForward, Reading, Ahead
    <2>4. p = sync[s] \/ PassDeed(s, p)
      BY <1>0, <2>1, PassDeeds
    <2> QED
      BY <2>2, <2>3, <2>4
  <1> QED
    BY <1>2, <1>3

LEMMA RowStays == MailInv /\ [Next]_vars => RowInv' /\ RowAhead' /\ row'.cursor >= first'
  <1> SUFFICES ASSUME MailInv, [Next]_vars PROVE RowInv' /\ RowAhead' /\ row'.cursor >= first'
    OBVIOUS
  <1> DEFINE Good == RowInv' /\ RowAhead' /\ row'.cursor >= first'
  <1>0. /\ ProviderInv /\ RowInv /\ RowAhead /\ row.cursor >= first
        /\ \A s \in Syncs : PassInv(sync[s]) /\ PassAhead(sync[s]) /\ PassForward(sync[s])
    BY DEF MailInv, PassGood
  <1>1. /\ Now \in Nat /\ Now' \in Nat /\ Now <= Now' /\ Now <= MaxMail /\ Now' <= MaxMail /\ MaxMail \in Nat
        /\ None = MaxMail + 1 /\ Keep = MaxMail + 2 /\ first \in 0 .. Now /\ first' \in 0 .. Now'
    <2>1. ProviderInv'
      BY <1>0, ProviderStays
    <2>2. of'.mail <= MaxMail /\ of'.mail \in Nat /\ Len(at') \in Nat
      BY <2>1, MailboxAssumption DEF ProviderInv, Instance
    <2>3. first' \in 0 .. Now' /\ Now' <= Len(at') /\ Len(at') <= of'.mail
      BY <1>0, <2>1, Grows DEF ProviderInv
    <2>4. Now \in Nat /\ Now <= MaxMail /\ MaxMail \in Nat /\ None = MaxMail + 1 /\ Keep = MaxMail + 2
      BY <1>0, Positions
    <2>5. Now' \in Nat /\ Now <= Now'
      BY <1>0, Grows
    <2>6. first \in 0 .. Now
      BY <1>0 DEF ProviderInv
    <2> QED
      BY <2>2, <2>3, <2>4, <2>5, <2>6
  <1>2. /\ row \in Row /\ Row' = Row /\ rows \in 0 .. of.rows /\ of' = of /\ row.rid <= rows
        /\ row.cursor \in Nat /\ row.rid \in Nat /\ rows \in Nat /\ of.rows \in Nat
        /\ row.cursor \in 0 .. None /\ NoRow \in Row /\ NoRow.rid = 0 /\ NoRow.cursor = None
    <2>1. row \in Row /\ of' = of /\ of.rows \in Nat /\ rows \in 0 .. of.rows /\ row.rid <= rows
      BY <1>0, Grows, MailboxAssumption DEF RowInv, ProviderInv, Instance
    <2>2. Row' = Row
      BY <2>1 DEF Row
    <2> QED
      BY <1>1, <2>1, <2>2 DEF Row, NoRow
  <1>3. ASSUME row' = row \/ Rewritten(row.cursor), rows' = rows, first' = first PROVE Good
    <2>1. /\ row' \in Row /\ row'.rid = row.rid /\ row'.cursor = row.cursor
          /\ row'.rid = 0 => row' = NoRow
      BY <1>0, <1>2, <1>3 DEF Rewritten, RowInv
    <2>2. row'.cursor # None => row'.cursor <= Now'
      BY <1>0, <1>1, <1>2, <2>1 DEF RowInv
    <2>3. RowInv'
      BY <1>2, <1>3, <2>1, <2>2 DEF RowInv
    <2>4. RowAhead'
      <3>1. PICK c \in 0 .. None : c = row.cursor
        BY <1>2
      <3>2. CASE c = None
        BY <2>1, <3>1, <3>2 DEF RowAhead, None
      <3>3. CASE c # None
        <4>1. Ahead({}, c)'
          BY <1>0, <3>1, <3>3, AheadStays DEF RowAhead, RowInv
        <4> QED
          BY <2>1, <3>1, <4>1 DEF RowAhead, Ahead
      <3> QED
        BY <3>2, <3>3
    <2> QED
      BY <1>0, <1>3, <2>1, <2>3, <2>4
  <1>4. ASSUME row' = NoRow \/ Rewritten(None), rows' = rows PROVE Good
    <2>1. row' \in Row /\ row'.cursor = None /\ row'.rid <= rows /\ (row'.rid = 0 => row' = NoRow)
      BY <1>2, <1>4 DEF Rewritten
    <2>2. RowInv' /\ RowAhead'
      BY <1>2, <1>4, <2>1 DEF RowInv, RowAhead, None
    <2> QED
      BY <1>1, <2>1, <2>2
  <1>5. ASSUME rows < of.rows, rows' = rows + 1, row' = [NoRow EXCEPT !.rid = rows + 1] PROVE Good
    <2>1. row' \in Row /\ row'.cursor = None /\ row'.rid = rows + 1
      <3>1. PICK n \in 0 .. of.rows : n = rows + 1
        BY <1>2, <1>5
      <3>2. row' = [rid |-> n, status |-> "IDLE", held |-> FALSE, cursor |-> None]
        BY <1>5, <3>1 DEF NoRow
      <3>3. None \in 0 .. None
        BY <1>1
      <3> QED
        BY <1>2, <3>1, <3>2, <3>3 DEF Row
    <2>2. RowInv' /\ RowAhead'
      BY <1>2, <1>5, <2>1 DEF RowInv, RowAhead, None
    <2> QED
      BY <1>1, <2>1, <2>2
  <1>6. ASSUME NEW s \in Syncs, Start(s) \/ (Settle(s) /\ sync[s].next # Keep), row.rid = sync[s].rid,
               Rewritten(sync[s].next), rows' = rows, first' = first
        PROVE  Good
    <2>1. PICK c : c = sync[s].next
      OBVIOUS
    <2>2. c \in Nat /\ c <= Now /\ c >= first /\ c \in 0 .. None
      <3>1. sync[s].next \in Nat /\ sync[s].next <= Now /\ Reading(sync[s])
        BY <1>0, <1>6 DEF Start, Settle, PassInv, Pass, Reading
      <3> QED
        BY <1>0, <1>1, <1>6, <2>1, <3>1 DEF PassForward
    <2>3. row' \in Row /\ row'.cursor = c /\ row'.rid = row.rid /\ row.rid > 0
      BY <1>6, <2>1 DEF Rewritten
    <2>4. RowInv'
      BY <1>1, <1>2, <1>6, <2>2, <2>3 DEF RowInv
    <2>5. Ahead({}, c)'
      <3>1. CASE Settle(s) /\ sync[s].next # Keep
        <4>1. PICK ms : ms = Unlisted(sync[s].cursor, sync[s].next)
          OBVIOUS
        <4>2. Ahead(ms, c)
          BY <1>0, <2>1, <3>1, <4>1 DEF Settle, PassAhead
        <4>3. Ahead(ms, c)'
          BY <1>0, <2>2, <4>2, AheadStays
        <4>4. ms \subseteq overlooked'
          BY <1>6, <3>1, <4>1 DEF Settle
        <4> QED
          BY <4>3, <4>4 DEF Ahead
      <3>2. CASE Start(s)
        <4>1. since' >= c /\ source # "calendar"
          BY <1>0, <1>6, <2>1, <3>2, Starts DEF Start
        <4>2. source' = source /\ source \in {"gmail", "outlook", "calendar"}
          BY <1>0, Grows, MailboxAssumption DEF source, ProviderInv, Instance
        <4>3. since' \in Nat /\ \A m \in work' : m \in Messages' /\ at'[m] \in Nat
          <5>1. ProviderInv'
            BY <1>0, ProviderStays
          <5>2. since' \in 0 .. Now' /\ work' \subseteq Messages' /\ at' \in Seq(1 .. MaxMail)
            BY <5>1 DEF ProviderInv
          <5> QED
            BY <1>1, <5>2 DEF Messages
        <4> QED
          BY <2>2, <4>1, <4>2, <4>3 DEF Ahead, After, Awaited
      <3> QED
        BY <1>6, <3>1, <3>2
    <2> QED
      BY <1>1, <1>6, <2>2, <2>3, <2>4, <2>5 DEF RowAhead, Ahead
  <1> QED
    BY <1>0, <1>3, <1>4, <1>5, <1>6, MailRowDeeds

LEMMA FlagsStay == MailInv /\ [Next]_vars => FlagsTyped'
  <1> SUFFICES ASSUME MailInv, [Next]_vars PROVE FlagsTyped'
    OBVIOUS
  <1>0. FlagsTyped /\ of' = of /\ of.rows \in Nat /\ of.upsets \in Nat
    BY Grows, MailboxAssumption DEF MailInv, ProviderInv, Instance
  <1> USE DEF provider, account, history
  <1>1. scope' \in BOOLEAN /\ looking' \in BOOLEAN /\ revoking' \in BOOLEAN
    <2>1. /\ scope' \in {TRUE, FALSE, scope} /\ looking' \in {TRUE, FALSE, looking}
          /\ revoking' \in {TRUE, FALSE, revoking}
      BY Zenon DEF Next, vars, Arrive, Expire, Work, ListDue, Claim, Get, NotConnected, MarkRunning, Start, Expired,
         Fetch, Store, Settle, SyncNow, Breaks, TokenRefused, ReadFails, StoreThrows, ProviderFails, Crash,
         RetryElapses, Grant, Look, Ensure, RemoveRow, RevokeTokens, PurgeSyncedData
    <2> QED
      BY <1>0, <2>1, Zenon DEF FlagsTyped
  <1>2. fresh' \subseteq Syncs
    <2>1. ASSUME NEW s \in Syncs, ListDue(s) PROVE fresh' = fresh \union {s}
      BY <2>1 DEF ListDue
    <2>2. ASSUME NEW s \in Syncs, NEW r, Threw(s) \/ Skipped(s) \/ FinishWith(s, r) PROVE fresh' \subseteq fresh
      BY <2>2 DEF Threw, Skipped, FinishWith, Write
    <2>3. ASSUME NEW s \in Syncs, NotConnected(s) \/ TokenRefused(s) \/ Expired(s) \/ StoreThrows(s)
                     \/ ProviderFails(s) \/ Settle(s)
          PROVE  fresh' \subseteq fresh
      BY <2>2, <2>3 DEF NotConnected, TokenRefused, Expired, StoreThrows, ProviderFails, Settle
    <2>4. ASSUME NEW s \in Syncs, Claim(s) \/ Get(s) \/ MarkRunning(s) \/ Start(s) \/ Fetch(s) \/ Store(s)
                     \/ SyncNow(s) \/ ReadFails(s) \/ Crash(s)
          PROVE  fresh' \subseteq fresh
      BY <2>2, <2>4 DEF Claim, Get, MarkRunning, Start, Fetch, Store, SyncNow, ReadFails, Crash, Write
    <2>5. CASE Arrive \/ Expire \/ RetryElapses \/ Grant \/ Look \/ Ensure \/ RemoveRow \/ RevokeTokens
               \/ PurgeSyncedData \/ UNCHANGED vars
      BY <1>0, <2>5 DEF FlagsTyped, vars, Arrive, Expire, RetryElapses, Grant, Look, Ensure, RemoveRow,
         RevokeTokens, PurgeSyncedData, Write
    <2> QED
      BY <1>0, <2>1, <2>3, <2>4, <2>5 DEF FlagsTyped, Next, Work, Breaks
  <1>3. upsets' \in 0 .. of.upsets
    <2>1. upsets' = upsets \/ Upset
      BY DEF Next, vars, Arrive, Expire, Work, ListDue, Claim, Get, NotConnected, MarkRunning, Start, Expired,
         Fetch, Store, Settle, SyncNow, Breaks, TokenRefused, ReadFails, StoreThrows, ProviderFails, Crash,
         RetryElapses, Grant, Look, Ensure, RemoveRow, RevokeTokens, PurgeSyncedData
    <2> QED
      BY <1>0, <2>1 DEF FlagsTyped, Upset
  <1> QED
    BY <1>0, <1>1, <1>2, <1>3 DEF FlagsTyped

LEMMA MailStarts == Init => MailInv
  <1> SUFFICES ASSUME Init PROVE MailInv
    OBVIOUS
  <1> USE MailboxAssumption DEF Init
  <1>0. /\ at = << >> /\ Len(at) = 0 /\ Messages = {} /\ Now = 0
        /\ of.mail \in Nat /\ of.rows \in Nat /\ of.upsets \in Nat /\ None \in 0 .. None /\ 0 \in 0 .. None
        /\ None \in 0 .. Keep /\ None >= 0
    BY DEF Messages, Now, Instance, None, Keep
  <1>1. ProviderInv
    BY <1>0 DEF ProviderInv
  <1>2. RowInv /\ RowAhead /\ row.cursor >= first
    BY <1>0 DEF RowInv, RowAhead, Row, NoRow
  <1>3. FlagsTyped
    <2>1. scope \in BOOLEAN /\ looking \in BOOLEAN /\ revoking \in BOOLEAN
      BY Zenon
    <2>2. fresh \subseteq Syncs /\ upsets \in 0 .. of.upsets
      BY <1>0
    <2> QED
      BY <2>1, <2>2 DEF FlagsTyped
  <1>4. Idle \in Pass /\ PassGood(Idle)
    <2>1. Idle \in Pass
      BY <1>0 DEF Idle, Pass
    <2> QED
      BY <1>0, <2>1 DEF Idle, PassGood, PassInv, PassAhead, PassForward, Reading
  <1>5. sync \in [Syncs -> Pass] /\ \A s \in Syncs : PassGood(sync[s])
    BY <1>4
  <1> QED
    BY <1>1, <1>2, <1>3, <1>5 DEF MailInv

-----------------------------------------------------------------------------
(* What holds of every mailbox, whatever the numbers of syncs, messages and *)
(* upsets and the size of a batch.                                          *)

THEOREM MailInvariant == Spec => []MailInv
  <1>1. Init => MailInv
    BY MailStarts
  <1>2. MailInv /\ [Next]_vars => MailInv'
    <2> SUFFICES ASSUME MailInv, [Next]_vars PROVE MailInv'
      OBVIOUS
    <2>1. ProviderInv /\ \A s \in Syncs : PassInv(sync[s])
      BY DEF MailInv, PassGood
    <2>2. ProviderInv'
      BY <2>1, ProviderStays
    <2>3. (\A s \in Syncs : PassGood(sync[s]))' /\ sync' \in [Syncs -> Pass]
      BY PassesStay
    <2>4. (sync \in [Syncs -> Pass])'
      <3>1. Pass' = Pass
        BY DEF Pass, None, Keep
      <3> QED
        BY <2>3, <3>1
    <2> QED
      BY <2>2, <2>3, <2>4, RowStays, FlagsStay DEF MailInv
  <1> QED
    BY <1>1, <1>2, PTL DEF Spec

\* The row, the passes and the messages of a mailbox have their types.
THEOREM MailTyped == Spec => []TypeOK
  <1>1. MailInv => TypeOK
    <2> SUFFICES ASSUME MailInv PROVE TypeOK
      OBVIOUS
    <2>1. ProviderInv /\ RowInv /\ FlagsTyped /\ sync \in [Syncs -> Pass] /\ \A s \in Syncs : PassInv(sync[s])
      BY DEF MailInv, PassGood
    <2>2. /\ Now \in Nat /\ Now <= MaxMail /\ MaxMail \in Nat /\ Len(at) <= MaxMail
          /\ floor \in 0 .. Now /\ first \in 0 .. Now /\ since \in 0 .. Now
      BY <2>1, Positions DEF ProviderInv
    <2>3. \A s \in Syncs :
             /\ sync[s].pc \in {"idle", "listed", "claimed", "got", "begun", "fetched"}
             /\ sync[s].cursor \in 0 .. None /\ sync[s].next \in 0 .. Keep
             /\ sync[s].todo \subseteq Messages
      BY <2>1 DEF PassInv, Pass
    <2>4. row \in [rid : 0 .. of.rows, held : BOOLEAN, cursor : 0 .. None,
                   status : {"IDLE", "RUNNING", "FAILED", "NEEDS_RECONNECT"}] /\ rows \in 0 .. of.rows
      BY <2>1 DEF RowInv, Row
    <2>5. scope \in BOOLEAN /\ looking \in BOOLEAN /\ revoking \in BOOLEAN /\ fresh \subseteq Syncs
          /\ upsets \in 0 .. of.upsets
      BY <2>1 DEF FlagsTyped
    <2>6. /\ of \in Instances /\ at \in Seq(1 .. MaxMail) /\ work \subseteq Messages
          /\ stored \subseteq Messages /\ dropped \subseteq Messages /\ overlooked \subseteq Messages
      BY <2>1 DEF ProviderInv
    <2>7. floor \in 0 .. MaxMail /\ first \in 0 .. MaxMail /\ since \in 0 .. MaxMail
      BY <2>2
    <2> QED
      BY <2>2, <2>3, <2>4, <2>5, <2>6, <2>7 DEF TypeOK
  <1> QED
    BY <1>1, MailInvariant, PTL

\* No cursor jumps over a message that its pass had listed: what arrived after the
\* watch began is stored, was passed over by name, is still after the row's cursor,
\* or lay past the page of the pass whose settle moved the cursor.
THEOREM NoMailMissed == Spec => []NothingMissed
  <1>1. MailInv => NothingMissed
    BY DEF MailInv, RowAhead, Ahead, NothingMissed, Awaited
  <1> QED
    BY <1>1, MailInvariant, PTL

\* A late sync of an earlier connection never settles its cursor on a new row.
THEOREM NeverBackwards == Spec => []ForwardOnly
  <1>1. MailInv => ForwardOnly
    BY DEF MailInv, ForwardOnly
  <1> QED
    BY <1>1, MailInvariant, PTL
=============================================================================
