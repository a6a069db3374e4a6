---------------------------- MODULE CompanyLane ----------------------------
(***************************************************************************)
(* The visible lane at work on companies: handlers that look a company up  *)
(* by its domain (apps/agent/agent/lib/brand.ts, handleDirect of           *)
(* lib/dispatch.ts), the rep who creates, renames or asks about a company  *)
(* (CompaniesService), and the sweep at sign-in that queues the companies  *)
(* nobody ever looked up (BackfillService).                                *)
(*                                                                         *)
(* The rows, the settling of a status, the stale-task sweep and time are   *)
(* those of ResearchLane: the lanes share the table and that code.  Here   *)
(* contact[s] is the enrichmentStatus of company s, and work[t][a] says    *)
(* whether a handler has attempt a of row t in hand.                       *)
(*                                                                         *)
(* A handler outlives its item's deadline and its lease (runDirect leaves  *)
(* it pending), so two attempts at a row may be at work at once.           *)
(***************************************************************************)
EXTENDS ResearchLane

CONSTANTS Domains,    \* the domains a rep may give a company
          Budgets     \* bounds: what may happen in a behaviour, see Budget

NoDomain == "no domain"

\* How often a rep asks or renames and a call or a process fails, the rows there
\* is place for, whether handlers are done before their lease, whether anybody
\* signs in, whether companies have a picture, and the key and the domain at first.
Budget == [requests : Nat, renames : Nat, failures : Nat, rows : SUBSET Tasks,
           prompt : BOOLEAN, pictured : BOOLEAN, signIns : BOOLEAN, keyed : BOOLEAN, domain : Domains \cup {NoDomain}]

ASSUME CompanyConstants ==
    /\ "brand" \in Kinds /\ NoDomain \notin Domains
    /\ Budgets \subseteq Budget

VARIABLES domain,     \* domain[s]: the column of company s
          foundFor,   \* history: the domain whose brand completed s last
          look,       \* look[t][a]: what that handler holds
          adding,     \* adding[s]: companyCreated is still to be called
          signIn,     \* signIn[s]: what the sign-in sweep knows about s
          key,        \* a Context.dev key is configured
          left,       \* what remains of the budget
          stranded    \* history: companies whose last hope a stop took away

companyVars == <<domain, foundFor, look, adding, signIn, key, left, stranded>>

Look   == [at : {"start", "read", "asking", "found", "settle", "end"},
           domain : Domains \cup {NoDomain},
           to : {"COMPLETE", "FAILED", "SKIPPED"}, anyStatus : BOOLEAN, retry : BOOLEAN]
NoLook == [at |-> "start", domain |-> NoDomain, to |-> "COMPLETE",
           anyStatus |-> FALSE, retry |-> FALSE]

CompanyTypeOK ==
    /\ LaneTypeOK
    /\ domain \in [Subjects -> Domains \cup {NoDomain}]
    /\ foundFor \in [Subjects -> Domains \cup {NoDomain}]
    /\ look \in [Tasks -> [Attempts -> Look]]
    /\ adding \in [Subjects -> BOOLEAN]
    /\ signIn \in [Subjects -> {"idle", "wanted", "missing"}]
    /\ key \in BOOLEAN
    /\ left \in Budget
    /\ stranded \subseteq Subjects

\* A company has just been created, with or without a domain; PENDING is the
\* default of the schema.
CompanyInit ==
    /\ LaneInit
    /\ left \in Budgets
    /\ domain = [s \in Subjects |-> left.domain]
    /\ foundFor = [s \in Subjects |-> NoDomain]
    /\ look = [t \in Tasks |-> [a \in Attempts |-> NoLook]]
    /\ adding = [s \in Subjects |-> TRUE]
    /\ signIn = [s \in Subjects |-> "idle"]
    /\ key = left.keyed
    /\ stranded = {}

\* Something fails: a call, a process.
Fails == left.failures > 0 /\ left' = [left EXCEPT !.failures = @ - 1]

-----------------------------------------------------------------------------
(* CompaniesService: create, update, enrich. *)

\* update with another domain, or with none any more: the record is PENDING
\* again.
Rename(s, d) ==
    /\ left.renames > 0 /\ ~adding[s] /\ d # domain[s]
    /\ left' = [left EXCEPT !.renames = @ - 1]
    /\ domain' = [domain EXCEPT ![s] = d]
    /\ adding' = [adding EXCEPT ![s] = TRUE]
    /\ WriteContact(s, "PENDING", request)
    /\ UNCHANGED <<task, work, settling, booking, sweep, crashes,
                   foundFor, look, signIn, key, stranded>>

\* companyCreated: the error of an enqueue is logged and swallowed.
Add(s) ==
    /\ adding[s] /\ adding' = [adding EXCEPT ![s] = FALSE]
    /\ \/ Booked("brand", s) /\ UNCHANGED <<task, left>>
       \/ (\E t \in left.rows : Enqueue(t, "brand", s)) /\ UNCHANGED left
       \/ Fails /\ UNCHANGED task
    /\ UNCHANGED <<record, work, settling, booking, sweep, request, crashes,
                   domain, foundFor, look, signIn, key, stranded>>

AskRead(s) ==
    /\ left.requests > 0 /\ left' = [left EXCEPT !.requests = @ - 1]
    /\ RequestRead(s)
    /\ UNCHANGED <<domain, foundFor, look, adding, signIn, key, stranded>>

\* companyRequested: the row, and one of the kind "company-profile" that may be
\* there already; the record is marked when either is new.
AskQueue(s) ==
    /\ request[s].pc = "read"
    /\ \E profile \in BOOLEAN :
          \/ /\ Booked("brand", s) /\ UNCHANGED task
             /\ request' = [request EXCEPT ![s] =
                              IF profile THEN [@ EXCEPT !.pc = "queued"] ELSE NoRequest]
          \/ \E t \in left.rows :
               /\ Enqueue(t, "brand", s)
               /\ request' = [request EXCEPT ![s].pc = "queued", ![s].row = t]
    /\ UNCHANGED <<record, work, settling, booking, sweep, crashes, companyVars>>

AskMark(s) == RequestMark(s) /\ UNCHANGED companyVars

KeySet == ~key /\ key' = TRUE
          /\ UNCHANGED <<vars, domain, foundFor, look, adding, signIn, left, stranded>>

-----------------------------------------------------------------------------
(* BackfillService at a sign-in: read the companies, read the open rows,     *)
(* insert what is missing.  Nothing locks the rows in between.               *)

\* Mutant: a company whose look-up failed is taken for done.
NeverSucceeded_mutant(s) == contact[s] = "PENDING"

NeverSucceeded(s) == contact[s] \in {"PENDING", "FAILED"}

\* Or it has no picture, and no row about it ended in the last thirty days.
NeedsArtwork(s) == ~left.pictured /\ \A t \in Tasks : Finished(t) => task[t].subject # s

SignInRead(s) ==
    /\ left.signIns /\ signIn[s] = "idle" /\ domain[s] # NoDomain
    /\ NeverSucceeded(s) \/ NeedsArtwork(s)
    /\ signIn' = [signIn EXCEPT ![s] = "wanted"]
    /\ UNCHANGED <<vars, domain, foundFor, look, adding, key, left, stranded>>

SignInCheck(s) ==
    /\ signIn[s] = "wanted"
    /\ signIn' = [signIn EXCEPT ![s] = IF Booked("brand", s) THEN "idle" ELSE "missing"]
    /\ UNCHANGED <<vars, domain, foundFor, look, adding, key, left, stranded>>

SignInInsert(s) ==
    /\ signIn[s] = "missing" /\ signIn' = [signIn EXCEPT ![s] = "idle"]
    /\ \E t \in left.rows : Insert(t, "brand", s, TRUE)
    /\ UNCHANGED <<record, work, settling, booking, sweep, request, crashes,
                   domain, foundFor, look, adding, key, left, stranded>>

-----------------------------------------------------------------------------
(* A handler: handleDirect and runBrand. *)

Handling(t, a) == work[t][a] = "claimed"
Of(t) == task[t].subject

Now(t, a, x) == /\ look' = [look EXCEPT ![t][a] = x]
                /\ UNCHANGED <<domain, adding, signIn, key, stranded>>

Handed(t, a) == Now(t, a, NoLook) /\ Ends(t, a)

\* claimDue: a row leased is a handler begun.
VisibleClaim(S) == ClaimDue(S) /\ UNCHANGED companyVars

\* The record, then whether there is a key: without one the row is used up and
\* the status left alone.  Without a domain any status but COMPLETE is replaced.
ReadCompany(t, a) ==
    /\ Handling(t, a) /\ look[t][a].at = "start"
    /\ Now(t, a,
           CASE ~key -> [NoLook EXCEPT !.at = "settle", !.to = "SKIPPED"]
             [] key /\ domain[Of(t)] = NoDomain ->
                  [NoLook EXCEPT !.at = "settle", !.to = "SKIPPED", !.anyStatus = TRUE]
             [] OTHER -> [NoLook EXCEPT !.at = "read", !.domain = domain[Of(t)]])
    /\ UNCHANGED <<vars, foundFor, left>>

MarkLooking(t, a) ==
    /\ Handling(t, a) /\ look[t][a].at = "read"
    /\ Now(t, a, [look[t][a] EXCEPT !.at = "asking"])
    /\ IF contact[Of(t)] # "COMPLETE" THEN WriteContact(Of(t), "RUNNING", request)
                                       ELSE UNCHANGED <<record, request>>
    /\ UNCHANGED <<task, work, settling, booking, sweep, crashes, foundFor, left>>

\* Context.dev answers: a brand, nothing to look for, a failure that another
\* attempt may mend (retryable), or one it may not.
Answer(t, a) ==
    /\ Handling(t, a) /\ look[t][a].at = "asking"
    /\ \E x \in {[look[t][a] EXCEPT !.at = "found"],
                [look[t][a] EXCEPT !.at = "settle", !.to = "SKIPPED"],
                [look[t][a] EXCEPT !.at = "settle", !.to = "FAILED"],
                [look[t][a] EXCEPT !.at = "settle", !.to = "FAILED", !.retry = TRUE]} :
          Now(t, a, x)
    /\ UNCHANGED <<vars, foundFor, left>>

\* The transaction that fills the blanks writes the status unconditionally.
Fill(t, a) ==
    /\ Handling(t, a) /\ look[t][a].at = "found"
    /\ Now(t, a, [look[t][a] EXCEPT !.at = "end"])
    /\ WriteContact(Of(t), "COMPLETE", request)
    /\ foundFor' = [foundFor EXCEPT ![Of(t)] = look[t][a].domain]
    /\ UNCHANGED <<task, work, settling, booking, sweep, crashes, left>>

\* Mutant: the write asks only that the record is not FAILED yet.
SettleGuard_mutant(x, now) == now # x.to

\* The WHERE of brand.ts settle.
SettleGuard(x, now) == IF x.anyStatus THEN now # "COMPLETE" ELSE now = "RUNNING"

\* A retryable failure leaves the row to its lease.
SettleLook(t, a) ==
    /\ Handling(t, a) /\ look[t][a].at = "settle"
    /\ IF SettleGuard(look[t][a], contact[Of(t)])
       THEN WriteContact(Of(t), look[t][a].to, request)
       ELSE UNCHANGED <<record, request>>
    /\ IF look[t][a].retry
       THEN Handed(t, a)
       ELSE Now(t, a, [look[t][a] EXCEPT !.at = "end"]) /\ UNCHANGED work
    /\ UNCHANGED <<task, settling, booking, sweep, crashes, foundFor, left>>

\* Mutant: completeTask without "finishedAt: null".
EndLook_mutant(t, a) ==
    /\ Handling(t, a) /\ look[t][a].at = "end"
    /\ CloseRows({t}, "ran")
    /\ Handed(t, a)
    /\ UNCHANGED <<contact, settling, booking, sweep, request, crashes, foundFor, left>>

\* completeTask: nothing happens when the row is closed already.
EndLook(t, a) ==
    /\ Handling(t, a) /\ look[t][a].at = "end"
    /\ IF Open(t) THEN CloseRows({t}, "ran") ELSE UNCHANGED <<task, fresh, touched>>
    /\ Handed(t, a)
    /\ UNCHANGED <<contact, settling, booking, sweep, request, crashes, foundFor, left>>

\* A database call throws: reconcileDirect settles the row's company FAILED.
Throw(t, a) ==
    /\ Handling(t, a) /\ Fails
    /\ Handed(t, a) /\ BeginSettle({t}, "FAILED")
    /\ UNCHANGED <<task, record, booking, sweep, request, crashes, foundFor>>

-----------------------------------------------------------------------------
(* The settling of enrichment.ts and the sweep, as in ResearchLane. *)

\* A row of another kind about the company ("company-profile") is open: the
\* settle leaves a PENDING record alone.
SettleReadBusy(x) ==
    /\ x \in settling /\ ~x.ready
    /\ settling' = (settling \ {x}) \cup {[x EXCEPT !.ready = TRUE, !.pendingOk = FALSE]}
    /\ UNCHANGED <<task, record, work, booking, sweep, request, crashes>>

CompanySettle(x) ==
    /\ SettleRead(x) \/ SettleReadBusy(x) \/ SettleWrite(x)
    /\ UNCHANGED companyVars

CompanySweep(w) == SweepStep(w) /\ UNCHANGED companyVars

-----------------------------------------------------------------------------
(* What is lost: a write that throws and is not tried again, a process. *)

Done(t, a) == Handling(t, a) /\ look[t][a].at = "end"

\* Nobody writes a status any more when the row t is closed: a handler has done
\* so, or a sweep found the record up to date.
Closing(t) == (\E a \in Attempts : Done(t, a)) \/ (\E w \in Sweepers : t \in sweep[w].landed)

\* Somebody will still write the status of s.
Watched(s) ==
    \/ \E t \in Tasks : Open(t) /\ Of(t) = s /\ ~Closing(t)
    \/ \E t \in Tasks, a \in Attempts : Handling(t, a) /\ Of(t) = s /\ ~Done(t, a)
    \/ \E x \in settling : Of(x.task) = s

Strands == stranded' = stranded \cup {s \in Subjects : contact[s] = "RUNNING" /\ ~Watched(s)'}

SettleThrows(x) ==
    /\ x \in settling /\ settling' = settling \ {x}
    /\ Fails
    /\ UNCHANGED <<task, record, work, booking, sweep, request, crashes,
                   domain, foundFor, look, adding, signIn, key>>
    /\ Strands

AgentDies ==
    /\ AgentStops /\ Fails
    /\ look' = [t \in Tasks |-> [a \in Attempts |-> NoLook]]
    /\ UNCHANGED <<domain, foundFor, adding, signIn, key>>
    /\ Strands

ApiDies ==
    /\ ApiStops /\ Fails
    /\ adding' = [s \in Subjects |-> FALSE]
    /\ signIn' = [s \in Subjects |-> "idle"]
    /\ UNCHANGED <<domain, foundFor, look, key, stranded>>

-----------------------------------------------------------------------------
Handle(t, a) ==
    \/ ReadCompany(t, a) \/ MarkLooking(t, a) \/ Answer(t, a) \/ Fill(t, a)
    \/ SettleLook(t, a) \/ EndLook(t, a)

SignIn(s) == SignInRead(s) \/ SignInCheck(s) \/ SignInInsert(s)

\* A call under way: no behaviour makes infinitely many, so each is answered.
CallReturns ==
    \/ \E t \in Tasks, a \in Attempts : Handle(t, a)
    \/ \E x \in settling : CompanySettle(x)
    \/ \E s \in Subjects : Add(s)

CompanyTime ==
    /\ Time /\ UNCHANGED companyVars
    /\ left.prompt => \A t \in Tasks : (\E a \in Attempts : Handling(t, a)) => task'[t] = task[t]

CompanyNext ==
    \/ \E s \in Subjects : \/ Add(s) \/ (\E d \in Domains \cup {NoDomain} : Rename(s, d))
                           \/ AskRead(s) \/ AskQueue(s) \/ AskMark(s) \/ SignIn(s)
    \/ KeySet
    \/ \E S \in SUBSET Tasks : VisibleClaim(S)
    \/ \E t \in Tasks, a \in Attempts : Handle(t, a) \/ Throw(t, a)
    \/ \E x \in settling : CompanySettle(x) \/ SettleThrows(x)
    \/ \E w \in Sweepers : CompanySweep(w)
    \/ CompanyTime \/ AgentDies \/ ApiDies

allVars == <<vars, companyVars>>

CompanySpec == CompanyInit /\ [][CompanyNext]_allVars

\* The tick claims and sweeps, time passes, every call of a handler returns
\* (context-dev.ts gives each request a deadline), and people sign in again.
\* Nothing is assumed of reps.
CompanyFairness ==
    /\ WF_allVars(\E S \in SUBSET Tasks : VisibleClaim(S))
    /\ \A w \in Sweepers : WF_allVars(CompanySweep(w))
    /\ WF_allVars(CallReturns)
    /\ \A s \in Subjects : WF_allVars(SignIn(s))
    /\ WF_allVars(CompanyTime)

CompanyFairSpec == CompanySpec /\ CompanyFairness

-----------------------------------------------------------------------------
(* Properties.  Queue, LiveLeaseKept and EveryTaskEnds (ResearchLane) are    *)
(* asked of this lane too.                                                   *)

\* A company that was looked up stays so until a rep asks again or gives it
\* another domain: a second attempt, a late one or a retired row never turns
\* COMPLETE into RUNNING, FAILED or SKIPPED.
CompleteKept ==
    [][\A s \in Subjects : contact[s] = "COMPLETE" => contact'[s] \in {"COMPLETE", "PENDING"}]_allVars

\* A company shown as being researched has somebody who will say how that
\* ended: a row still to be worked on, a handler that has not written yet or a
\* pending settle.  The exceptions are the companies whose last one was lost
\* with its process or its write.
RunningIsWatched ==
    \A s \in Subjects : contact[s] = "RUNNING" => Watched(s) \/ s \in stranded

RowsLeft == \E t \in left.rows : task[t].state = "absent"

\* A company never looked up with success is looked up in the end, once there
\* is a key: attempts without one leave the status where the sweep finds it
\* (keyless-brand.integration.spec.ts).  While the model has rows left, and for
\* companies that keep their domain.
NotForgotten ==
    \A s \in Subjects :
       contact[s] \in {"PENDING", "FAILED"} /\ domain[s] # NoDomain /\ key /\ left.signIns /\ left.renames = 0
       ~> contact[s] \in {"RUNNING", "COMPLETE"} \/ ~RowsLeft

\* "Domain changed - anything we knew was about a different company"
\* (companies.service.ts): a company shown as looked up was looked up under the
\* domain it has.
LookedUpAsNamed ==
    \A s \in Subjects : contact[s] = "COMPLETE" => foundFor[s] = domain[s]
=============================================================================
