--------------------------- MODULE SalesProposals ---------------------------
(***************************************************************************)
(* Sales requests and the proposals a person decides on: the API           *)
(* (apps/api/src/sales/sales.service.ts), the worker that every dispatch   *)
(* tick starts (apps/agent/agent/lib/sales-worker.ts) and the write both   *)
(* share (packages/db/src/sales.ts).                                       *)
(*                                                                         *)
(* A transaction of approveProposal or rejectProposal is cut at the row    *)
(* locks it waits for; what it reads after a lock is current.  Time is     *)
(* counted in minutes, as the leases and timeouts of the configuration.    *)
(* Left out: who may call what (sessions, scopes, approval keys), and the  *)
(* text of a note beyond which operations were extracted from it.          *)
(***************************************************************************)
EXTENDS Naturals, FiniteSets

CONSTANTS Requests, Contacts,
          Ops,          \* the operation lists an extraction may yield
          Workers,      \* drains that ticks start and that may overlap
          Deciders,     \* approval and rejection transactions in flight
          BATCH,        \* DISPATCH.sales.batch
          LEASE,        \* DISPATCH.sales.leaseMs, in minutes
          TIMEOUT,      \* requestTimeoutMs of one extraction, in minutes
          MaxRevision,  \* bound: revisions of a contact
          MaxCrashes    \* bound: how often the agent stops

ASSUME SalesConstants ==
    /\ BATCH \in Nat \ {0} /\ LEASE \in Nat \ {0} /\ TIMEOUT \in Nat \ {0}
    /\ MaxRevision \in Nat /\ MaxCrashes \in Nat
    /\ "none" \notin Requests /\ "none" \notin Ops /\ "none" \notin Contacts

VARIABLES request,    \* rows of "salesRequest"
          proposal,   \* proposal[r]: the row of "salesProposal" for r
          contact,    \* contact[c]: updatedAt as a count of writes, archivedAt
          worker,     \* worker[w]: the claimed batch and the item in hand
          decider,    \* decider[d]: a decision transaction
          crashes

vars == <<request, proposal, contact, worker, decider, crashes>>

Statuses == {"absent", "PENDING", "PROPOSED", "APPROVED", "REJECTED", "FAILED"}

Request  == [status : Statuses, contact : Contacts \cup {"none"}, expected : Nat,
             inCrm : BOOLEAN, lease : 0 .. LEASE]
Proposal == [ops : Ops \cup {"none"}, decision : {"none", "approved", "rejected"},
             applied : Nat]
Worker   == [batch : SUBSET Requests, item : Requests \cup {"none"}, minutes : 0 .. TIMEOUT]
Decider  == [pc : {"idle", "open", "locked", "checked"}, kind : {"approve", "reject"},
             of : Requests]

Resting == [batch |-> {}, item |-> "none", minutes |-> 0]

TypeOK ==
    /\ request \in [Requests -> Request]
    /\ proposal \in [Requests -> Proposal]
    /\ contact \in [Contacts -> [revision : Nat, archived : BOOLEAN]]
    /\ worker \in [Workers -> Worker]
    /\ decider \in [Deciders -> Decider]
    /\ crashes \in 0 .. MaxCrashes

Init ==
    /\ request = [r \in Requests |-> [status |-> "absent", contact |-> "none", expected |-> 0,
                                      inCrm |-> FALSE, lease |-> 0]]
    /\ proposal = [r \in Requests |-> [ops |-> "none", decision |-> "none", applied |-> 0]]
    /\ contact = [c \in Contacts |-> [revision |-> 0, archived |-> FALSE]]
    /\ worker = [w \in Workers |-> Resting]
    /\ decider \in [Deciders -> [pc : {"idle"}, kind : {"approve"}, of : Requests]]
    /\ crashes = 0

-----------------------------------------------------------------------------
Status(r)  == request[r].status
Pending(r) == Status(r) = "PENDING"
Stored(r)  == proposal[r].ops # "none"
Revision(r) == contact[request[r].contact].revision

Decided(r) == proposal[r].decision # "none"

\* Row locks are held until the transaction ends.
ProposalLocked(r) == \E d \in Deciders : decider[d].pc \in {"locked", "checked"} /\ decider[d].of = r

\* Mutant: the contact is read without FOR UPDATE.
ContactLocked_mutant(c) == FALSE

ContactLocked(c) ==
    \E d \in Deciders : decider[d].pc = "checked" /\ request[decider[d].of].contact = c

-----------------------------------------------------------------------------
(* The API and its clients. *)

\* The revision the client saw is the current one.
CreateRequest(r, c, inCrm) ==
    /\ Status(r) = "absent" /\ ~contact[c].archived
    /\ request' = [request EXCEPT ![r] = [status |-> "PENDING", contact |-> c,
                     expected |-> contact[c].revision, inCrm |-> inCrm, lease |-> 0]]
    /\ UNCHANGED <<proposal, contact, worker, decider, crashes>>

Marked(row, status, lease) == [row EXCEPT !.status = status, !.lease = lease]

\* storeSalesProposal, for a client or the worker: the row is locked, so this
\* is one step.  A second proposal is refused, or answered with the first.
Store(r, ops) ==
    IF Pending(r) /\ ~Stored(r)
    THEN /\ proposal' = [proposal EXCEPT ![r].ops = ops]
         /\ request' = [request EXCEPT ![r] = Marked(@, "PROPOSED", 0)]
    ELSE UNCHANGED <<request, proposal>>

Failed(r, clear) == Marked(request[r], "FAILED", IF clear THEN 0 ELSE request[r].lease)

\* Mutant: fail without the status in its WHERE.
Fail_mutant(r, clear) ==
    /\ request' = [request EXCEPT ![r] = Failed(r, clear)]
    /\ UNCHANGED proposal

\* failRequest of the API keeps the lease, the worker's fail clears it.
Fail(r, clear) ==
    /\ IF Pending(r)
       THEN request' = [request EXCEPT ![r] = Failed(r, clear)]
       ELSE UNCHANGED request
    /\ UNCHANGED proposal

ClientStores(r, ops) ==
    /\ Status(r) # "absent" /\ Store(r, ops)
    /\ UNCHANGED <<contact, worker, decider, crashes>>

ClientFails(r) ==
    /\ Status(r) # "absent" /\ Fail(r, FALSE)
    /\ UNCHANGED <<contact, worker, decider, crashes>>

\* Any other write of the contact: it waits for the row lock.
EditContact(c, archived) ==
    /\ contact[c].revision < MaxRevision /\ ~ContactLocked(c)
    /\ contact' = [contact EXCEPT ![c] = [revision |-> @.revision + 1, archived |-> archived]]
    /\ UNCHANGED <<request, proposal, worker, decider, crashes>>

-----------------------------------------------------------------------------
(* approveProposal and rejectProposal. *)

Ends(d) == decider' = [decider EXCEPT ![d].pc = "idle"]

OpenDecision(d, r, kind) ==
    /\ decider[d].pc = "idle" /\ Stored(r)
    /\ decider' = [decider EXCEPT ![d] = [pc |-> "open", kind |-> kind, of |-> r]]
    /\ UNCHANGED <<request, proposal, contact, worker, crashes>>

\* A decided proposal is answered (or refused) and stays as it is.
LockProposal(d) ==
    /\ decider[d].pc = "open" /\ ~ProposalLocked(decider[d].of)
    /\ IF Decided(decider[d].of)
       THEN Ends(d)
       ELSE decider' = [decider EXCEPT ![d].pc = "locked"]
    /\ UNCHANGED <<request, proposal, contact, worker, crashes>>

Unchanged(r) ==
    ~contact[request[r].contact].archived /\ Revision(r) = request[r].expected

LockContact(d) ==
    /\ decider[d].pc = "locked" /\ decider[d].kind = "approve"
    /\ ~ContactLocked(request[decider[d].of].contact)
    /\ IF Unchanged(decider[d].of)
       THEN decider' = [decider EXCEPT ![d].pc = "checked"]
       ELSE Ends(d)
    /\ UNCHANGED <<request, proposal, contact, worker, crashes>>

Applied(row) == [row EXCEPT !.decision = "approved", !.applied = row.applied + 1]

\* The operations, the contact, the request and the proposal in one commit.
\* The triggers of the tables abort it when a decision is there already.
CommitApproval(d) ==
    /\ decider[d].pc = "checked"
    /\ Ends(d)
    /\ LET r == decider[d].of
       IN  IF Decided(r)
           THEN UNCHANGED <<request, proposal, contact>>
           ELSE /\ request' = [request EXCEPT ![r].status = "APPROVED"]
                /\ proposal' = [proposal EXCEPT ![r] = Applied(@)]
                /\ contact' = [contact EXCEPT ![request[r].contact].revision = @ + 1]
    /\ UNCHANGED <<worker, crashes>>

CommitRejection(d) ==
    /\ decider[d].pc = "locked" /\ decider[d].kind = "reject"
    /\ Ends(d)
    /\ LET r == decider[d].of
       IN  IF Decided(r)
           THEN UNCHANGED <<request, proposal>>
           ELSE /\ request' = [request EXCEPT ![r].status = "REJECTED"]
                /\ proposal' = [proposal EXCEPT ![r].decision = "rejected"]
    /\ UNCHANGED <<contact, worker, crashes>>

\* The API stops or the connection breaks: the transaction is rolled back.
RollBack(d) ==
    /\ decider[d].pc # "idle" /\ Ends(d)
    /\ UNCHANGED <<request, proposal, contact, worker, crashes>>

-----------------------------------------------------------------------------
(* The worker of a tick: it claims a batch and takes it one by one. *)

Claimable(r) == Pending(r) /\ request[r].inCrm /\ request[r].lease = 0

ClaimSalesRequests(w, S) ==
    /\ worker[w] = Resting
    /\ S # {} /\ Cardinality(S) <= BATCH /\ \A r \in S : Claimable(r)
    /\ request' = [r \in Requests |->
                     IF r \in S THEN [request[r] EXCEPT !.lease = LEASE] ELSE request[r]]
    /\ worker' = [worker EXCEPT ![w].batch = S]
    /\ UNCHANGED <<proposal, contact, decider, crashes>>

TakeItem(w, r) ==
    /\ worker[w].item = "none" /\ r \in worker[w].batch
    /\ worker' = [worker EXCEPT ![w] = [batch |-> @.batch \ {r}, item |-> r, minutes |-> 0]]
    /\ UNCHANGED <<request, proposal, contact, decider, crashes>>

\* Mutant: the error is caught and not recorded.
FinishItem_mutant(w) ==
    /\ worker[w].item # "none"
    /\ worker' = [worker EXCEPT ![w] = [batch |-> @.batch, item |-> "none", minutes |-> 0]]
    /\ (\E ops \in Ops : Store(worker[w].item, ops)) \/ UNCHANGED <<request, proposal>>
    /\ UNCHANGED <<contact, decider, crashes>>

\* The extraction answers in time, or the worker gives the request up.
FinishItem(w) ==
    /\ worker[w].item # "none"
    /\ worker' = [worker EXCEPT ![w] = [batch |-> @.batch, item |-> "none", minutes |-> 0]]
    /\ \/ \E ops \in Ops : Store(worker[w].item, ops)
       \/ Fail(worker[w].item, TRUE)
    /\ UNCHANGED <<contact, decider, crashes>>

\* The loop over a batch does not pause, and an extraction is aborted in time.
InTime(w) == IF worker[w].item = "none" THEN worker[w].batch = {}
                                        ELSE worker[w].minutes < TIMEOUT

Minute ==
    /\ \/ \E r \in Requests : request[r].lease > 0
       \/ \E w \in Workers : worker[w].item # "none"
    /\ \A w \in Workers : InTime(w)
    /\ request' = [r \in Requests |->
                     [request[r] EXCEPT !.lease = IF @ > 0 THEN @ - 1 ELSE 0]]
    /\ worker' = [w \in Workers |->
                     [worker[w] EXCEPT !.minutes = IF worker[w].item # "none" THEN @ + 1 ELSE @]]
    /\ UNCHANGED <<proposal, contact, decider, crashes>>

AgentStops ==
    /\ crashes < MaxCrashes /\ crashes' = crashes + 1
    /\ worker' = [w \in Workers |-> Resting]
    /\ UNCHANGED <<request, proposal, contact, decider>>

-----------------------------------------------------------------------------
Drain(w) ==
    \/ \E S \in SUBSET Requests : ClaimSalesRequests(w, S)
    \/ \E r \in Requests : TakeItem(w, r)
    \/ FinishItem(w)

Next ==
    \/ \E r \in Requests, c \in Contacts, inCrm \in BOOLEAN : CreateRequest(r, c, inCrm)
    \/ \E r \in Requests, ops \in Ops : ClientStores(r, ops)
    \/ \E r \in Requests : ClientFails(r)
    \/ \E c \in Contacts, archived \in BOOLEAN : EditContact(c, archived)
    \/ \E d \in Deciders, r \in Requests, kind \in {"approve", "reject"} : OpenDecision(d, r, kind)
    \/ \E d \in Deciders : LockProposal(d) \/ LockContact(d) \/ CommitApproval(d)
                              \/ CommitRejection(d) \/ RollBack(d)
    \/ \E w \in Workers : Drain(w)
    \/ Minute \/ AgentStops

Spec == Init /\ [][Next]_vars

\* Every tick drains, the drain goes on, and time passes.
FairSpec == Spec /\ (\A w \in Workers : WF_vars(Drain(w))) /\ WF_vars(Minute)

-----------------------------------------------------------------------------
(* Properties. *)

\* The request says what became of its proposal, however a late worker, a
\* client that gives up and two reviewers interleave.
StatusAgrees ==
    \A r \in Requests :
        /\ Stored(r) <=> Status(r) \in {"PROPOSED", "APPROVED", "REJECTED"}
        /\ Status(r) = "APPROVED" <=> proposal[r].decision = "approved"
        /\ Status(r) = "REJECTED" <=> proposal[r].decision = "rejected"

\* A contact is changed by an approval only in the very revision the request
\* was made about: no approval overwrites an edit the reviewer did not see.
RightRevision ==
    [][\A r \in Requests : proposal'[r].applied > proposal[r].applied =>
          Revision(r) = request[r].expected /\ ~contact[request[r].contact].archived]_vars

\* A proposal is decided once, and what was decided is what was stored.
DecisionFinal ==
    [][\A r \in Requests :
          /\ Stored(r) => proposal'[r].ops = proposal[r].ops
          /\ proposal[r].decision # "none" => proposal'[r] = proposal[r]]_vars

\* Every request the CRM processes itself gets a proposal or an error.
EveryRequestAnswered ==
    \A r \in Requests : Pending(r) /\ request[r].inCrm ~> ~Pending(r)
=============================================================================
