---------------------------- MODULE SalesProofs ----------------------------
(***************************************************************************)
(* Sales proposals for any number of requests, contacts, drains and        *)
(* reviewers: requests and proposals agree, a proposal is decided once and *)
(* applied at most once, and an approval changes the contact only in the   *)
(* revision the request was made about.  What makes it work is that the    *)
(* row locks exclude each other and that an approval still finds, when it  *)
(* commits, the revision it compared.                                      *)
(***************************************************************************)
EXTENDS SalesProposals, TLAPS

Named == \A r \in Requests : Status(r) # "absent" => request[r].contact \in Contacts

AppliedOnce == \A r \in Requests :
    proposal[r].applied = IF proposal[r].decision = "approved" THEN 1 ELSE 0

Held(d) == decider[d].pc \in {"locked", "checked"}

DecidersKnow == \A d \in Deciders :
    /\ decider[d].pc # "idle" => Stored(decider[d].of)
    /\ decider[d].pc = "checked" => Unchanged(decider[d].of)

LocksExclude == \A d, e \in Deciders :
    /\ Held(d) /\ Held(e) /\ decider[d].of = decider[e].of => d = e
    /\ decider[d].pc = "checked" /\ decider[e].pc = "checked"
         /\ request[decider[d].of].contact = request[decider[e].of].contact => d = e

SalesInv == TypeOK /\ StatusAgrees /\ AppliedOnce /\ Named /\ DecidersKnow /\ LocksExclude

-----------------------------------------------------------------------------
LEMMA SalesInit == Init => SalesInv
  <1> USE SalesConstants DEF Init
  <1>1. Init => TypeOK
    BY DEF TypeOK, Request, Proposal, Worker, Decider, Resting, Statuses
  <1>2. Init => StatusAgrees /\ AppliedOnce /\ Named
    BY DEF StatusAgrees, AppliedOnce, Named, Status, Stored
  <1>3. Init => DecidersKnow /\ LocksExclude
    BY DEF DecidersKnow, LocksExclude, Held
  <1> QED
    BY <1>1, <1>2, <1>3 DEF SalesInv

\* The rows that the writes produce.
LEMMA MarkedRow ==
  ASSUME NEW row \in Request, NEW s \in Statuses, NEW n \in 0 .. LEASE
  PROVE  /\ Marked(row, s, n) \in Request
         /\ Marked(row, s, n).status = s
         /\ Marked(row, s, n).contact = row.contact
         /\ Marked(row, s, n).expected = row.expected
  <1> DEFINE a == [row EXCEPT !.status = s]
  <1>1. a \in Request /\ a.status = s /\ a.contact = row.contact /\ a.expected = row.expected
    BY DEF Request
  <1>2. Marked(row, s, n) = [a EXCEPT !.lease = n]
    BY DEF Marked, Request
  <1> HIDE DEF a
  <1>3. [a EXCEPT !.lease = n] \in Request
    BY <1>1 DEF Request
  <1>4. [a EXCEPT !.lease = n].status = a.status /\ [a EXCEPT !.lease = n].contact = a.contact
        /\ [a EXCEPT !.lease = n].expected = a.expected
    BY <1>1 DEF Request
  <1> QED
    BY <1>1, <1>2, <1>3, <1>4

LEMMA LeasedRow ==
  ASSUME NEW row \in Request, NEW n \in 0 .. LEASE
  PROVE  /\ [row EXCEPT !.lease = n] \in Request
         /\ [row EXCEPT !.lease = n].status = row.status
         /\ [row EXCEPT !.lease = n].contact = row.contact
         /\ [row EXCEPT !.lease = n].expected = row.expected
  BY DEF Request

LEMMA AppliedRow ==
  ASSUME NEW row \in Proposal
  PROVE  /\ Applied(row) \in Proposal
         /\ Applied(row).ops = row.ops /\ Applied(row).decision = "approved"
         /\ Applied(row).applied = row.applied + 1
  <1> DEFINE a == [row EXCEPT !.decision = "approved"]
  <1>1. a \in Proposal /\ a.ops = row.ops /\ a.decision = "approved" /\ row.applied + 1 \in Nat
    BY DEF Proposal
  <1>2. Applied(row) = [a EXCEPT !.applied = row.applied + 1]
    BY DEF Applied, Proposal
  <1> HIDE DEF a
  <1>3. [a EXCEPT !.applied = row.applied + 1] \in Proposal
    BY <1>1 DEF Proposal
  <1>4. /\ [a EXCEPT !.applied = row.applied + 1].ops = a.ops
        /\ [a EXCEPT !.applied = row.applied + 1].decision = a.decision
        /\ [a EXCEPT !.applied = row.applied + 1].applied = row.applied + 1
    BY <1>1 DEF Proposal
  <1> QED
    BY <1>1, <1>2, <1>3, <1>4

LEMMA SalesTypes == SalesInv /\ [Next]_vars => TypeOK'
  <1> SUFFICES ASSUME SalesInv, [Next]_vars PROVE TypeOK'
    OBVIOUS
  <1> USE SalesConstants
  <1>0. TypeOK
    BY DEF SalesInv
  <1>1. ASSUME NEW r \in Requests, NEW c \in Contacts, NEW inCrm \in BOOLEAN,
               CreateRequest(r, c, inCrm)
        PROVE  TypeOK'
    BY <1>0, <1>1 DEF CreateRequest, TypeOK, Request, Statuses
  <1>2. ASSUME NEW r \in Requests, NEW ops \in Ops, Store(r, ops)
        PROVE  request' \in [Requests -> Request] /\ proposal' \in [Requests -> Proposal]
    <2>1. request[r] \in Request /\ Marked(request[r], "PROPOSED", 0) \in Request
      BY <1>0, MarkedRow DEF TypeOK, Statuses
    <2>2. proposal[r] \in Proposal /\ [proposal[r] EXCEPT !.ops = ops] \in Proposal
      BY <1>0 DEF TypeOK, Proposal
    <2> QED
      BY <1>0, <1>2, <2>1, <2>2 DEF Store, TypeOK
  <1>3. ASSUME NEW r \in Requests, NEW clear \in BOOLEAN, Fail(r, clear)
        PROVE  request' \in [Requests -> Request] /\ proposal' \in [Requests -> Proposal]
    <2>1. request[r] \in Request /\ (IF clear THEN 0 ELSE request[r].lease) \in 0 .. LEASE
      BY <1>0 DEF TypeOK, Request
    <2>2. Failed(r, clear) \in Request
      BY <2>1, MarkedRow DEF Failed, Statuses
    <2> QED
      BY <1>0, <1>3, <2>2 DEF Fail, TypeOK
  <1>4. ASSUME NEW r \in Requests, NEW ops \in Ops, ClientStores(r, ops) PROVE TypeOK'
    BY <1>0, <1>2, <1>4 DEF ClientStores, TypeOK
  <1>5. ASSUME NEW r \in Requests, ClientFails(r) PROVE TypeOK'
    BY <1>0, <1>3, <1>5 DEF ClientFails, TypeOK
  <1>6. ASSUME NEW c \in Contacts, NEW archived \in BOOLEAN, EditContact(c, archived) PROVE TypeOK'
    BY <1>0, <1>6 DEF EditContact, TypeOK
  <1>7. ASSUME NEW d \in Deciders, NEW r \in Requests, NEW kind \in {"approve", "reject"},
               OpenDecision(d, r, kind)
        PROVE  TypeOK'
    BY <1>0, <1>7 DEF OpenDecision, TypeOK, Decider
  <1>8. ASSUME NEW d \in Deciders, LockProposal(d) \/ LockContact(d) \/ RollBack(d) PROVE TypeOK'
    BY <1>0, <1>8 DEF LockProposal, LockContact, RollBack, Ends, TypeOK, Decider
  <1>9. ASSUME NEW d \in Deciders, CommitApproval(d) \/ CommitRejection(d) PROVE TypeOK'
    <2>1. decider' \in [Deciders -> Decider]
      BY <1>0, <1>9 DEF CommitApproval, CommitRejection, Ends, TypeOK, Decider
    <2>2. request' \in [Requests -> Request]
      <3> DEFINE r == decider[d].of
      <3>1. r \in Requests /\ request \in [Requests -> Request]
        BY <1>0 DEF TypeOK, Decider
      <3>2. /\ [request[r] EXCEPT !.status = "APPROVED"] \in Request
            /\ [request[r] EXCEPT !.status = "REJECTED"] \in Request
        BY <3>1 DEF Request, Statuses
      <3>3. \/ UNCHANGED request
            \/ request' = [request EXCEPT ![r] = [request[r] EXCEPT !.status = "APPROVED"]]
            \/ request' = [request EXCEPT ![r] = [request[r] EXCEPT !.status = "REJECTED"]]
        BY <1>9 DEF CommitApproval, CommitRejection
      <3> HIDE DEF r
      <3> QED
        BY <3>1, <3>2, <3>3
    <2>3. proposal' \in [Requests -> Proposal]
      <3> DEFINE r == decider[d].of
      <3>1. r \in Requests /\ proposal \in [Requests -> Proposal]
        BY <1>0 DEF TypeOK, Decider
      <3>2. Applied(proposal[r]) \in Proposal
        BY <3>1, AppliedRow
      <3>3. [proposal[r] EXCEPT !.decision = "rejected"] \in Proposal
        BY <3>1 DEF Proposal
      <3>4. \/ UNCHANGED proposal
            \/ proposal' = [proposal EXCEPT ![r] = Applied(proposal[r])]
            \/ proposal' = [proposal EXCEPT ![r] = [proposal[r] EXCEPT !.decision = "rejected"]]
        BY <1>9 DEF CommitApproval, CommitRejection
      <3> HIDE DEF r
      <3> QED
        BY <3>1, <3>2, <3>3, <3>4
    <2>4. contact' \in [Contacts -> [revision : Nat, archived : BOOLEAN]]
      BY <1>0, <1>9 DEF CommitApproval, CommitRejection, TypeOK
    <2>5. UNCHANGED <<worker, crashes>>
      BY <1>9 DEF CommitApproval, CommitRejection
    <2> QED
      BY <1>0, <2>1, <2>2, <2>3, <2>4, <2>5 DEF TypeOK
  <1>10. ASSUME NEW w \in Workers, NEW S \in SUBSET Requests, ClaimSalesRequests(w, S) PROVE TypeOK'
    <2>1. \A r \in Requests : request[r] \in Request /\ [request[r] EXCEPT !.lease = LEASE] \in Request
      <3> TAKE r \in Requests
      <3>1. request[r] \in Request /\ LEASE \in 0 .. LEASE
        BY <1>0 DEF TypeOK
      <3> QED
        BY <3>1, LeasedRow
    <2>2. request' \in [Requests -> Request]
      BY <1>10, <2>1 DEF ClaimSalesRequests
    <2>3. worker' \in [Workers -> Worker]
      BY <1>0, <1>10 DEF ClaimSalesRequests, TypeOK, Worker
    <2> QED
      BY <1>0, <1>10, <2>2, <2>3 DEF ClaimSalesRequests, TypeOK
  <1>11. ASSUME NEW w \in Workers, NEW r \in Requests, TakeItem(w, r) PROVE TypeOK'
    BY <1>0, <1>11 DEF TakeItem, TypeOK, Worker
  <1>12. ASSUME NEW w \in Workers, FinishItem(w) PROVE TypeOK'
    <2>1. worker[w].item \in Requests
      BY <1>0, <1>12 DEF FinishItem, TypeOK, Worker
    <2>2. request' \in [Requests -> Request] /\ proposal' \in [Requests -> Proposal]
      BY <1>2, <1>3, <1>12, <2>1 DEF FinishItem
    <2>3. worker' \in [Workers -> Worker]
      BY <1>0, <1>12 DEF FinishItem, TypeOK, Worker
    <2> QED
      BY <1>0, <1>12, <2>2, <2>3 DEF FinishItem, TypeOK
  <1>13. CASE Minute
    <2>1. request' \in [Requests -> Request]
      <3>1. \A r \in Requests :
               [request[r] EXCEPT !.lease = IF @ > 0 THEN @ - 1 ELSE 0] \in Request
        BY <1>0 DEF TypeOK, Request
      <3> QED
        BY <1>13, <3>1 DEF Minute
    <2>2. worker' \in [Workers -> Worker]
      BY <1>0, <1>13 DEF Minute, InTime, TypeOK, Worker
    <2> QED
      BY <1>0, <1>13, <2>1, <2>2 DEF Minute, TypeOK
  <1>14. CASE AgentStops
    BY <1>0, <1>14 DEF AgentStops, TypeOK, Worker, Resting
  <1>15. CASE UNCHANGED vars
    BY <1>0, <1>15 DEF vars, TypeOK
  <1> QED
    BY <1>1, <1>4, <1>5, <1>6, <1>7, <1>8, <1>9, <1>10, <1>11, <1>12, <1>13, <1>14, <1>15
    DEF Next, Drain

-----------------------------------------------------------------------------
\* The parts of the invariant one step at a time.  Same(q): a step leaves the
\* status of q, and the contact and revision it names, alone.
Agreement == StatusAgrees /\ AppliedOnce /\ Named /\ DecidersKnow /\ LocksExclude

Same(q) == /\ request'[q].status = request[q].status
           /\ request'[q].contact = request[q].contact
           /\ request'[q].expected = request[q].expected

LEMMA SalesAgrees == SalesInv /\ [Next]_vars => Agreement'
  <1> SUFFICES ASSUME SalesInv, [Next]_vars PROVE Agreement'
    OBVIOUS
  <1>0. TypeOK /\ Agreement
    BY DEF SalesInv, Agreement
  <1>a. request \in [Requests -> Request] /\ proposal \in [Requests -> Proposal]
    BY <1>0 DEF TypeOK
  <1>b. \A q \in Requests, n \in 0 .. LEASE : request'[q] = [request[q] EXCEPT !.lease = n] => Same(q)
    <2> TAKE q \in Requests, n \in 0 .. LEASE
    <2>1. request[q] \in Request
      BY <1>a
    <2> QED
      BY <2>1, LeasedRow DEF Same
  <1>c. \A q \in Requests, s \in Statuses, n \in 0 .. LEASE :
           request'[q] = Marked(request[q], s, n) =>
              request'[q].status = s /\ request'[q].contact = request[q].contact
    <2> TAKE q \in Requests, s \in Statuses, n \in 0 .. LEASE
    <2>1. request[q] \in Request
      BY <1>a
    <2> QED
      BY <2>1, MarkedRow
  <1> USE DEF Agreement, StatusAgrees, AppliedOnce, Named, DecidersKnow, LocksExclude,
              Status, Stored, Held, Unchanged, Revision
  <1>1. ASSUME \A q \in Requests : Same(q), UNCHANGED <<proposal, contact, decider>>
        PROVE  Agreement'
    <2>1. \A d \in Deciders : decider[d].of \in Requests
      BY <1>0 DEF TypeOK, Decider
    <2>2. StatusAgrees' /\ AppliedOnce' /\ Named'
      BY <1>0, <1>1 DEF Same
    <2>3. DecidersKnow' /\ LocksExclude'
      BY <1>0, <1>1, <2>1 DEF Same
    <2> QED
      BY <2>2, <2>3
  \* A request that has no proposal moves: no decision is about it.
  <1>2. ASSUME NEW r \in Requests, ~Stored(r), \A q \in Requests \ {r} : Same(q),
               request'[r].contact \in Contacts, UNCHANGED <<contact, decider>>,
               \/ request'[r].status \in {"PENDING", "FAILED"} /\ UNCHANGED proposal
               \/ /\ request'[r].status = "PROPOSED"
                  /\ \E ops \in Ops : proposal' = [proposal EXCEPT ![r] = [@ EXCEPT !.ops = ops]]
        PROVE  Agreement'
    <2>1. \A d \in Deciders : decider[d].pc # "idle" => decider[d].of \in Requests \ {r}
      BY <1>0, <1>2 DEF TypeOK, Decider
    <2>2. \A q \in Requests \ {r} : proposal'[q] = proposal[q]
      BY <1>0, <1>2 DEF TypeOK
    <2>3. proposal'[r].decision = "none" /\ proposal'[r].applied = 0
      BY <1>0, <1>2 DEF TypeOK, Proposal
    <2>4. (proposal'[r].ops # "none") <=> request'[r].status = "PROPOSED"
      BY <1>0, <1>2, SalesConstants DEF TypeOK, Proposal
    <2>5. StatusAgrees' /\ AppliedOnce' /\ Named'
      BY <1>0, <1>2, <2>2, <2>3, <2>4 DEF Same
    <2>6. DecidersKnow' /\ LocksExclude'
      BY <1>0, <1>2, <2>1, <2>2 DEF Same
    <2> QED
      BY <2>5, <2>6
  <1>3. ASSUME NEW r \in Requests, NEW ops \in Ops, Store(r, ops),
               request[r].status # "absent", UNCHANGED <<contact, decider>>
        PROVE  Agreement'
    <2>1. CASE UNCHANGED <<request, proposal>>
      BY <1>1, <1>3, <2>1 DEF Same
    <2>2. CASE /\ Pending(r) /\ ~Stored(r)
               /\ proposal' = [proposal EXCEPT ![r].ops = ops]
               /\ request' = [request EXCEPT ![r] = Marked(request[r], "PROPOSED", 0)]
      <3>1. /\ \A q \in Requests \ {r} : Same(q)
            /\ request'[r].status = "PROPOSED" /\ request'[r].contact = request[r].contact
        <4>1. /\ \A q \in Requests \ {r} : request'[q] = request[q]
              /\ request'[r] = Marked(request[r], "PROPOSED", 0)
          BY <1>a, <2>2
        <4>2. "PROPOSED" \in Statuses /\ 0 \in 0 .. LEASE
          BY SalesConstants DEF Statuses
        <4> QED
          BY <1>c, <4>1, <4>2 DEF Same
      <3> QED
        BY <1>0, <1>2, <1>3, <2>2, <3>1
    <2> QED
      BY <1>3, <2>1, <2>2 DEF Store
  <1>4. ASSUME NEW r \in Requests, NEW clear \in BOOLEAN, Fail(r, clear), UNCHANGED <<contact, decider>>
        PROVE  Agreement'
    <2>1. CASE Pending(r)
      <3>1. request' = [request EXCEPT ![r] = Failed(r, clear)] /\ UNCHANGED proposal
        BY <1>4, <2>1 DEF Fail
      <3>2. /\ \A q \in Requests \ {r} : Same(q)
            /\ request'[r].status = "FAILED" /\ request'[r].contact = request[r].contact
        <4> DEFINE n == IF clear THEN 0 ELSE request[r].lease
        <4>1. /\ \A q \in Requests \ {r} : request'[q] = request[q]
              /\ request'[r] = Marked(request[r], "FAILED", n)
          BY <1>a, <3>1 DEF Failed
        <4>2. "FAILED" \in Statuses /\ n \in 0 .. LEASE
          BY <1>a, SalesConstants DEF Statuses, Request
        <4> HIDE DEF n
        <4> QED
          BY <1>c, <4>1, <4>2 DEF Same
      <3>3. ~Stored(r) /\ request[r].contact \in Contacts
        BY <1>0, <2>1 DEF Pending
      <3> QED
        BY <1>2, <1>4, <3>1, <3>2, <3>3
    <2>2. CASE ~Pending(r)
      BY <1>1, <1>4, <2>2 DEF Fail, Same
    <2> QED
      BY <2>1, <2>2
  <1>5. ASSUME NEW r \in Requests, NEW c \in Contacts, NEW inCrm \in BOOLEAN,
               CreateRequest(r, c, inCrm)
        PROVE  Agreement'
    <2>1. /\ ~Stored(r) /\ \A q \in Requests \ {r} : Same(q)
          /\ request'[r].status = "PENDING" /\ request'[r].contact = c
          /\ UNCHANGED <<proposal, contact, decider>>
      BY <1>0, <1>5 DEF CreateRequest, Same, TypeOK
    <2> QED
      BY <1>2, <2>1
  <1>6. ASSUME NEW c \in Contacts, NEW archived \in BOOLEAN, EditContact(c, archived) PROVE Agreement'
    <2>1. \A d \in Deciders : decider[d].pc = "checked" =>
             request[decider[d].of].contact # c /\ request[decider[d].of].contact \in Contacts
      BY <1>0, <1>6 DEF EditContact, ContactLocked, TypeOK, Decider
    <2>2. UNCHANGED <<request, proposal, decider>> /\ \A b \in Contacts \ {c} : contact'[b] = contact[b]
      BY <1>0, <1>6 DEF EditContact, TypeOK
    <2> QED
      BY <1>0, <2>1, <2>2
  <1>7. ASSUME NEW d \in Deciders, NEW r \in Requests, NEW kind \in {"approve", "reject"},
               OpenDecision(d, r, kind)
        PROVE  Agreement'
    BY <1>0, <1>7 DEF OpenDecision, TypeOK
  <1>8. ASSUME NEW d \in Deciders, UNCHANGED <<request, proposal, contact>>, Ends(d) PROVE Agreement'
    BY <1>0, <1>8 DEF Ends, TypeOK, Decider
  <1>9. ASSUME NEW d \in Deciders, LockProposal(d) \/ LockContact(d) PROVE Agreement'
    <2>1. CASE Ends(d)
      BY <1>8, <1>9, <2>1 DEF LockProposal, LockContact
    <2>2. CASE LockProposal(d) /\ decider' = [decider EXCEPT ![d].pc = "locked"]
      BY <1>0, <2>2 DEF LockProposal, ProposalLocked, TypeOK, Decider
    <2>3. CASE LockContact(d) /\ Unchanged(decider[d].of) /\ decider' = [decider EXCEPT ![d].pc = "checked"]
      <3>1. /\ \A e \in Deciders \ {d} : decider'[e] = decider[e]
            /\ decider'[d].pc = "checked" /\ decider'[d].of = decider[d].of
            /\ decider[d].pc = "locked" /\ UNCHANGED <<request, proposal, contact>>
        BY <1>0, <2>3 DEF LockContact, TypeOK, Decider
      <3>2. \A e \in Deciders : decider[e].pc = "checked" =>
               request[decider[e].of].contact # request[decider[d].of].contact
        BY <2>3 DEF LockContact, ContactLocked
      <3>3. StatusAgrees' /\ AppliedOnce' /\ Named'
        BY <1>0, <3>1
      <3>4. DecidersKnow'
        BY <1>0, <2>3, <3>1
      <3>5. LocksExclude'
        BY <1>0, <3>1, <3>2
      <3> QED
        BY <3>3, <3>4, <3>5
    <2> QED
      BY <1>9, <2>1, <2>2, <2>3 DEF LockProposal, LockContact
  <1>10. ASSUME NEW d \in Deciders, NEW word \in {"approved", "rejected"}, ~Decided(decider[d].of),
                Held(d), Ends(d),
                \A q \in Requests \ {decider[d].of} : Same(q) /\ proposal'[q] = proposal[q],
                /\ request'[decider[d].of].status = IF word = "approved" THEN "APPROVED" ELSE "REJECTED"
                /\ request'[decider[d].of].contact = request[decider[d].of].contact
                /\ request'[decider[d].of].expected = request[decider[d].of].expected
                /\ proposal'[decider[d].of].ops = proposal[decider[d].of].ops
                /\ proposal'[decider[d].of].decision = word
                /\ proposal'[decider[d].of].applied = IF word = "approved" THEN 1 ELSE 0,
                \A e \in Deciders \ {d} : decider[e].pc = "checked" =>
                   contact'[request[decider[e].of].contact] = contact[request[decider[e].of].contact]
         PROVE  Agreement'
    <2> DEFINE r == decider[d].of
    <2>1. r \in Requests /\ Stored(r)
      BY <1>0, <1>10 DEF TypeOK, Decider
    <2>2. StatusAgrees' /\ AppliedOnce' /\ Named'
      BY <1>0, <1>10, <2>1 DEF Same
    <2>3. /\ \A e \in Deciders \ {d} : decider'[e] = decider[e]
          /\ decider'[d].pc = "idle"
          /\ \A e \in Deciders : decider[e].of \in Requests
      BY <1>0, <1>10 DEF Ends, TypeOK, Decider
    <2>4. \A q \in Requests : /\ request'[q].contact = request[q].contact
                              /\ request'[q].expected = request[q].expected
                              /\ proposal'[q].ops = proposal[q].ops
      BY <1>10, <2>1 DEF Same
    <2>5. DecidersKnow'
      BY <1>0, <1>10, <2>3, <2>4
    <2>6. LocksExclude'
      BY <1>0, <2>3, <2>4
    <2> QED
      BY <2>2, <2>5, <2>6
  <1>11. ASSUME NEW d \in Deciders, CommitApproval(d) \/ CommitRejection(d) PROVE Agreement'
    <2> DEFINE r == decider[d].of
    <2>0. r \in Requests /\ Held(d) /\ Ends(d) /\ request[r].contact \in Contacts
      BY <1>0, <1>11 DEF CommitApproval, CommitRejection, TypeOK, Decider
    <2>1. CASE Decided(r)
      BY <1>8, <1>11, <2>1 DEF CommitApproval, CommitRejection
    <2>2. CASE CommitApproval(d) /\ ~Decided(r)
      <3>1. /\ request' = [request EXCEPT ![r] = [request[r] EXCEPT !.status = "APPROVED"]]
            /\ proposal' = [proposal EXCEPT ![r] = Applied(proposal[r])]
            /\ contact' = [contact EXCEPT ![request[r].contact].revision = @ + 1]
        BY <2>2 DEF CommitApproval
      <3>2. /\ \A q \in Requests \ {r} : Same(q) /\ proposal'[q] = proposal[q]
            /\ request'[r].status = "APPROVED"
            /\ request'[r].contact = request[r].contact /\ request'[r].expected = request[r].expected
        BY <1>0, <2>0, <3>1 DEF Same, TypeOK, Request
      <3>3. /\ proposal'[r].ops = proposal[r].ops
            /\ proposal'[r].decision = "approved" /\ proposal'[r].applied = 1
        BY <1>0, <2>0, <2>2, <3>1, AppliedRow DEF TypeOK, Decided
      <3>4. \A e \in Deciders \ {d} : decider[e].pc = "checked" =>
               contact'[request[decider[e].of].contact] = contact[request[decider[e].of].contact]
        BY <1>0, <2>2, <3>1 DEF CommitApproval, TypeOK, Decider
      <3> HIDE DEF r
      <3> QED
        BY <1>10, <2>0, <2>2, <3>2, <3>3, <3>4 DEF r
    <2>3. CASE CommitRejection(d) /\ ~Decided(r)
      <3>1. /\ request' = [request EXCEPT ![r] = [request[r] EXCEPT !.status = "REJECTED"]]
            /\ proposal' = [proposal EXCEPT ![r] = [proposal[r] EXCEPT !.decision = "rejected"]]
            /\ UNCHANGED contact
        BY <2>3 DEF CommitRejection
      <3>2. /\ \A q \in Requests \ {r} : Same(q) /\ proposal'[q] = proposal[q]
            /\ request'[r].status = "REJECTED"
            /\ request'[r].contact = request[r].contact /\ request'[r].expected = request[r].expected
        BY <1>0, <2>0, <3>1 DEF Same, TypeOK, Request
      <3>3. /\ proposal'[r].ops = proposal[r].ops
            /\ proposal'[r].decision = "rejected" /\ proposal'[r].applied = 0
        BY <1>0, <2>0, <2>3, <3>1 DEF TypeOK, Proposal, Decided
      <3>4. \A e \in Deciders \ {d} : decider[e].pc = "checked" =>
               contact'[request[decider[e].of].contact] = contact[request[decider[e].of].contact]
        BY <3>1
      <3> HIDE DEF r
      <3> QED
        BY <1>10, <2>0, <2>3, <3>2, <3>3, <3>4 DEF r
    <2> QED
      BY <1>11, <2>1, <2>2, <2>3
  <1>12. ASSUME NEW r \in Requests, (\E ops \in Ops : ClientStores(r, ops)) \/ ClientFails(r)
         PROVE  Agreement'
    BY <1>3, <1>4, <1>12 DEF ClientStores, ClientFails
  <1>13. ASSUME NEW w \in Workers, Drain(w) PROVE Agreement'
    <2>1. ASSUME NEW S \in SUBSET Requests, ClaimSalesRequests(w, S) PROVE Agreement'
      <3>1. \A q \in Requests : request'[q] = request[q] \/ request'[q] = [request[q] EXCEPT !.lease = LEASE]
        BY <2>1 DEF ClaimSalesRequests
      <3>2. \A q \in Requests : Same(q)
        <4>1. LEASE \in 0 .. LEASE
          BY SalesConstants
        <4> QED
          BY <1>b, <3>1, <4>1 DEF Same
      <3> QED
        BY <1>1, <2>1, <3>2 DEF ClaimSalesRequests
    <2>2. ASSUME NEW r \in Requests, TakeItem(w, r) PROVE Agreement'
      BY <1>1, <2>2 DEF TakeItem, Same
    <2>3. CASE FinishItem(w)
      <3>1. worker[w].item \in Requests
        BY <1>0, <2>3 DEF FinishItem, TypeOK, Worker
      <3>2. CASE request[worker[w].item].status = "absent"
        <4>1. UNCHANGED <<request, proposal>>
          BY <2>3, <3>1, <3>2 DEF FinishItem, Store, Fail, Pending
        <4> QED
          BY <1>1, <2>3, <4>1 DEF FinishItem, Same
      <3>3. CASE request[worker[w].item].status # "absent"
        BY <1>3, <1>4, <2>3, <3>1, <3>3 DEF FinishItem
      <3> QED
        BY <3>2, <3>3
    <2> QED
      BY <1>13, <2>1, <2>2, <2>3 DEF Drain
  <1>14. CASE Minute
    <2>1. \A q \in Requests : \E n \in 0 .. LEASE : request'[q] = [request[q] EXCEPT !.lease = n]
      <3> TAKE q \in Requests
      <3>1. (IF request[q].lease > 0 THEN request[q].lease - 1 ELSE 0) \in 0 .. LEASE
        BY <1>a, SalesConstants DEF Request
      <3> QED
        BY <1>14, <3>1 DEF Minute
    <2>2. \A q \in Requests : Same(q)
      BY <1>b, <2>1
    <2> QED
      BY <1>1, <1>14, <2>2 DEF Minute
  <1>15. CASE AgentStops \/ UNCHANGED vars
    BY <1>1, <1>15 DEF AgentStops, vars, Same
  <1>16. ASSUME NEW d \in Deciders, RollBack(d) PROVE Agreement'
    BY <1>8, <1>16 DEF RollBack
  <1> QED
    BY <1>5, <1>6, <1>7, <1>9, <1>11, <1>12, <1>13, <1>14, <1>15, <1>16 DEF Next

-----------------------------------------------------------------------------
\* The inductive invariant.  AppliedOnce is the point of the locks and of the
\* revision together: no order of approvals applies a proposal a second time.
THEOREM SalesInvariant == Spec => []SalesInv
  <1>1. SalesInv /\ [Next]_vars => SalesInv'
    BY SalesTypes, SalesAgrees DEF SalesInv, Agreement
  <1> QED
    BY <1>1, SalesInit, PTL DEF Spec

\* The status of a request tells what became of its proposal.
THEOREM StatusAlwaysAgrees == Spec => []StatusAgrees
  <1>1. SalesInv => StatusAgrees
    BY DEF SalesInv
  <1> QED
    BY <1>1, SalesInvariant, PTL

\* A proposal is applied at most once, and only when it is approved.
THEOREM AppliedAtMostOnce == Spec => []AppliedOnce
  <1>1. SalesInv => AppliedOnce
    BY DEF SalesInv
  <1> QED
    BY <1>1, SalesInvariant, PTL

\* What a step writes to proposals: a store where there was none, or the
\* decision of the transaction that checked or locked an undecided one.
LEMMA ProposalWrites ==
  ASSUME SalesInv, [Next]_vars
  PROVE  \/ UNCHANGED proposal
         \/ \E r \in Requests, ops \in Ops :
               ~Stored(r) /\ proposal' = [proposal EXCEPT ![r].ops = ops]
         \/ \E d \in Deciders : CommitApproval(d) /\ ~Decided(decider[d].of)
         \/ \E d \in Deciders :
               /\ ~Decided(decider[d].of)
               /\ proposal' = [proposal EXCEPT ![decider[d].of].decision = "rejected"]
  <1>1. \A r \in Requests, ops \in Ops : Store(r, ops) =>
           \/ UNCHANGED proposal
           \/ ~Stored(r) /\ proposal' = [proposal EXCEPT ![r].ops = ops]
    BY DEF Store
  <1>2. \A r \in Requests, clear \in BOOLEAN : Fail(r, clear) => UNCHANGED proposal
    BY DEF Fail
  <1>3. ASSUME NEW w \in Workers, Drain(w)
        PROVE  \/ UNCHANGED proposal
               \/ \E r \in Requests, ops \in Ops :
                     ~Stored(r) /\ proposal' = [proposal EXCEPT ![r].ops = ops]
    <2>1. CASE FinishItem(w)
      <3>1. worker[w].item \in Requests
        BY <2>1 DEF FinishItem, SalesInv, TypeOK, Worker
      <3> QED
        BY <1>1, <1>2, <2>1, <3>1 DEF FinishItem
    <2> QED
      BY <1>3, <2>1 DEF Drain, ClaimSalesRequests, TakeItem
  <1> QED
    BY <1>1, <1>2, <1>3
    DEF Next, vars, CreateRequest, ClientStores, ClientFails, EditContact, OpenDecision,
        LockProposal, LockContact, CommitApproval, CommitRejection, RollBack, Minute, AgentStops

\* No approval overwrites an edit of the contact that came after the request.
THEOREM ApprovalsHitTheirRevision == Spec => RightRevision
  <1> DEFINE Hit(r) == proposal'[r].applied > proposal[r].applied =>
                         Revision(r) = request[r].expected /\ ~contact[request[r].contact].archived
  <1>1. ASSUME SalesInv, [Next]_vars, NEW r \in Requests PROVE Hit(r)
    <2>1. proposal \in [Requests -> Proposal]
      BY <1>1 DEF SalesInv, TypeOK
    <2>2. ASSUME proposal'[r].applied = proposal[r].applied PROVE Hit(r)
      BY <2>1, <2>2 DEF Proposal
    <2>3. ASSUME NEW q \in Requests, NEW ops \in Ops, proposal' = [proposal EXCEPT ![q].ops = ops]
          PROVE  proposal'[r].applied = proposal[r].applied
      BY <2>1, <2>3 DEF Proposal
    <2>4. ASSUME NEW d \in Deciders,
                 proposal' = [proposal EXCEPT ![decider[d].of].decision = "rejected"]
          PROVE  proposal'[r].applied = proposal[r].applied
      BY <2>1, <2>4 DEF Proposal
    <2>5. ASSUME NEW d \in Deciders, CommitApproval(d), ~Decided(decider[d].of) PROVE Hit(r)
      <3>1. CASE r = decider[d].of
        BY <1>1, <2>5, <3>1 DEF CommitApproval, SalesInv, DecidersKnow, Unchanged
      <3>2. CASE r # decider[d].of
        <4>1. proposal'[r] = proposal[r]
          BY <2>1, <2>5, <3>2 DEF CommitApproval
        <4> QED
          BY <2>2, <4>1
      <3> QED
        BY <3>1, <3>2
    <2> QED
      BY <1>1, <2>2, <2>3, <2>4, <2>5, ProposalWrites
  <1>2. SalesInv /\ [Next]_vars => [\A r \in Requests : Hit(r)]_vars
    BY <1>1
  <1> QED
    BY <1>2, SalesInvariant, PTL DEF Spec, RightRevision

\* One decision, on the operations that were stored.
THEOREM DecisionsStay == Spec => DecisionFinal
  <1> DEFINE Kept(r) == /\ Stored(r) => proposal'[r].ops = proposal[r].ops
                        /\ Decided(r) => proposal'[r] = proposal[r]
  <1>1. ASSUME SalesInv, [Next]_vars, NEW r \in Requests PROVE Kept(r)
    <2>1. proposal \in [Requests -> Proposal] /\ (Decided(r) => Stored(r))
      <3>1. Decided(r) => proposal[r].decision \in {"approved", "rejected"}
        BY <1>1 DEF SalesInv, TypeOK, Proposal, Decided
      <3> QED
        BY <1>1, <3>1 DEF SalesInv, TypeOK, StatusAgrees
    <2>2. ASSUME proposal'[r] = proposal[r] PROVE Kept(r)
      BY <2>2
    <2>3. ASSUME NEW q \in Requests, NEW ops \in Ops, ~Stored(q),
                 proposal' = [proposal EXCEPT ![q].ops = ops]
          PROVE  Kept(r)
      <3>1. CASE q = r
        BY <2>1, <2>3, <3>1
      <3>2. CASE q # r
        BY <2>1, <2>2, <2>3, <3>2
      <3> QED
        BY <3>1, <3>2
    <2>4. ASSUME NEW d \in Deciders, ~Decided(decider[d].of),
                 \/ proposal' = [proposal EXCEPT ![decider[d].of].decision = "rejected"]
                 \/ CommitApproval(d)
          PROVE  Kept(r)
      <3>1. CASE r = decider[d].of
        <4>1. \/ proposal'[r] = [proposal[r] EXCEPT !.decision = "rejected"]
              \/ proposal'[r] = Applied(proposal[r])
          BY <2>1, <2>4, <3>1 DEF CommitApproval
        <4>2. proposal[r] \in Proposal
          BY <2>1
        <4>3. proposal'[r].ops = proposal[r].ops
          BY <4>1, <4>2, AppliedRow DEF Proposal
        <4> QED
          BY <2>4, <3>1, <4>3
      <3>2. CASE r # decider[d].of
        <4>1. proposal'[r] = proposal[r]
          BY <2>1, <2>4, <3>2 DEF CommitApproval
        <4> QED
          BY <2>2, <4>1
      <3> QED
        BY <3>1, <3>2
    <2> QED
      BY <1>1, <2>2, <2>3, <2>4, ProposalWrites
  <1>2. SalesInv /\ [Next]_vars => [\A r \in Requests : Kept(r)]_vars
    BY <1>1
  <1> QED
    BY <1>2, SalesInvariant, PTL DEF Spec, DecisionFinal, Decided
=============================================================================
