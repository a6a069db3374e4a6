----------------------------- MODULE FormFiling -----------------------------
(***************************************************************************)
(* How a form on the website and a call of the intake endpoint become a    *)
(* contact: the stored submissions, the hourly counter of new contacts,    *)
(* the deliveries of one submission that race each other, and the contacts *)
(* of the CRM under them, which a rep adds, archives, restores and purges  *)
(* and the nightly prune purges.                                           *)
(*                                                                         *)
(* A submission is named by its dedupeKey: a form resent within a minute   *)
(* is a second delivery of one submission. The rows of one address differ: *)
(* the unique index holds for the active ones only.                        *)
(***************************************************************************)
EXTENDS Naturals, FiniteSets

CONSTANTS
    Posts,      \* deliveries of a form_submit event
    Leads,      \* calls of intake.submit
    Forms,      \* submissions
    FormOf,     \* the submission a delivery is of
    Emails,     \* addresses
    EmailOf,    \* the address in a submission or a call
    Refused,    \* addresses that no human reads, or our own
    Contacts,   \* ids of contact rows
    NoContact,  \* no contact
    Hours,      \* hours, the windows of the counter
    CAP,        \* CONTACTS_PER_HOUR
    MaxUpsets   \* bound: failing calls of the database, stops of a process,
                \* and what reps do to the contacts

Workers == Posts \union Leads
Nobody == "nobody"

ASSUME FormFilingAssumption ==
    /\ IsFiniteSet(Posts)
    /\ FormOf \in [Posts -> Forms]
    /\ EmailOf \in [Forms \union Leads -> Emails]
    /\ Refused \subseteq Emails
    /\ Posts \intersect Leads = {}
    /\ {"rep", Nobody} \intersect Workers = {}
    /\ NoContact \notin Contacts
    /\ Hours \in Nat \ {0} /\ CAP \in Nat /\ MaxUpsets \in Nat

VARIABLES
    form,        \* the formSubmission rows
    contact,     \* the contact rows
    suppressed,  \* the suppressedContact rows
    value,       \* the trackingCounter row contacts:<hour>
    hour,        \* the time
    told,        \* contacts with an open identify task
    work,        \* the local state of each delivery and call
    notes,       \* who left a note on a contact
    expired,     \* the rows purgeExpired has listed
    upsets       \* bound: upsets so far, of those a behaviour may have

filingVars == <<form, contact, suppressed, value, hour, told, work, notes,
                expired, upsets>>
records == <<contact, suppressed, told>>
rest == <<hour, expired, upsets>>

Email(w) == IF w \in Posts THEN EmailOf[FormOf[w]] ELSE EmailOf[w]
Free == {c \in Contacts : contact[c].state = "free"}
Exists(c) == contact[c].state \in {"active", "archived", "expired"}
Active(e) == {c \in Contacts : contact[c].state = "active"
                               /\ contact[c].email = e}
Known(e) == {c \in Contacts : Exists(c) /\ contact[c].email = e}

Busy == {"look", "suppressed", "find", "take", "company", "create",
          "release", "raced", "attach", "note", "visitor", "tell", "skip"}
NoWork == [pc |-> "idle", found |-> NoContact, hour |-> 0, new |-> FALSE,
           kept |-> FALSE, at |-> "idle"]
NewRow(e, w) == [state |-> "active", email |-> e, by |-> w]

FormRow == [stored : BOOLEAN, filed : BOOLEAN, skip : BOOLEAN,
            contact : Contacts \union {NoContact}]
ContactRow == [state : {"free", "active", "archived", "expired", "purged"},
               email : Emails, by : Workers \union {"rep", Nobody}]
WorkRow == [pc : Busy \union {"idle", "done", "failed"},
            found : Contacts \union {NoContact}, hour : 0..Hours,
            new : BOOLEAN, kept : BOOLEAN, at : Busy \union {"idle"}]

FilingTypeOK ==
    /\ form \in [Forms -> FormRow]
    /\ contact \in [Contacts -> ContactRow]
    /\ suppressed \subseteq Emails
    /\ value \in [1..Hours -> Nat]
    /\ hour \in 1..Hours
    /\ told \subseteq Contacts
    /\ work \in [Workers -> WorkRow]
    /\ notes \subseteq Workers
    /\ expired \subseteq Contacts
    /\ upsets \in 0..MaxUpsets

(* Some contacts are there already, active, archived or archived for long. *)
FilingInit ==
    /\ form = [f \in Forms |-> [stored |-> FALSE, filed |-> FALSE,
                                skip |-> FALSE, contact |-> NoContact]]
    /\ contact \in [Contacts ->
          [state : {"free", "active", "archived", "expired"},
           email : Emails, by : {"rep", Nobody}]]
    /\ \A c \in Contacts : (contact[c].by = "rep") <=> Exists(c)
    /\ \A e \in Emails : Cardinality(Active(e)) <= 1
    /\ suppressed = {}
    /\ value = [h \in 1..Hours |-> 0]
    /\ hour \in 1..Hours
    /\ told = {}
    /\ work = [w \in Workers |-> NoWork]
    /\ notes = {}
    /\ expired = {}
    /\ upsets \in 0..MaxUpsets

At(w, step) == work[w].pc = step
To(row, step) == [row EXCEPT !.pc = step]
With(row, step, c, new) == [To(row, step) EXCEPT !.found = c, !.new = new]
FailedAt(row, step) == [To(row, "failed") EXCEPT !.at = step]

Becomes(w, row) == work' = [work EXCEPT ![w] = row]
Go(w, step) == Becomes(w, To(work[w], step))
GoWith(w, step, c, new) == Becomes(w, With(work[w], step, c, new))
(* An await throws, or the process stops: nothing goes on from here.       *)
Throws(w) == Becomes(w, FailedAt(work[w], work[w].pc))
-----------------------------------------------------------------------------
(* submission(): store the row once, then file it unless that is settled.  *)

StoreForm(p) ==
    LET f == FormOf[p] IN
    /\ At(p, "idle")
    /\ form' = [form EXCEPT ![f].stored = TRUE]
    /\ GoWith(p, "look", NoContact, ~form[f].stored)
    /\ UNCHANGED <<records, value, notes, rest>>

Unfiled(f) == ~form[f].filed /\ ~form[f].skip

(* Mutant: a submission that is stored already is not filed again.         *)
Look_mutant(p) ==
    /\ At(p, "look")
    /\ GoWith(p, IF ~work[p].new THEN "done"
                 ELSE IF Email(p) \in Refused THEN "skip"
                 ELSE "suppressed", NoContact, FALSE)
    /\ UNCHANGED <<form, records, value, notes, rest>>

Look(p) ==
    LET f == FormOf[p] IN
    /\ At(p, "look")
    /\ GoWith(p, IF ~work[p].new /\ ~Unfiled(f) THEN "done"
                 ELSE IF Email(p) \in Refused THEN "skip"
                 ELSE "suppressed", NoContact, FALSE)
    /\ UNCHANGED <<form, records, value, notes, rest>>

(* skip(): the row is updated by id, whatever it says by now.              *)
Skip(p) ==
    /\ At(p, "skip")
    /\ form' = [form EXCEPT ![FormOf[p]].skip = TRUE]
    /\ Go(p, "done")
    /\ UNCHANGED <<records, value, notes, rest>>

(* intake.submit() starts with the same question as file().                *)
Submit(l) ==
    /\ At(l, "idle")
    /\ Go(l, "suppressed")
    /\ UNCHANGED <<form, records, value, notes, rest>>

AskSuppressed(w) ==
    /\ At(w, "suppressed")
    /\ Go(w, IF Email(w) \notin suppressed THEN "find"
             ELSE IF w \in Posts THEN "skip" ELSE "done")
    /\ UNCHANGED <<form, records, value, notes, rest>>

(* file() looks for an active contact, intake for any; a new one costs a   *)
(* form a slot of the hour in which this look returns.                     *)
Find(w) ==
    LET seen == IF w \in Posts THEN Active(Email(w)) ELSE Known(Email(w)) IN
    /\ At(w, "find")
    /\ \/ \E c \in seen : GoWith(w, "attach", c, FALSE)
       \/ /\ seen = {}
          /\ IF w \in Posts
             THEN Becomes(w, [To(work[w], "take") EXCEPT !.hour = hour])
             ELSE Go(w, "company")
    /\ UNCHANGED <<form, records, value, notes, rest>>

(* The counter is charged and compared in one statement.                   *)
Take(p) ==
    LET h == work[p].hour IN
    /\ At(p, "take")
    /\ IF value[h] + 1 <= CAP
       THEN Go(p, "company") /\ value' = [value EXCEPT ![h] = @ + 1]
       ELSE Go(p, "skip") /\ UNCHANGED value
    /\ UNCHANGED <<form, records, notes, rest>>

CompanyFor(w) ==
    /\ At(w, "company")
    /\ Go(w, "create")
    /\ UNCHANGED <<form, records, value, notes, rest>>

(* The unique index refuses a second active contact of an address.         *)
Create(w) ==
    LET e == Email(w) IN
    /\ At(w, "create")
    /\ IF Active(e) = {}
       THEN \E c \in Free :
               /\ contact' = [contact EXCEPT ![c] = NewRow(e, w)]
               /\ GoWith(w, "attach", c, TRUE)
       ELSE /\ Go(w, IF w \in Posts THEN "release" ELSE "raced")
            /\ UNCHANGED contact
    /\ UNCHANGED <<form, suppressed, told, value, notes, rest>>

(* GREATEST(value - 1, 0).                                                 *)
Lowered(h) == [value EXCEPT ![h] = IF @ > 0 THEN @ - 1 ELSE 0]

(* Mutant: the loser of a race keeps its slot.                             *)
Release_mutant(p) ==
    /\ At(p, "release")
    /\ Go(p, "raced")
    /\ UNCHANGED <<form, records, value, notes, rest>>

Release(p) ==
    /\ At(p, "release")
    /\ value' = Lowered(work[p].hour)
    /\ Go(p, "raced")
    /\ UNCHANGED <<form, records, notes, rest>>

(* The loser of the race looks for the winner, who may be gone again.      *)
Raced(w) ==
    LET seen == IF w \in Posts THEN Active(Email(w)) ELSE Known(Email(w)) IN
    /\ At(w, "raced")
    /\ IF seen = {} THEN Throws(w)
       ELSE \E c \in seen : GoWith(w, "attach", c, FALSE)
    /\ UNCHANGED <<form, records, value, notes, rest>>

AfterAttach(w) == IF work[w].new THEN "tell" ELSE "done"

FiledFor(row, c) == [stored |-> row.stored, filed |-> TRUE, skip |-> FALSE,
                     contact |-> c]

(* Mutant: the claim does not ask whether the submission is filed.         *)
Attach_mutant(p) ==
    LET f == FormOf[p] c == work[p].found IN
    /\ p \in Posts
    /\ At(p, "attach")
    /\ IF ~Exists(c) THEN Throws(p) /\ UNCHANGED form
       ELSE /\ form' = [form EXCEPT ![f] = FiledFor(form[f], c)]
            /\ Go(p, "note")
    /\ UNCHANGED <<records, value, notes, rest>>

(* attach() claims the submission; a purged contact breaks its foreign key. *)
Attach(p) ==
    LET f == FormOf[p] c == work[p].found IN
    /\ p \in Posts
    /\ At(p, "attach")
    /\ IF form[f].filed THEN Go(p, AfterAttach(p)) /\ UNCHANGED form
       ELSE IF ~Exists(c) THEN Throws(p) /\ UNCHANGED form
       ELSE /\ form' = [form EXCEPT ![f] = FiledFor(form[f], c)]
            /\ Go(p, "note")
    /\ UNCHANGED <<records, value, notes, rest>>

(* The note of a submission, and the note of a lead (log()).               *)
Note(w) ==
    /\ At(w, IF w \in Posts THEN "note" ELSE "attach")
    /\ IF Exists(work[w].found)
       THEN /\ notes' = notes \union {w}
            /\ Go(w, IF w \in Posts THEN "visitor" ELSE AfterAttach(w))
       ELSE Throws(w) /\ UNCHANGED notes
    /\ UNCHANGED <<form, records, value, rest>>

(* The visitor is bound to the contact.                                    *)
Visitor(p) ==
    /\ At(p, "visitor")
    /\ IF Exists(work[p].found) THEN Go(p, AfterAttach(p)) ELSE Throws(p)
    /\ UNCHANGED <<form, records, value, notes, rest>>

(* contactCreated(): a failed write is logged and forgotten.               *)
Tell(w) ==
    /\ At(w, "tell")
    /\ told' = told \union {work[w].found}
    /\ Go(w, "done")
    /\ UNCHANGED <<form, contact, suppressed, value, notes, rest>>
-----------------------------------------------------------------------------
(* Faults. The insert that throws hands its slot back; a counter that      *)
(* cannot be reached refuses the contact, and keeps a slot handed back.    *)

Upset == upsets < MaxUpsets /\ upsets' = upsets + 1
Fault == Upset /\ UNCHANGED <<records, notes, hour, expired>>

Fail(w) == Fault /\ work[w].pc \in Busy /\ Throws(w) /\ UNCHANGED <<form, value>>

InsertFails(p) ==
    /\ Fault
    /\ p \in Posts /\ At(p, "create")
    /\ Becomes(p, FailedAt(work[p], "raced"))
    /\ value' = Lowered(work[p].hour)
    /\ UNCHANGED form

CounterFails(p) ==
    /\ Fault
    /\ \/ At(p, "take") /\ Go(p, "skip")
       \/ /\ At(p, "release")
          /\ Becomes(p, [To(work[p], "raced") EXCEPT !.kept = TRUE])
    /\ UNCHANGED <<form, value>>

TaskFails(w) ==
    /\ Fault
    /\ At(w, "tell") /\ Go(w, "done")
    /\ UNCHANGED <<form, value>>
-----------------------------------------------------------------------------
(* The reps and the nightly prune.                                         *)

Act == Upset /\ UNCHANGED <<value, work, notes, hour, expired>>

(* contacts.create() lifts the suppression of the address it adds.         *)
Add(e) ==
    /\ Act
    /\ Active(e) = {}
    /\ \E c \in Free : /\ contact' = [contact EXCEPT ![c] = NewRow(e, "rep")]
                       /\ told' = told \union {c}
    /\ suppressed' = suppressed \ {e}
    /\ UNCHANGED form

Archive(c) ==
    /\ Act
    /\ Exists(c)
    /\ contact' = [contact EXCEPT ![c].state = "archived"]
    /\ UNCHANGED <<form, suppressed, told>>

Restore(c) ==
    /\ Act
    /\ Exists(c) /\ Active(contact[c].email) \ {c} = {}
    /\ contact' = [contact EXCEPT ![c].state = "active"]
    /\ UNCHANGED <<form, suppressed, told>>

(* The row goes, its tasks with it, its address is suppressed, and what    *)
(* pointed at it points at nothing.                                        *)
Gone(c) ==
    /\ contact' = [contact EXCEPT ![c].state = "purged"]
    /\ told' = told \ {c}
    /\ suppressed' = suppressed \union {contact[c].email}
    /\ form' = [f \in Forms |->
          IF form[f].contact = c THEN [form[f] EXCEPT !.contact = NoContact]
          ELSE form[f]]

Purge(c) == Act /\ Exists(c) /\ Gone(c)

(* An archived row passes the retention; purgeExpired lists such rows and  *)
(* purges each after asking again under a row lock.                        *)
Age(c) ==
    /\ contact[c].state = "archived"
    /\ contact' = [contact EXCEPT ![c].state = "expired"]
    /\ UNCHANGED <<form, suppressed, told, value, work, notes, rest>>

ListExpired ==
    /\ expired = {}
    /\ expired' = {c \in Contacts : contact[c].state = "expired"}
    /\ expired' # {}
    /\ UNCHANGED <<form, records, value, work, notes, hour, upsets>>

PruneOne(c) ==
    /\ c \in expired
    /\ expired' = expired \ {c}
    /\ IF contact[c].state = "expired" THEN Gone(c)
       ELSE UNCHANGED <<form, records>>
    /\ UNCHANGED <<value, work, notes, hour, upsets>>

(* An hour passes, deliveries under way or not.                            *)
HourPasses ==
    /\ hour < Hours
    /\ hour' = hour + 1
    /\ UNCHANGED <<form, records, value, work, notes, expired, upsets>>

Settle(p) == \/ Look(p) \/ Skip(p) \/ Take(p) \/ Release(p) \/ Attach(p)
             \/ Visitor(p) \/ InsertFails(p) \/ CounterFails(p)
Filing(w) == \/ AskSuppressed(w) \/ Find(w) \/ CompanyFor(w) \/ Create(w)
          \/ Raced(w) \/ Note(w) \/ Tell(w) \/ Fail(w) \/ TaskFails(w)
Reps == \/ \E e \in Emails : Add(e)
        \/ \E c \in Contacts : Archive(c) \/ Restore(c) \/ Purge(c)
Prune == ListExpired \/ \E c \in Contacts : Age(c) \/ PruneOne(c)

FilingNext ==
    \/ \E p \in Posts : StoreForm(p) \/ Settle(p)
    \/ \E l \in Leads : Submit(l)
    \/ \E w \in Workers : Filing(w)
    \/ Reps \/ Prune \/ HourPasses

FilingSpec == FilingInit /\ [][FilingNext]_filingVars
-----------------------------------------------------------------------------
(* Each filed submission was claimed by exactly one delivery, which has    *)
(* left its note, is about to, or failed in between: no two deliveries     *)
(* leave a note each, and a row nobody claimed is not filed.               *)
Claims(f) == {p \in Posts : /\ FormOf[p] = f
                            /\ \/ p \in notes \/ At(p, "note")
                               \/ At(p, "failed") /\ work[p].at = "note"}
NotesAccounted == \A f \in Forms :
    Cardinality(Claims(f)) = IF form[f].filed THEN 1 ELSE 0

(* The counter of an hour counts the contacts made in it, the slots held   *)
(* by deliveries under way, and those lost by deliveries that failed while *)
(* they held one, or not taken back by the counter. Any other lost race    *)
(* hands its slot back, no contact is free, and no more than CAP contacts  *)
(* are made for an hour, that of the delivery's look: one that looked      *)
(* before the hour turned may make its contact after it.                   *)
Holding == {"company", "create", "release"}
Slots(h) == {p \in Posts : /\ work[p].hour = h
                           /\ \/ work[p].pc \in Holding \/ work[p].kept
                              \/ At(p, "failed") /\ work[p].at \in Holding
                              \/ \E c \in Contacts : contact[c].by = p}
SlotsAccounted == \A h \in 1..Hours :
    value[h] = Cardinality(Slots(h)) /\ value[h] <= CAP

(* A delivery that ended without an error leaves its submission filed or   *)
(* refused with a reason; only what threw is left for a resend.            *)
AnsweredIsSettled == \A p \in Posts :
    At(p, "done") => ~Unfiled(FormOf[p])

(* "Adding them back lifts the suppression" (docs/api.md): the address of  *)
(* an active contact that a rep added is not suppressed.                   *)
AddedBackIsHeard == \A c \in Contacts :
    contact[c].state = "active" /\ contact[c].by = "rep"
      => contact[c].email \notin suppressed
=============================================================================
