---------------------------- MODULE MailboxSync ----------------------------
(***************************************************************************)
(* One mailbox (a user and one of the sources gmail, outlook, calendar):   *)
(* its MailboxSync row, the cron ticks and the "sync now" requests that    *)
(* read it, connecting and disconnecting it, and what the provider shows.  *)
(*                                                                         *)
(* Messages, and changes of a calendar, are numbered as they arrive; at[m] *)
(* is the position the provider gives message m, the history id of Gmail   *)
(* or the receivedDateTime of Outlook, where two messages may share one.   *)
(* Time is not counted: a retryAfter is held until RetryElapses.           *)
(***************************************************************************)
EXTENDS Naturals, Sequences, FiniteSets, FiniteSetsExt

CONSTANTS
    Syncs,       \* concurrent ticks and "sync now" requests
    MaxMail,     \* the number of messages a run knows at most
    Instances,   \* the sources and bounds a behaviour may have, see below
    Batch,       \* MAX_MESSAGES_PER_TICK, MAX_PAGES_PER_TICK
    HistoryPage  \* maxResults of history.list

(* An instance: the source, and bounds on the messages that arrive, on the *)
(* rows created (one per connection), and on what upsets the syncs: a      *)
(* failure of the provider or the database, a crash, a sync that outlives  *)
(* its lease, "sync now", a second onConnected, a purge.                   *)
Instance == [source : {"gmail", "outlook", "calendar"},
             mail : 0..MaxMail, rows : Nat, upsets : Nat]

ASSUME MailboxAssumption ==
    /\ MaxMail \in Nat /\ Instances \subseteq Instance
    /\ Batch \in Nat \ {0} /\ HistoryPage \in Nat \ {0}

VARIABLES
    of,        \* the instance; of.source is MailboxSync.source
    at,        \* provider: positions of the messages, in order of arrival
    work,      \* provider: messages of a person or company of the CRM
    floor,     \* provider: a cursor below this one has expired
    row,       \* the MailboxSync row
    fresh,     \* ticks whose listed copy of the row has the current updatedAt
    sync,      \* the local state of each tick or request
    scope,     \* account.scope holds the scope of the source
    looking,   \* onConnected has seen the scope and no row, ensure is next
    revoking,  \* revoke has removed the row, the tokens are next
    stored,    \* messages with an EmailMessage (events with a CalendarEvent)
    dropped,   \* history: messages whose own read failed, or were purged
    overlooked,\* history: messages past the one page of a history.list that a
               \* settle has moved the cursor over
    first,     \* history: position at which this row was created
    since,     \* history: the latest position the row was started from
    rows,      \* bound: rows created so far
    upsets     \* bound: upsets so far

vars == <<of, at, work, floor, row, fresh, sync, scope, looking, revoking,
          stored, dropped, overlooked, first, since, rows, upsets>>
provider == <<of, at, work, floor>>
account == <<scope, looking, revoking>>
history == <<first, since>>

None == MaxMail + 1                  \* a null cursor
Keep == MaxMail + 2                  \* settle leaves the cursor alone
NoRow == [rid |-> 0, status |-> "IDLE", held |-> FALSE, cursor |-> None]
Idle == [pc |-> "idle", tick |-> FALSE, listed |-> 0, rid |-> 0,
         cursor |-> None, next |-> None, todo |-> {}]

source == of.source
Messages == DOMAIN at
Now == IF at = << >> THEN 0 ELSE at[Len(at)]

(* The first n messages of ms, in the order of their arrival.              *)
FirstOf(n, ms) == {m \in ms : Cardinality({k \in ms : k <= m}) <= n}

(* What the provider has after cursor c: history.list, the filter of       *)
(* listMessages with its overlap, events.list with a syncToken or without. *)
After(c) ==
    CASE source = "gmail"    -> {m \in Messages : at[m] > c}
      [] source = "outlook"  -> {m \in Messages : at[m] >= c}
      [] source = "calendar" -> {m \in Messages : c = None \/ at[m] > c}

(* What a pass lists of it. Of history.list it reads one page, and does    *)
(* not follow the nextPageToken.                                           *)
Window(c) == IF source = "gmail" THEN FirstOf(HistoryPage, After(c)) ELSE After(c)

(* What a cursor that moves from c to n leaves behind without listing it.  *)
Unlisted(c, n) == {m \in Messages \ Window(c) : c < at[m] /\ at[m] <= n}

TypeOK ==
    /\ of \in Instances
    /\ at \in Seq(1..MaxMail) /\ Len(at) <= MaxMail
    /\ work \subseteq Messages /\ stored \subseteq Messages
    /\ dropped \subseteq Messages /\ overlooked \subseteq Messages
    /\ floor \in 0..MaxMail /\ first \in 0..MaxMail /\ since \in 0..MaxMail
    /\ row \in [rid : 0..of.rows, held : BOOLEAN, cursor : 0..None,
                status : {"IDLE", "RUNNING", "FAILED", "NEEDS_RECONNECT"}]
    /\ fresh \subseteq Syncs
    /\ scope \in BOOLEAN /\ looking \in BOOLEAN /\ revoking \in BOOLEAN
    /\ rows \in 0..of.rows /\ upsets \in 0..of.upsets
    /\ \A s \in Syncs :
          /\ sync[s].pc \in {"idle", "listed", "claimed", "got", "begun", "fetched"}
          /\ sync[s].cursor \in 0..None /\ sync[s].next \in 0..Keep
          /\ sync[s].todo \subseteq Messages

Init ==
    /\ of \in Instances
    /\ at = << >> /\ work = {} /\ floor = 0
    /\ row = NoRow /\ fresh = {} /\ sync = [s \in Syncs |-> Idle]
    /\ scope = FALSE /\ looking = FALSE /\ revoking = FALSE
    /\ stored = {} /\ dropped = {} /\ overlooked = {}
    /\ first = 0 /\ since = 0
    /\ rows = 0 /\ upsets = 0

(***************************************************************************)
(* The provider: a message arrives; Gmail and the calendar forget what is  *)
(* old.                                                                    *)
(***************************************************************************)
Arrive ==
    /\ Len(at) < of.mail
    /\ \E p \in {Now, Now + 1} :
          /\ p = Now => source = "outlook" /\ Now > 0
          /\ at' = Append(at, p)
    /\ \E w \in BOOLEAN : work' = IF w THEN work \union {Len(at) + 1} ELSE work
    /\ UNCHANGED <<of, floor, row, fresh, sync, account, stored, dropped, overlooked,
                   history, rows, upsets>>

Upset == upsets < of.upsets /\ upsets' = upsets + 1

Expire ==
    /\ source \in {"gmail", "calendar"} /\ floor < Now /\ Upset
    /\ floor' = Now
    /\ UNCHANGED <<of, at, work, row, fresh, sync, account, stored, dropped, overlooked,
                   history, rows>>

(***************************************************************************)
(* Writes of the row. Every one gives it a new updatedAt.                  *)
(***************************************************************************)
Write(r) == row' = r /\ fresh' = {}

Stop(s) == sync' = [sync EXCEPT ![s] = Idle]

(* A throw inside a sync: runDue marks the row it listed FAILED, which     *)
(* throws again, out of the tick, when that row is gone; "sync now" just   *)
(* rejects.                                                                *)
Threw(s) ==
    /\ IF sync[s].tick /\ row.rid = sync[s].listed
       THEN Write([row EXCEPT !.status = "FAILED", !.held = FALSE])
       ELSE UNCHANGED <<row, fresh>>
    /\ Stop(s) /\ UNCHANGED history

(* db.mailboxSync.update by id, the last act of a sync: it throws when the *)
(* row was removed.                                                        *)
FinishWith_mutant(s, r) ==
    IF row # NoRow THEN Write(r) /\ Stop(s) /\ UNCHANGED history ELSE Threw(s)

FinishWith(s, r) ==
    IF row.rid = sync[s].rid THEN Write(r) /\ Stop(s) /\ UNCHANGED history
                             ELSE Threw(s)

(***************************************************************************)
(* runDue: the due rows are listed once, then claimed one by one. A        *)
(* "sync now" request syncs without a claim, whatever the row's status.    *)
(***************************************************************************)
Due_mutant(r) == r # NoRow /\ r.status \notin {"NEEDS_RECONNECT", "FAILED"} /\ ~r.held

Due(r) == r # NoRow /\ r.status # "NEEDS_RECONNECT" /\ ~r.held

ListDue(s) ==
    /\ sync[s].pc = "idle" /\ Due(row)
    /\ sync' = [sync EXCEPT ![s] = [Idle EXCEPT !.pc = "listed", !.tick = TRUE,
                                                !.listed = row.rid]]
    /\ fresh' = fresh \union {s}
    /\ UNCHANGED <<provider, row, account, stored, dropped, overlooked, history,
                   rows, upsets>>

Claim(s) ==
    /\ sync[s].pc = "listed"
    /\ IF row.rid = sync[s].listed /\ s \in fresh /\ Due(row)
       THEN /\ Write([row EXCEPT !.status = "RUNNING", !.held = TRUE])
            /\ sync' = [sync EXCEPT ![s].pc = "claimed"]
       ELSE /\ Stop(s)
            /\ fresh' = fresh \ {s} /\ UNCHANGED row
    /\ UNCHANGED <<provider, account, stored, dropped, overlooked, history,
                   rows, upsets>>

SyncNow(s) ==
    /\ sync[s].pc = "idle" /\ row # NoRow /\ Upset
    /\ sync' = [sync EXCEPT ![s].pc = "claimed"]
    /\ UNCHANGED <<provider, row, fresh, account, stored, dropped, overlooked,
                   history, rows>>

(* A sync that did nothing: a tick releases the row it claimed.            *)
Skipped(s) ==
    /\ IF sync[s].tick /\ row.rid = sync[s].listed
       THEN Write([row EXCEPT !.held = FALSE]) ELSE UNCHANGED <<row, fresh>>
    /\ Stop(s)

(* runOne reads the row again, by user and source. Outlook takes the time  *)
(* first of all.                                                           *)
Get(s) ==
    /\ sync[s].pc = "claimed"
    /\ IF row = NoRow
       THEN Skipped(s)
       ELSE /\ sync' = [sync EXCEPT ![s].pc = "got", ![s].rid = row.rid,
                                    ![s].cursor = row.cursor, ![s].next = Now]
            /\ UNCHANGED <<row, fresh>>
    /\ UNCHANGED <<provider, account, stored, dropped, overlooked, history,
                   rows, upsets>>

NotConnected(s) ==
    /\ sync[s].pc = "got" /\ ~scope
    /\ Skipped(s)
    /\ UNCHANGED <<provider, account, stored, dropped, overlooked, history,
                   rows, upsets>>

TokenRefused(s) ==
    /\ sync[s].pc = "got" /\ scope /\ Upset
    /\ FinishWith(s, [row EXCEPT !.status = "NEEDS_RECONNECT", !.held = FALSE])
    /\ UNCHANGED <<provider, account, stored, dropped, overlooked, rows>>

(* markRunning keeps the lease; the profile of Gmail, read next, holds the *)
(* mailbox's current history id.                                           *)
MarkRunning(s) ==
    /\ sync[s].pc = "got" /\ scope
    /\ IF row.rid = sync[s].rid
       THEN /\ Write([row EXCEPT !.status = "RUNNING"])
            /\ sync' = [sync EXCEPT ![s].pc = "begun",
                                    ![s].next = IF source = "gmail" THEN Now ELSE @]
            /\ UNCHANGED history
       ELSE Threw(s)
    /\ UNCHANGED <<provider, account, stored, dropped, overlooked, rows, upsets>>

(***************************************************************************)
(* One sync of one source.                                                 *)
(***************************************************************************)
(* The first pass records where the mailbox is now and imports nothing.    *)
Start(s) ==
    /\ sync[s].pc = "begun" /\ sync[s].cursor = None /\ source # "calendar"
    /\ IF row.rid = sync[s].rid
       THEN /\ Write([row EXCEPT !.cursor = sync[s].next, !.status = "RUNNING",
                                 !.held = FALSE])
            /\ since' = Max({since, sync[s].next})
            /\ Stop(s) /\ UNCHANGED first
       ELSE Threw(s)
    /\ UNCHANGED <<provider, account, stored, dropped, overlooked, rows, upsets>>

(* history.list answers 404, events.list 410: the cursor is cleared. Gmail *)
(* does not read the gap, the calendar lists everything once more.         *)
Expired(s) ==
    /\ sync[s].pc = "begun"
    /\ sync[s].cursor # None /\ sync[s].cursor < floor
    /\ FinishWith(s, [row EXCEPT !.cursor = None, !.status = "IDLE", !.held = FALSE])
    /\ UNCHANGED <<provider, account, stored, dropped, overlooked, rows, upsets>>

(* Gmail: of the page's messages that are not stored the first Batch; the  *)
(* cursor moves to the mailbox's current history id when none of the page  *)
(* remains.                                                                *)
GmailPlan_mutant(c) ==
    [todo |-> FirstOf(Batch, Window(c) \ stored), next |-> Now]

GmailPlan(c) ==
    LET pending == Window(c) \ stored
    IN  [todo |-> FirstOf(Batch, pending),
         next |-> IF Cardinality(pending) > Batch THEN c ELSE Now]

(* Outlook: the first Batch messages after the overlap; the cursor moves   *)
(* to the furthest receivedDateTime seen.                                  *)
OutlookPlan(c) ==
    LET seen == FirstOf(Batch, Window(c))
    IN  [todo |-> seen, next |-> Max({c} \union {at[m] : m \in seen})]

(* Calendar: pages of one change; past the page budget the page token is   *)
(* forgotten and settle leaves the cursor alone.                           *)
CalendarPlan(c) ==
    [todo |-> FirstOf(Batch, Window(c)),
     next |-> IF Cardinality(Window(c)) > Batch THEN Keep ELSE Now]

Plan(c) == CASE source = "gmail" -> GmailPlan(c)
             [] source = "outlook" -> OutlookPlan(c)
             [] source = "calendar" -> CalendarPlan(c)

Fetch(s) ==
    /\ sync[s].pc = "begun"
    /\ source # "calendar" => sync[s].cursor # None
    /\ sync[s].cursor >= floor
    /\ LET plan == Plan(sync[s].cursor) IN
       sync' = [sync EXCEPT ![s].pc = "fetched", ![s].todo = plan.todo,
                            ![s].next = plan.next]
    /\ UNCHANGED <<provider, row, fresh, account, stored, dropped, overlooked,
                   history, rows, upsets>>

(* The message whose turn it is.                                          *)
Turn(s, m) == m \in sync[s].todo /\ \A k \in sync[s].todo : m <= k
Done(s, m) == sync' = [sync EXCEPT ![s].todo = @ \ {m}]

(* store, or apply: nothing is kept of a message nobody in the CRM is on.  *)
Store(s) ==
    /\ sync[s].pc = "fetched"
    /\ \E m \in Messages :
          Turn(s, m) /\ Done(s, m) /\ stored' = stored \union ({m} \intersect work)
    /\ UNCHANGED <<provider, row, fresh, account, dropped, overlooked, history,
                   rows, upsets>>

(* Gmail: one message that cannot be read is passed over.                  *)
ReadFails(s) ==
    /\ sync[s].pc = "fetched" /\ source = "gmail" /\ Upset
    /\ \E m \in Messages :
          Turn(s, m) /\ Done(s, m) /\ dropped' = dropped \union {m}
    /\ UNCHANGED <<provider, row, fresh, account, stored, overlooked, history, rows>>

StoreThrows(s) ==
    /\ sync[s].pc = "fetched" /\ sync[s].todo # {} /\ Upset
    /\ Threw(s)
    /\ UNCHANGED <<provider, account, stored, dropped, overlooked, rows>>

(* handleFailure, for the profile, the folders, the listing or a page.     *)
ProviderFails(s) ==
    /\ \/ sync[s].pc = "begun"
       \/ sync[s].pc = "fetched" /\ sync[s].todo # {} /\ source # "gmail"
    /\ Upset
    /\ \/ FinishWith(s, [row EXCEPT !.status = "NEEDS_RECONNECT", !.held = FALSE])
       \/ FinishWith(s, [row EXCEPT !.status = "IDLE", !.held = TRUE])
       \/ FinishWith(s, [row EXCEPT !.status = "FAILED", !.held = FALSE])
    /\ UNCHANGED <<provider, account, stored, dropped, overlooked, rows>>

Settled(s, r) ==
    IF sync[s].next = Keep
    THEN [r EXCEPT !.status = "IDLE", !.held = FALSE]
    ELSE [r EXCEPT !.cursor = sync[s].next, !.status = "RUNNING", !.held = FALSE]

Settle(s) ==
    /\ sync[s].pc = "fetched" /\ sync[s].todo = {}
    /\ FinishWith(s, Settled(s, row))
    /\ overlooked' = IF row.rid = sync[s].rid
                     THEN overlooked \union Unlisted(sync[s].cursor, sync[s].next)
                     ELSE overlooked
    /\ UNCHANGED <<provider, account, stored, dropped, rows, upsets>>

Crash(s) ==
    /\ sync[s].pc # "idle" /\ Upset
    /\ Stop(s) /\ fresh' = fresh \ {s}
    /\ UNCHANGED <<provider, row, account, stored, dropped, overlooked, history, rows>>

(* The lease, or the back-off the provider asked for, is over.             *)
RetryElapses ==
    /\ row.held
    /\ IF \A s \in Syncs : sync[s].pc \in {"idle", "listed"}
       THEN UNCHANGED upsets ELSE Upset
    /\ row' = [row EXCEPT !.held = FALSE]
    /\ UNCHANGED <<provider, fresh, sync, account, stored, dropped, overlooked,
                   history, rows>>

(***************************************************************************)
(* Connecting, disconnecting, purging.                                     *)
(***************************************************************************)
Grant ==
    /\ ~scope /\ ~revoking
    /\ scope' = TRUE
    /\ UNCHANGED <<provider, row, fresh, sync, looking, revoking, stored,
                   dropped, overlooked,
                   history, rows, upsets>>

(* onConnected, of a tick or of the settings page, reads scope and rows.   *)
Look ==
    /\ scope /\ row = NoRow /\ ~looking
    /\ looking' = TRUE
    /\ UNCHANGED <<provider, row, fresh, sync, scope, revoking, stored, dropped,
                   overlooked,
                   history, rows, upsets>>

(* ensure is an upsert; another onConnected may still be looking.          *)
Ensure ==
    /\ looking
    /\ \/ looking' = FALSE /\ UNCHANGED upsets
       \/ looking' = TRUE /\ Upset
    /\ IF row = NoRow
       THEN /\ rows < of.rows /\ rows' = rows + 1
            /\ Write([NoRow EXCEPT !.rid = rows + 1])
            /\ first' = Now /\ UNCHANGED since
       ELSE /\ Write([row EXCEPT !.status = "IDLE", !.held = FALSE])
            /\ UNCHANGED <<rows, history>>
    /\ UNCHANGED <<provider, sync, scope, revoking, stored, dropped, overlooked>>

(* revoke removes the row, then asks for the tokens to be revoked, which   *)
(* the provider may refuse.                                                *)
RemoveRow ==
    /\ row # NoRow /\ ~revoking /\ rows < of.rows
    /\ Write(NoRow) /\ revoking' = TRUE
    /\ UNCHANGED <<provider, sync, scope, looking, stored, dropped, overlooked,
                   history, rows, upsets>>

RevokeTokens ==
    /\ revoking /\ revoking' = FALSE
    /\ scope' \in {FALSE, scope}
    /\ UNCHANGED <<provider, row, fresh, sync, looking, stored, dropped,
                   overlooked, history,
                   rows, upsets>>

PurgeSyncedData ==
    /\ stored # {} /\ Upset
    /\ stored' = {} /\ dropped' = dropped \union stored
    /\ UNCHANGED <<provider, row, fresh, sync, account, overlooked, history, rows>>

(***************************************************************************)
(* Specification. A sync that runs goes on, the cron lists the due rows    *)
(* again, time passes; upsets are bounded, users need never do anything.   *)
(***************************************************************************)
Work(s) ==
    \/ ListDue(s) \/ Claim(s) \/ Get(s) \/ NotConnected(s) \/ MarkRunning(s)
    \/ Start(s) \/ Expired(s) \/ Fetch(s) \/ Store(s) \/ Settle(s)

Breaks(s) ==
    \/ TokenRefused(s) \/ ReadFails(s) \/ StoreThrows(s) \/ ProviderFails(s)
    \/ Crash(s)

Next ==
    \/ Arrive \/ Expire
    \/ \E s \in Syncs : Work(s) \/ SyncNow(s) \/ Breaks(s)
    \/ RetryElapses
    \/ Grant \/ Look \/ Ensure \/ RemoveRow \/ RevokeTokens \/ PurgeSyncedData

Spec == Init /\ [][Next]_vars
FairSpec == Spec /\ WF_vars(RetryElapses) /\ \A s \in Syncs : WF_vars(Work(s))

(***************************************************************************)
(* Properties.                                                             *)
(***************************************************************************)
Handled(m) == m \in stored \union dropped

Awaited(m) == m \in work /\ at[m] > since /\ ~Handled(m)

(* Mail that arrived after the watch began is stored, was passed over by   *)
(* name, or lies after the cursor, where later passes list it: whatever    *)
(* ticks, requests, crashes and late settles did, a cursor jumps over no   *)
(* message that its pass had listed. What Gmail has past the one page that *)
(* a pass reads is jumped over, see PassesResume.                          *)
NothingMissed ==
    row # NoRow /\ row.cursor # None =>
        \A m \in work : Awaited(m) => m \in After(row.cursor) \union overlooked

(* "The cursor makes the next tick resume" and "only advances on a settled *)
(* pass, so at worst a window is re-read" (docs/plan/gmail-calendar-plan): *)
(* what no pass has handled is still ahead of the next one. Nothing but    *)
(* the mail of Gmail past the page of history it reads breaks this.        *)
PassesResume ==
    row # NoRow /\ row.cursor # None =>
        \A m \in work : Awaited(m) => m \in After(row.cursor)

(* A connection never reads from before it was first seen: a sync of the   *)
(* connection before it cannot settle its own, older cursor on the new row *)
(* ("Nothing from before a mailbox was first seen is ever imported").      *)
ForwardOnly ==
    row.cursor # None /\ source # "calendar" => row.cursor >= first

(* What the next pass starts with can be more than one pass handles:       *)
(* messages of Gmail that are never stored, messages of Outlook that share *)
(* an instant, changes of a calendar.                                      *)
Crowded ==
    CASE source = "gmail"    -> Cardinality(Messages \ work) >= Batch
      [] source = "outlook"  ->
            \E m \in Messages : Cardinality({n \in Messages : at[n] = at[m]}) >= Batch
      [] source = "calendar" -> Len(at) > Batch

Watched(m) ==
    /\ m \in work /\ at[m] > since
    /\ row # NoRow /\ row.status # "NEEDS_RECONNECT" /\ scope
    /\ source # "calendar" => row.cursor # None

(* Mail of a watched mailbox is read in the end, whatever failed on the    *)
(* way, unless the mailbox is crowded or was disconnected, or a settle has *)
(* moved past it unlisted.                                                 *)
MailArrives ==
    \A m \in 1..MaxMail :
        (m \in Messages /\ Watched(m)) ~>
            (Handled(m) \/ ~Watched(m) \/ Crowded \/ m \in overlooked)
============================================================================
