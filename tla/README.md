# A TLA+ development of Freehold AI CRM

This directory models the parts of the CRM where things happen at the same time: the agent's
work queue, the sweep that works on it, the research and the company lane, sales proposals,
the runs of deployed agents and what they do, the chats in which agents are built, their
versions, schedules and event triggers, the sync of mailboxes, and the tracking of a website
with the contacts it files. TLC checks each on small instances, and TLAPS proves the most
important properties for every instance. The code is in `src/`; paths below are relative to
it. `PROJECT.json` names, for each definition, the lines it translates, for each property a
plausible bug that would break it, and the hazards of the code with the properties that watch
them.

## 1. The system

A fork of Comp AI CRM: a Bun/TypeScript monorepo over one Postgres database.

- `apps/api` is a NestJS server. Every handler that matters is one transaction of Prisma,
  many of which lock a row first (`SELECT ... FOR UPDATE`) or take an advisory lock.
- `apps/agent` is the agent: a process on the *eve* runtime. A schedule wakes it every
  minute (`schedules/dispatch.ts`), the API pokes it through bridge routes when
  something is due (`AgentTriggerService`), and either makes a *pass* over the lanes. Calls
  are collapsed into one pass, but one that overruns is abandoned and goes on beside the next;
  each `await` is a place where another may go on, and the process may stop anywhere. Sessions of eve (turns of a model with tools) are durable: they survive
  a stop, and report to `channels/crm.ts` and `hooks/audit.ts` by events.
- `apps/app` is the user interface, and `packages/*` hold the schema, shared writes,
  authentication and validation. `deploy/startos` packages it all.

The processes share no memory. They meet in rows, and they coordinate with leases (a row is
mine until a time), with conditional updates (`updateMany` with the expected status in
`where`), with idempotency keys and with row locks. What can go wrong is therefore of four
kinds: a lease runs out while its holder still works; something read before a lock or an
`await` is stale when it is used; the agent stops between two steps; and an event, an answer
or a second attempt comes late. A step of a model is at most one transaction or statement of
the code together with the decision taken from it; where the running out of a lease is
joined with the recovery that notices it, the definition says so.

### Components

| component | state | operations | what makes it correct | here |
|---|---|---|---|---|
| work queue (`lib/tasks.ts`) | rows of `agentTask`: lease, attempts, due time, ending | enqueue, claim, complete, retire, schedule | a row ends once; a live lease is respected; every row ends | `TaskQueue` |
| research lane (`lib/dispatch.ts`, `stale-tasks.ts`, `enrichment.ts`, `channels/crm.ts`) | sessions, the contact's enrichment status | dispatch, end of turn, sweep, fresh look, booking | only the queue's steps; a person's fresh request is not overwritten; a booked look takes place | `ResearchLane` |
| sales requests (`sales.service.ts`, `sales-worker.ts`, `packages/db/src/sales.ts`) | `salesRequest`, `salesProposal`, the contact's revision | request, extract, store, approve, reject | decided once; applied only to the revision reviewed; always answered | `SalesProposals` |
| agent runs (`custom-agent-dispatch.ts`, `agent-runs.service.ts`, `run-runtime.ts`, `audit.ts`) | `agentRun`, deliveries, turns | queue, deliver, link, approve, cancel, time out, recover | one run at a time; a pending decision is waited for; nothing hangs | `RunLifecycle`, `AgentRuns` |
| actions of a run (`run-runtime.ts`) | `agentAction`, activities, Slack | plan, claim, write, post, approve, finish | nothing unapproved is posted; rows tell what was done | `RunActions` |
| builder chats (`custom-agent-dispatch.ts`, `builder-input.ts`, `conversations.service.ts`) | submissions, the continuation of eve's session, the question shown | submit, claim, send, recover, ask, answer | in order; not repeated without cause; always settled | `BuilderChats` |
| versions and triggers (`agent-definitions.service.ts`, `builder-runtime.ts`) | agent, versions, triggers, schedules | draft, revise, deploy, pause, remove, schedule, match an event | only approved versions run; a schedule moves forward; a stopped agent rests | `AgentVersions` |
| dispatch sweep (`lib/pool.ts`, `dispatch.ts`, `schedules/dispatch.ts`) | the pass under way, the catch-up owed, sweeps abandoned, all in memory | collapse, run, abandon, forget, report | a call is followed by a pass; sweeps do not pile up; health tells the truth | `DispatchSweep` |
| company lane (`lib/brand.ts`, `dispatch.ts`, `companies.service.ts`, `backfill.service.ts`) | status and domain of a company, handlers | claim, look up, settle, rename, ask, sign-in sweep | what was found stays; no status nobody watches; what failed is tried again | `CompanyLane` |
| mailbox sync (`apps/api/src/mailbox`, `google`, `microsoft`) | the `MailboxSync` row with lease, cursor and retry, stored messages | claim, fetch, settle, sync now, connect, disconnect, purge | no cursor jumps over mail that was listed; mail arrives; a new connection is not rewound | `MailboxSync` |
| website tracking (`apps/api/src/tracking`) | settings, compiled config with cache and hash, submissions, hourly counter, page views and their daily counts | serve the config, change it, collect, file, count and delete | a stale config goes; one note and contact per form; every slot accounted for; no view lost | `TrackingConfig`, `FormFiling`, `TrackingRetention`, `WebTracking` |
| intake (`apps/api/src/intake`) | contacts and notes | submit | one active contact per address | `FormFiling` |
| CRM records (`contacts`, `companies`, `deals`, ...) | records, suppressed addresses | create, edit, archive, restore, purge, prune | | the life of a contact in `FormFiling` |
| model credentials (`lib/codex`) | sealed tokens | sign in, refresh under a lock | a refresh token is used once | not modelled |
| facts and evidence (`lib/facts.ts`, `evidence.ts`) | facts with source and rank | record, apply | the better source wins | not modelled |
| record history, CSV import, Slack inventory | logs, mirrors | one transaction each | | not modelled |
| user interface, transport, accounts, search, telemetry, packaging | none that changes over time, or delegated to a library | | | not modelled, see section 7 |

How they meet: the API inserts `agentTask`, `salesRequest`, `agentRun`, submission and
trigger rows, and pokes the agent; the agent's passes claim them; the sessions they start
call tools, which write `agentAction`, activities and proposals; people decide in the API
about what waits. Outside of that, a cron request of the API syncs mailboxes, another counts
and deletes views, and requests of the website's visitors file contacts while reps work on them.
In the model `ResearchLane` extends `TaskQueue` and implements it; `CompanyLane` extends
`ResearchLane` (one table, one way of settling, one stale-task sweep) and implements `TaskQueue`
too; `DispatchSweep` is the pass in which both lanes claim;
`AgentVersions` ends where a run is queued, `AgentRuns` has the run from there to its end,
and `RunActions` what one run does between the start of its session and its end. `AgentRuns`
implements `RunLifecycle`. `WebTracking` composes `TrackingConfig`, `FormFiling` and
`TrackingRetention`: a delivery is filed only after the config it was served accepts it, and
implements each of the three.

## 2. The modules and the code

- **`TaskQueue`** - the promise of the queue, without saying who acts: one row per
  task with its attempts, due date, lease (`none`, `live`, `expired`) and ending.
  `leasedUntil`, `dueAt` and `finishedAt` are kept as the orders the code asks about.
- **`ResearchLane`** - extends it with who acts: a dispatcher claims due rows, marks the
  contact `RUNNING` and starts a session, each a step; a session ends, is stopped, or fails, and
  its row is closed first and the contact settled by a read and a later write
  (`settling`); the stale-task sweep reads a snapshot, judges it, and writes lands and
  retirements by the attempts it saw; `ContactsService.enrich` reads, queues and marks;
  a session books the next look by a look-up and a later write. The agent and the API may stop.
- **`SalesProposals`** - requests and proposals; workers hold a claimed batch and take its
  items one by one with a clock in minutes; approvals and rejections are cut at the row
  locks they wait for (proposal, then contact), and check what they read after the lock.
- **`RunLifecycle`** - the promise about `agentRun.status`, and **`AgentRuns`** - one agent
  with its runs, the deliveries of overlapping drains (claim, send, link), eve's turns that hold
  a run, approval, cancellation, timeout (find, then write), recovery, and pausing, archiving and
  removing the agent. `LateCommits` lets an event run's transaction commit after others;
  `Bridge` says whether `AGENT_BRIDGE_SECRET` is set.
- **`RunActions`** - one run's calls: notes and posts, each a row claimed with a lease;
  an execution is one passage of `createRunActivity`, `postRunSlackMessage` or
  `postApproved`, each transaction and each request to Slack a step. Slack keeps a message
  once per `client_msg_id`, and its answer may be lost (`unheard`).
- **`BuilderChats`** - one chat: submissions, overlapping passages of
  `dispatchBuilderSubmission`, recovery of stale ones, eve's mailbox and one session, a
  question whose event may be late or repeated, and its answer.
- **`AgentVersions`** - one agent's drafts, revisions and deployments, and passes that read
  due schedules or matching events and queue runs later, in transactions of their own.

- **`CompanyLane`** - one handler per attempt of a row, which may outlive its deadline and its
  lease, and whose steps are the reads, the call and the writes of `runBrandTask`; a rep
  creates, renames and asks (read, then queue, then mark); the sweep at sign-in reads
  companies nobody looked up, checks for open rows and inserts. A key may come late.
- **`DispatchSweep`** - calls of `drainAll` (ticks and pokes), the pass one of them leads, the
  catch-up owed to those that joined late, the two lanes with their rounds and deadlines, and the
  timers: overrun, abandonment, the grace after which an abandoned sweep is forgotten. A database
  call may hang or throw (`MaxTroubles`). A step is what JavaScript runs between two awaits.
- **`MailboxSync`** - one mailbox of Gmail, Outlook or a calendar. The provider shows numbered
  messages at positions; syncs list, claim, fetch page by page, store message by message and
  settle; the user connects, disconnects, connects again; a purge removes what was stored.
  Of Gmail's history a pass lists one page (`Window`); the history variable `overlooked` keeps
  what lay past the page of a pass whose settle moved the cursor over it. Gmail and the calendar
  may forget what is old (`Expire`): Gmail resumes from now, the calendar lists all once more.
- **`TrackingConfig`** - readers (`compiled`, `current`) and changes with `invalidate` as their
  awaits; one cache in Redis or one per process; the hash; the generation each process counts.
  The digest of a config is the config itself. `DomainLists` stands for all of it but the site id.
- **`FormFiling`** - deliveries of submissions and calls of the intake endpoint, each an
  `await` per step, against the counter, the unique index on active contacts, reps who add,
  archive, restore and purge, and the nightly prune.
- **`TrackingRetention`** - views as a number per day; a job counts them into the day's row and
  deletes them batch by batch, whichever rows the database picks; a job may stop anywhere.

Each module has its properties at its end; operators ending in `_mutant` stand before the
definition they would replace and are plausible bugs, used by no other definition. The
modules `MC...` add the instances and symmetry sets of a run where a configuration cannot say
them (the others are checked as they are), and the modules `...Proofs` hold the theorems.

## 3. The runs

| run | instance | question | answer |
|---|---|---|---|
| `research` | 2 rows about one contact, one attempt, one sweep, a stop | Does a person's fresh request survive the late ending of an older task? | `FreshRequestKept` holds |
| `company` | 1 company, 1 or 2 rows with two attempts, a stop, fair dispatch and sign-ins; each behaviour has one of six budgets | Does the lane take only steps of the queue, does every row end, does what was found stay, is a company ever shown as researched for ever or forgotten? | five properties hold |
| `sweep` | a tick, a poke, 2 sweeps of at most 4 rounds, one call that hangs or throws | Is a call followed by a pass that sees it, do sweeps pile up, is health true, does dispatching go on? | five properties hold |
| `sales` | 2 requests about one contact, a worker that may stop, 2 decisions | Do late workers and two reviewers leave requests and proposals in agreement, and is every request answered? | three properties hold |
| `runs` | 2 runs, a delivery, a turn, a stop, late commits, fairness of tick and poke | Is one run active at a time, is a pending post waited for, is the life cycle kept, does a run hang, does a decision stay unheard? | five properties hold |
| `run_actions` | a note, a post, 2 executions, a stop | Do the rows, Slack and the CRM agree whatever is repeated, expires or is cancelled? | five properties hold |
| `chats` | 2 messages, a question, 2 drains, 2 attempts, a stop | Are messages delivered in order, repeated only with cause, and always settled? | four properties hold |
| `versions` | 3 versions, 2 passes over schedules, 1 over events, 3 ticks | Do only approved versions run, and do schedules move forward and fire? | four properties hold |
| `mailbox` | one mailbox of each source; 3 messages (of Gmail 4 as well), or 2 with an upset, or 1 with a second connection; 2 syncs | Does a cursor jump over mail that was listed, is a new connection rewound, does mail arrive? | three properties hold |
| `tracking` | 3 deliveries of 2 forms, a call of intake, 2 contact rows, 2 API processes, a change by each, 2 retention jobs over 4 days; each behaviour has one of six casts | Is a form filed once, is every slot of the counter accounted for, is an answered form settled, is a view lost, does a stale config go? | five properties hold |
| `rolled_back` | 2 versions | Does a live agent have an enabled trigger? | **no**, see 6.1 |
| `paused_cached` | as `tracking`, without a restart | Is no config cached while tracking is paused? | **no**, see 6.2 |

### Bounds, and why they are enough

- Two rows, runs, executions, drains, passes, syncs or reviewers: every conditional update and
  lock in the code compares a row with what *one* other actor may have done to it. Two
  actors at every step of each reach every such race; a third adds a repetition. `runs` has one
  delivery and one turn at a time so that late commits, a stop and liveness fit together;
  by hand two deliveries and one turn were checked with a stop (553 thousand states).
- `MAX_ATTEMPTS` of the queue is 1 in `research` and 2 in `company`; the builder's
  `MaxAttempts` is 2. The code treats the last attempt and the others differently,
  so the two cases are what matters.
- `MaxCrashes` is 1: a stop forgets what was in memory, in any state the others have made.
- A behaviour of `company`, `mailbox` and `tracking` begins by choosing who takes part and how
  often something goes wrong (`Budgets`, `Instances`, `Casts`). The choices cover each pair of
  actors that meet in a row; all of them at once would only multiply behaviours that commute.
- `sweep`: `TIMEOUT` = `ITEM` = 1 and `GRACE` = 2 keep the order of the configured 1, 1 and 15
  minutes; `ROUNDS` = 4 lets a sweep whose handlers are slow overrun and still end; with two
  ticks (828 thousand states, by hand) the properties hold too.
- `mailbox`: 3 messages are one more than a pass takes (`Batch` = 2) and a full page of Gmail's
  history (`HistoryPage` = 3); the fourth is past the page. An upset is a failure, an expired
  cursor, a crash, an overlap of syncs, or a purge; one of them in any place.
- `tracking`: `CAP` is 1, so that the second contact of an hour is refused; `Hours` = 2 where a
  form is resent in the next hour; one view fills a batch (`SWEEP_BATCH` = 1) and two batches a
  night, so that a day is deleted over several nights; `RETENTION` is 1, the least for which a
  view that is dated back by a day is not counted late. Upsets are failing statements, stops
  and what reps do, at most two. One address, for rows of different addresses never meet.
- `MaxTime` is 2 with an `INTERVAL` of 1: a schedule may be missed once, moved twice, and
  seen by two passes begun at different times. Three versions allow a revision of a deployed
  version and a deployment of either of the others.
- `MaxRevision` is 1: the one edit that makes an approval stale. `LEASE` and `TIMEOUT` of
  `sales` are 1: a request outlives its lease as easily as it does not.
- `SYMMETRY` is used only in `research` and `run_actions`, which check no liveness, over rows
  and executions, which the specification treats alike. Messages, runs and posts are
  numbered, for their order counts.
- Larger instances were checked once each and are too large to keep: `RunActions` with one
  note, two posts and two executions (11.4 million states), and `BuilderChats` with the expiry of
  a lease as a step of its own (8.3 million states). The properties hold there too.

`CHECK_DEADLOCK FALSE` is said everywhere, for every system here may come to rest: all rows
closed, the run over, the bound of the time reached.

### Fairness

Nothing is ever assumed of people, of a model, of Slack or of a session unless said here.

- `CompanyLane`: a due row is claimed, the stale-task sweep goes on and another follows, a call of
  Context.dev returns (it has a timeout), people sign in, time passes.
- `DispatchSweep`: a tick calls every minute, a call reaches its tail, a query or handler that does
  not hang returns by its deadline, timers fire, time passes. Pokes are never assumed.
- `SalesProposals`: every tick drains, a drain goes on (an extraction has a timeout), time passes.
- `AgentRuns`: the ages of rows, the steps of recovery and timeout, and the settling of
  decisions, which every poke of the bridge repeats; a delivery or a turn may hang for ever.
- `BuilderChats`: drains come every minute, a send returns or throws, eve's turns end or ask
  and its events are delivered. The last is stronger than elsewhere: eve works on a chat's
  messages one at a time, and nothing in the code could help if it did not.
- `AgentVersions`: weak fairness of reading what is due. The transaction that follows has strong
  fairness: the agent may stop between the two, but does not stop in every pass.
- `MailboxSync`: the cron route is called, a sync that was begun goes on to its end or fails, a
  `retryAfter` passes. Nothing is assumed of the user or the provider's mail.
- `TrackingConfig`: a request that was begun is served, and the five minutes of a cache entry
  pass. Nobody need ask for the config or change it again.

## 4. The proofs

All are safety; none assumes anything of the constants but the named assumptions in the
modules. In each case TLC had checked the invariant on the instances above first.

- **`LaneProofs`** - the queue and its two lanes, for any rows, records, attempts, sweeps and stops.
  - Both lanes implement the queue (`LaneImplementsQueue`, `CompanyImplementsQueue`): every step is
    a step of `QueueSpec` or leaves the rows alone. Types alone are not inductive here.
    `WorkClaimed` says that only rows that were handed out are worked on. `SweepFresh` is the
    heart: what a sweep remembers of a row was not leased when it was seen, and as long as the
    attempts are the same it is not leased now, which is why the sweep's `attempts` in `where`
    protects a claim made behind its back. From the refinement and two lemmas about the queue
    follow, in both lanes, that the first ending of a row and a live lease stay.
  - A person's fresh request survives the late ending of an older task (`FreshRequestStays`).
    The invariant is about the settles under way: one that may write over `PENDING` has read that
    its own row is closed (`SettlesEnded`), and while the row of a marked request is open, the
    mark has moved `updatedAt` past every settle that read the queue before the request did
    (`LateSettlesBlind`). The other settles see the open row.
  - The company lane shares the rows, the settles and the sweep: `SharedIsNext` hands its common
    steps to the lemmas of the research lane, and its own are shown step by step. `CompleteStays`
    (what was found is not taken back) follows from the few steps that write a status
    (`StatusWrites`). `StaysWatched` says that a company shown as being researched has somebody
    who will still write its status: a row that is not about to be closed, a handler before its last
    write, or a settle. Its cases are who is watching and what each step does to that watcher.
    A form without `Closing`, in which any open row watches, is not inductive and with two
    failures does not hold: the handler is done, its status was not written, and its row
    is still open. `Watched` therefore leaves such rows out, and the run allows two failures.
- **`DeliveryProofs`** - the messages of a user to the builder and the mail of a mailbox to the CRM;
  the two halves share nothing.
  - Chats: `MessagesInOrder`, `NoCauselessRepeat`, and that a question whose answer
    the builder has taken up is not put again (`AnsweredStaysGone`). What stands before a message in the hands of a
    passage has reached eve or was given up (`LineReached`), which gives the order: a claim takes the
    first that is not over. Without a failure a message is claimed once, by one passage, and
    not sent before (`ClaimedOnce`), which leaves a failure as the only cause of a second copy.
  - Mailboxes: `NoMailMissed` and `NeverBackwards`, for any number of syncs and messages and any
    instances. The invariant carries the promise of the row's cursor into the passes:
    what arrived since the watch began is handled, in the hands of a pass, listed again from the
    cursor the pass would settle, or past the page it could list (`PassAhead`); and a pass that may
    still write the row read it after it was created (`PassForward`). `PlanCovers` is the lemma
    about one pass: what it takes, with what it leaves to the next cursor and what its page left
    out, is all there was. `UnlistedStays` says that what arrives later does not change what was
    left out, and so a settle adds to `overlooked` just what its pass could not list.
- **`DispatchSweepProofs`** - for any timeouts, rounds and caps: types, `OwedComesNext`,
  `HealthIsTrue`, and `SweepsNotStacked`. The invariant ties the flags of `pool.ts` to who
  leads and who waits, and the age of a sweep to its lanes: while no database call hangs, an
  abandoned sweep has a handler in hand that ends within `ITEM`, which is less than `GRACE`, so
  it is over before it is forgotten and still counted when the next one asks.
- **`SalesProofs`** - `StatusAlwaysAgrees`, that a decision is final, that an approval
  is applied at most once, and only in the revision reviewed. The strengthening is about
  decisions in flight: `LocksExclude` (two that hold the same proposal, or the same contact, are
  one) and `DecidersKnow` (one that has compared the revision still finds it).
- **`AgentRunsProofs`** - types; `PendingAlwaysWaits`; `RunsKeepLifecycle` (`AgentRuns`
  implements `RunLifecycle`, from `Legal`, what each step may do to a status); and
  `OneRunActive`, from `InOrder`: if anything holds a run or it is active, every older run
  is over, but for those that became visible after a younger one was taken up.
- **`RunActionsProofs`** - all properties of `run_actions`: nothing unapproved is
  posted where approval is asked for, rows tell what was done, success is earned,
  acknowledged messages are recorded, and a waiting run has a post that waits. The argument
  has two layers: `Grows` (no step takes an approval, a success or an external id from a row)
  and `Fit` (what an execution at each point knows of its row and of Slack).
- **`AgentVersionsProofs`** - the safety properties of `versions`, and that a schedule
  stops with its agent. The invariant `VInv`
  adds what passes hold between reading and writing: the version they read was approved
  (approval is never withdrawn), the next time is not before the slot (`AdvanceMovesOn`), and
  the trigger keeps its type because drafts only write rows of versions that do not exist.
- **`WebTrackingProofs`** - all safety properties of `tracking`, for any deliveries, addresses,
  caps, hours, windows and jobs, and that `WebTracking` implements each of its parts
  (`WebFiles`, `WebRetains`, `WebConfigures`: a step of one part is a stutter of the others),
  whence `WebKeepsPromises`. For filing the invariant says of each delivery what its place
  implies (`PostOK`: one that waits has neither a contact nor a slot not taken back; one that
  is past the claim finds its form settled), of each form that exactly one delivery claims it
  if it is filed (`Claimed`), and of each slot who holds it (`Holds`), from which the counter
  is the cardinality of a set that grows and shrinks with it (`SlotTaken`, `SlotHandedBack`).
  Nearly every step is a `Plain` one that disturbs none of this. For retention: what lost a
  row lies before the cutoff of some job, where no view comes any more, and a job that deletes
  has counted those days in full (`Past`, `CountedInFull`).

What stays with TLC: every liveness property (`EveryTaskEnds`, `NotForgotten`, `PassesGoOn`,
`TailsResume`, `EveryRequestAnswered`, `NoRunHangs`, `DecisionSettled`, `MessageSettles`,
`DueIsQueued`, `MailArrives`, `StaleEnds`), since the prover does neither fairness nor
`ENABLED`. Every invariant and every action property of a passing run is a theorem.

## 5. Hazards

`PROJECT.json` lists them at their lines. Four have no property and say why; they
are told in section 6, because the model shows that they do go wrong.

## 6. What the models show of the code

Two runs find a statement of the repository that the code does not keep:

1. **A rolled-back agent never runs** (`rolled_back`, `agent-definitions.service.ts:318`). A
   revision moves the triggers to the new version; deploying the old one again enables the
   triggers of that version, of which there are none. `docs/agent.md:351` says that deployment
   "enables every trigger on the approved version".
2. **A config may be cached while tracking is paused** (`paused_cached`,
   `tracking-config.service.ts:44`). A reader that has found the hash current puts its config into
   the cache after a pause has deleted it: it collects for up to five minutes more.
   `docs/tracking.md:228` says that "while tracking is paused no config can validate and none is
   cached at all". `StaleEnds` says that it goes with the entry's five minutes.

What follows is in the models as well; where a definition is named, a run that asks for it as an
invariant finds the behaviour.

The queue and its lanes:

3. A booked look may be lost (`BookedLookKept` of `ResearchLane`, `tasks.ts:162`).
   `scheduleTask` takes any open row of the kind and contact for the booking, the running recheck
   included; its due date is moved, and the end of the turn closes the same row.
   `docs/agent.md:144` says that closing a scheduled recheck "would delete the next look at that
   contact". It also looks for a booking and inserts it later without a lock, so two sessions may
   both insert one (`tasks.ts:159`).
4. A company renamed while it is looked up ends up `COMPLETE` under a domain nobody looked up
   (`LookedUpAsNamed` of `CompanyLane`, `companies.service.ts:386`): the rename finds the open row
   and queues none, and the handler writes what it found for the old domain.
   `brand.ts:110` reads the record and updates it later, so an edit in between may be
   overwritten.
5. An abandoned sweep is forgotten after 15 minutes (`dispatch.ts:348`), settled or not, though
   `docs/agent.md:92` says that only settling frees its place. A lane whose claim throws is
   reported while the other lane goes on, not aborted and not counted. A catch-up after an
   abandonment is always refused, a pass that begins in the millisecond of the last finish is
   reported as not running (a catch-up in the model, where a call that leads begins later), and a row
   claimed by an aborted lane has spent an attempt unhandled. If every pass overruns and yet settles
   before the next tick, the tails never run.

Sales, runs, chats and versions:

6. Three sales requests are claimed under one lease of five minutes and taken one by one, up to two
   minutes each (`sales-worker.ts:151`), so two ticks may process the third. `FOLLOWUPS.md:77` says
   that the lease is there "so two ticks never process one request". The outcome is still right:
   `StatusAgrees` holds with such overlaps.
7. A builder's send that outlives its lease marks its row accepted by id while a second delivery
   of it is in flight (`custom-agent-dispatch.ts:163`). If the agent stops then, no row is `SENDING`,
   recovery restores nothing, and the chat has no continuation. A send that returns late also clears
   a question asked meanwhile that nobody has seen (`:209`).
8. An older event run may become visible after a younger one was picked, recovered and put back; a
   late start of the younger one's session then makes two runs active. Likewise a run that
   is being inserted while its agent is removed stays `QUEUED` for ever: `remove` did not see
   it, and only runs of a live agent are dispatched (`custom-agent-dispatch.ts:352`).
9. With `Bridge` FALSE, `DecisionSettled` fails. Only the bridge's drain calls
   `settleSlackApprovals`; `schedules/dispatch.ts:31` does not, though
   `dispatch-heartbeat.service.ts:23` says that queued work then "waits for the agent's own
   schedule". The decided run also blocks every later run of its agent.
10. If the agent stops after resuming an approved run and before posting, no drain lists the
    action again, and the run times out without the post. A post whose answer is lost is repeated
    under one `client_msg_id`, and if no repetition is heard nobody knows that it was posted
    (`run-runtime.ts:847`).
11. `claimRunAction` makes a row `RUNNING` without looking at the run, so cancelling a run may
    leave an action under way; `LedgerTells` and `DeliveryRecorded` hold nevertheless.
12. A pass queues the version it read, so a run may use the version before a revision that has been
    committed already. `OnlyApproved` holds: that version was approved as well. A schedule whose
    first time has passed between its validation and the saving of the draft gets no next time and
    never fires. A run that waits for a decision does not stop its agent's schedule.

Mailboxes (what `Awaited`, `Watched`, `Crowded` and `overlooked` except):

13. What Gmail has past the first page of history is jumped over (`PassesResume` of `MailboxSync`,
    `gmail-sync.service.ts:164`). A pass lists one page of history, 500 entries
    (`gmail.client.ts:77`), and does not follow `nextPageToken`; with that page stored it settles the
    cursor to the mailbox's current history id, so no later pass lists the rest.
    `docs/plan/gmail-calendar-plan.md:745` says that "the cursor only advances on a settled pass, so
    at worst a window is re-read", and line 742 that it "makes the next tick resume, not restart".
    `NothingMissed` says that nothing else is jumped over, and `MailArrives` excuses the same mail.
14. Two *first* passes, a tick and "sync now", read the profile twice; the later settle may set the
    cursor past mail that arrived between the two.
15. A backlog whose head is never stored (`gmail-sync.service.ts:205`), more messages of one instant
    than a pass takes, or a calendar with more than five pages is fetched again for ever and hides
    what is behind it. A late settle releases the lease of another tick. A mailbox that
    is disconnected during its sync makes the settle and the `markFailed` after it throw, which ends
    the tick for all mailboxes.

Website tracking:

16. Settings and domains are read in parallel and may come from two moments; a process that is late
    with its invalidation, or stops before it, leaves a stale hash, and then nothing is cached until
    the next change. Without `REDIS_URL` each process has a cache of its own, and only its
    five minutes end what another process changed. Two first loads of the settings page mint two
    site ids, and one page shows the dead one.
17. `skip()` updates a row by id whatever it says by now, so a racing delivery may stamp a
    reason on a filed row. A stop between the claim and the note loses the note: the resend finds
    the row filed. A failure between the creation of a contact and `contactCreated` leaves it
    unresearched, and a throwing `companyForEmail` loses the slot it was to use.
18. Purging (or pruning) an archived contact suppresses its address even if a rep has added the
    address anew (`AddedBackIsHeard` of `FormFiling`); `docs/api.md:440` says that adding a person back
    lifts the suppression. A purge between the question and the insert brings the contact back.
19. A view that is deleted counts for ever by `GREATEST`: what is counted of a half-deleted day is
    less than what was counted before, and the larger number stays (`NoViewLost`).

## 7. What is not modelled, and why

- Inside the modelled components: who may do what, scopes and approval keys, texts,
  manifests and artifacts, the token usage and the event log, the Slack protocol.
  `field-backfill` merging and event tasks of the queue. Of tracking: the rate per minute, visitors
  and their sweep, the installation check and the reading of reports. Of mailboxes: the matching
  of an address with a contact, which is data.
- Some reads and writes with an `await` between them are one step, where what may happen in between
  is found by a later step as well, or leads nowhere else: `ReadCompany` of `CompanyLane`;
  `DependencyFails` of `AgentRuns` (the reading of what a run depends on and its failing);
  `BeginCall` of `RunActions`; `MarkRunning` of `MailboxSync` (the profile is read after the mark);
  `Add` of `FormFiling` (insert and `contactCreated`); `WriteHash` of `TrackingConfig` (write and
  the check of the generation after it).
- Smaller parts of modelled handlers that are left out: a send that throws after eve accepted it, or
  while the link is written (`SendFails`); the failed row that `requiredActionFailure` makes for a
  run that did nothing (`run-runtime.ts:1135`); messages submitted to a chat at once, for
  `submitBuilder` takes no lock on the conversation; the count of questions that starts anew with
  each session of eve (`builder-input.ts:101`; the model has one session); sweeps of more rounds with
  fewer rows each; a refused read of Gmail that passes over the rest of its batch
  (`gmail-sync.service.ts:216`; the model passes over one message per upset).
- Of filing: a submission has one form, while a batch may hold several, filed one after another, so
  that a throw leaves those after it unstored; a note is not written when there is no user to be its
  author; a rep may give a contact another address; `companyFor` may create the company.
- The slots of `SlotsAccounted` are counted for the hour in which a delivery looked
  (`tracking-filing.service.ts:99`), not for the one in which the contact is made: the hour may turn
  between the two (`HourPasses`).
- `StaleEnds` would hold without the generation and the hash as well: they make it rare that a stale
  config is put into the cache, but do not exclude it (6.2 and 6.16); what
  ends it is the entry's five minutes.
- Overlapping `DELETE`s of two retention jobs are one after the other; the database does it so
  for the rows they share.
- Where a failing statement of the database is caught by the code and leads elsewhere
  (`FormFiling`, `MailboxSync`, `CompanyLane`, `DispatchSweep`), it is an action; elsewhere a
  statement either commits or the process stops before it.
- Two timestamps in the same millisecond are taken to be ordered, but for `HealthTells`.
- Not modelled at all: the user interface, generated transport code, telemetry, packaging and
  vendored tools (no state of their own); search, dashboards, settings and accounts (queries, or a
  library's business); currency (arithmetic); prompts and search tools (calls to services);
  facts and evidence, CSV import and the history of records (one transaction each, over data
  whose content is the point); the credentials of a model and the mirror of Slack (candidates).

## 8. The plan

Done: 1 `TaskQueue` and `ResearchLane`; 2 `SalesProposals`; 3 `RunLifecycle` and `AgentRuns`;
4 `RunActions`; 5 `BuilderChats`; 6 `AgentVersions`; 7 `DispatchSweep`; 8 `CompanyLane`;
9 `MailboxSync`; 10 `TrackingConfig`, `FormFiling`, `TrackingRetention` and `WebTracking`;
and the proofs of the safety properties of all of them.

What could follow:

11. `Credentials` - the refresh of a sealed token under a row lock, and device sign-in.
12. A composition of `AgentVersions` and `AgentRuns`: a schedule, the runs it queues behind a
    waiting one, and the version each run executes.
13. Records and their history: an edit, its entry, and an undo that races the next edit.
14. Proofs of what the liveness properties rest on: that at each moment the step that is owed is
    enabled, stated without `ENABLED` as the guard of that step.

## 9. Checking it

`tlc -config X.cfg M` with the module and configuration of a run in `PROJECT.json`; `rolled_back`
and `paused_cached` are expected to end with a counterexample. `tlapm M.tla` for the
eight modules ending in `Proofs`. The longest runs are `research` and `company` (about two and
three quarter minutes), `chats` (823 thousand states), `versions` (620 thousand) and `tracking`
(718 thousand).
