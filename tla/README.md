# Verification of BotWA

BotWA is a multi-tenant WhatsApp assistant: a FastAPI process takes messages
from Meta's webhook, runs a conversation handler on them, queues the replies in
PostgreSQL and calls Meta; worker processes recover what was left behind,
generate AI replies and run automations; people take conversations over from
the bot. This directory holds TLA+ models of its stateful parts, the TLC
configurations that check them on small instances, and TLAPS proofs of the
properties that matter most for every instance.

All paths below are relative to `src/`; `app/` is the implementation.

Contents: [the system](#the-system) · [the models](#the-models) ·
[the runs](#the-runs) · [fairness](#fairness) · [the proofs](#the-proofs) ·
[where the code and its documents differ](#where-the-code-and-its-documents-differ) ·
[assumptions](#assumptions) · [what is not modelled](#what-is-not-modelled) ·
[the plan](#the-plan)

## The system

### Processes and how they meet

| Process | Loop | Code |
|---|---|---|
| API | one uvicorn worker; webhook, portal and public routes | `app/main.py`, `app/api/` |
| WhatsApp worker | recover due sends, expired claims, left-over receipts; purge | `app/operations/whatsapp_worker.py` |
| AI consumer | claim a job, generate, dispatch one ready job | `app/operations/ai_consumer.py` |
| Automation worker | claim a batch of executions, run each | `app/operations/automation_worker.py` |
| Due transitions | apply due plan changes and cancellations | `app/operations/billing_due_transitions.py` |

They share nothing but PostgreSQL. Every conflict is therefore one of
transactions: READ COMMITTED, `SELECT ... FOR UPDATE`, conditional UPDATEs and
unique keys. Three habits of the code decide what may go wrong, and the models
keep all three:

- A claim is one transaction, the call of a provider is outside every
  transaction, and the settlement is another one. Between them the process may
  die, and someone else may take the claim to be dead.
- The session of SQLAlchemy keeps the attributes that it loaded. A later
  `SELECT ... FOR UPDATE` of the same row waits for the lock and then returns
  the *old* attributes, unless the query asks for `populate_existing` or
  refreshes. Only some do. A column whose new value equals the loaded one is
  not written.
- What belongs together is sometimes written in two transactions (a status and
  its copy in the history; a handoff and the status of the execution that asked
  for it).

### Inventory

For each component: the state it keeps, its operations, what is hard about it,
and what makes it correct. "modelled" names the module.

| Component | State | Operations | Hard behaviour | Correct when | |
|---|---|---|---|---|---|
| Outbound transport | `outbound_message_attempt` rows: status, token, attempts, next attempt | enqueue, claim, call, settle, expire, retry, human reply | competing senders, late answers, crash after the call, last retry | the customer gets one copy; verdicts are true; every row settles | `Outbox` |
| Provider status | the same rows: status, stamp, error; `message.delivery_status` | delivery reports, copy to the history | reordered and repeated reports, stale read under a lock, two-step copy | the newest report shows; no regression; history follows | `ProviderStatus` |
| Inbound transport | `inbound_message_receipt` rows, `contact`, the counters of `conversation` | deliver, acquire, handle, fail, recover, reject | redelivery, crash in the handler, first contact in two processes, a channel that closes meanwhile | handled once; numbered without gaps; every receipt of a channel that stays open settles | `Inbox` |
| Conversations | `conversation`: lifecycle and counts; `message` rows | record inbound and outbound, close, reopen, archive, list, read | lifecycle and handoff race with messages; stale counts | handoffs block an archive; counts are exact | `Handoff` |
| Human handoff | `handoff_session`, `handoff_cycle`, events | request, claim, transfer, release, resolve, return, reply | two agents at once; bot reads the session unlocked | records agree; bot silent; nobody takes over or answers without the right | `Handoff` |
| Managed automations | definitions, snapshots, executions with leases | create, update, activate, deactivate, archive, record inbound, claim, run, retry | lease lapses under a slow worker; handoff and status are two commits | statuses tell what happened; attempts bounded; all settle | `Automation` |
| AI generation lane | `ai_job`, `ai_attempt` (budget), `ai_response_checkpoint`, memory revisions | enqueue, claim, stages, reserve, call, checkpoint, fail, commit, cancel by settings | resumed jobs, reserved calls, policy changes mid-way, stale workers | budget kept; stages not repeated; memory once; jobs and slots come back | `AIJobs` |
| AI dispatch | the ready `ai_job` and its outbound row | enqueue, ask for a human, follow the row, cancel | a reply that is older than what changed since; unlocked writes on the row | replies are queued in turn; every ready job ends | `AIJobs` (the job; the row in part) |
| Users, roles, sessions | `app_user`: role, status, `auth_version`; tokens | bootstrap, create, assign a role, deactivate, change a password, login, two scripts | the target is loaded before the lock it is judged under; two writers of one version; the plan is lowered below its users | users grow only within the plan; old passwords' tokens end; an owner remains | `Users` |
| Plans and limits | plan assignment, counts of what it limits | assign, require a feature, require capacity | a count and an insert by two requests | nothing grows past the plan of the moment | `Workspace`, `Users` |
| Billing | `subscription`, webhook events, plan assignment | checkout, change, cancel, reconcile, due transition, webhook | provider calls under the lock that outlive a failed commit; a webhook with a row it loaded before the lock; one column for three instants | prices change only as confirmed; rows follow the provider; scheduled changes take effect; paid periods are kept | `Billing` |
| Organizations and bots | `organization`, `bot` | create, update, activate, deactivate | rows loaded before the lock; settings under running jobs | active bots stay within the plan; jobs see one policy | `Workspace`, `AIJobs` |
| Onboarding | `organization_onboarding` | start, complete | four statements of readiness, then a commit | a completed onboarding was ready when it was completed | `Workspace` |
| WhatsApp configuration | `whatsapp_channel_configuration`, secrets | create, update, rotate, activate, deactivate, delete | organization and row are locked in two orders | an active channel can verify what it takes | `Workspace` |
| Knowledge management | `knowledge_entry` | create, update, publish, archive, delete | archive and update load without a lock | archived entries stay archived; the plan is kept | `Workspace` |
| Business configuration | one row of a bot | create, update | none | – | `Workspace` (that there is one) |
| Contacts and CRM | `contact`, `customer_profile`, `conversation.contact_id` | resolve, register, enter, edit, amend, archive, backfill | five writers, one of them neither locks nor counts versions | no save is lost; links are right; evidence of a registration stays | `Contacts` |
| Business calendar | calendars, weekly hours, exceptions, holidays, overrides, receipts | create, update, transition, five kinds of rules, resolve | repeated keys in two copies; a resolution by five SELECTs; clock changes | one active calendar of a scope; one effect of a key; hours are right | `Calendar`, `CalendarHours` |
| Integration management | connections, credentials, OAuth states, health | create, update, transition, credentials, OAuth, health | calls of Google inside transactions; two orders of locks | a state is used once; a rotation replaces its own token | `Integration` |
| Integration engine | circuit breaker, limiter (in memory, per thread) | execute, record, allow | threads | an open breaker lets one probe through | not modelled |
| Automation, business, conversation engines | none between calls, or the simulator's memory | one synchronous pass per message | branch order | the decision is the documented one | not modelled |
| Analytics, dashboard, audit | append-only rows | queries | none | – | not modelled |
| API request limits | counters in Redis or memory | hit | window edges | a window admits at most its limit | not modelled |
| Portal, observability, migrations | – | – | – | – | not modelled |

What meets what:

- *Inbox → Handoff → Outbox.* The inbound worker runs the conversation handler
  in its transaction; the handler records the message, asks the handoff gate,
  and queues the reply in the outbox; all of it commits with the receipt.
- *Inbox → AIJobs.* For an AI bot the handler writes a job under the message's
  number instead of a reply; `Inbox!NumberedInTurn` is what `AIJobs` builds on
  when it orders jobs by number and compares the number with the counter.
- *AIJobs → Outbox.* A ready job becomes an outbound row (`QueueReply`), sent by
  the same claim; the end of the row ends the job (`RowEnds`).
- *Inbox → Automation → Handoff.* The handler writes executions; the automation
  worker asks for a handoff by the same service that people use.
- *Outbox ↔ ProviderStatus.* `ProviderStatus` refines the one step
  `ProviderReports` of `Outbox`, which lets any report through.
- *Bots → AIJobs.* An update of a bot's settings cancels its jobs under way.
- *Inbox → Contacts.* `resolve` runs inside the transport's transaction; `Inbox`
  has its lock, `Contacts` what it writes and who else writes it.
- *Everything audited → the organization row.* What consumes the plan takes the
  row for update. An audit event has a foreign key to it, so that every other
  audited change meets that lock at its commit. `Workspace` rests on this:
  `CompletionIsSound` fails when one operation stops writing its audit event.
- *Users, Workspace.* `Users` has who may ask, `Workspace` what is asked for;
  `Workspace` keeps of the users whether there is an active owner.

## The models

A definition has the name of the code it models where there is one; comments
name the function otherwise. `PROJECT.json` maps each to its lines.

**`Outbox`** (`application/whatsapp_live/processor.py`,
`infrastructure/repositories/whatsapp_message_transport_repository.py`,
`operations/whatsapp_worker.py`, `infrastructure/whatsapp/meta_client.py`). One
action per transaction or call: `Enqueue` (`_enqueue_outbound`),
`StartHumanReply`/`InsertHumanReply`/`RecordHumanReply`/`DeliverHumanReply`
(`send_human_reply`, four transactions), `Retry` (`retry_attempt` with the claim
of `_deliver`), `ProviderAccepts`/`ProviderAnswers` (the wire and the client),
`Settle` (the verdict of `_deliver`), `ExpireClaims` (`recover_batch`),
`ProviderReports`, and the two halves of `_sync_outbound_attempt`. A token is
the number of its claim. `wire` holds requests that Meta may still accept, also
after their sender has given up: that is what makes a timeout hard.

**`AtMostOnceSend`** is what `Outbox` promises with none of its machinery: a
verdict and a set of copies for each message. `Outbox!Promise` is the refinement
mapping: a copy is an accepted request, the verdict is read off status, error
code and provider id.

**`ProviderStatus`** (`update_provider_status`, `_process_status`,
`_sync_outbound_attempt`, `live_mapper.py`). Reports are emitted in Meta's order
and arrive in any, again after a crash. `Loaded`/`Written` are the two habits of
the session: guards on the first read, only differing columns written. Time is
in ticks; a report carries whole seconds.

**`Inbox`** (`processor.py`, `contacts/service.py`, the receipts half of the
transport repository, `whatsapp_worker.py`). The stages of `pc` are the row lock
on the receipt (`Working`) and the contact lock (`read`, `finish`). Effects show
at `Finish`, the one commit. `Unreadable` says which process cannot decrypt
which payload. `channelOpen` is whether the channel's configuration is active,
has its webhook enabled and resolves; `ChannelChanges` is its administration. A
closed channel takes no webhook (`Deliver`), `recover_batch` does not select its
receipts (`Recoverable`), and one that was selected before it closed is left as
it is by the routing error of `process` (`Route`). Such receipts stay "received"
until the channel is open again.

**`ConversationLog`** is what `Inbox` promises with no receipts, attempts, locks
or processes: a conversation for each customer, to which a message that arrived
is appended once, or which it never reaches because it was given up.
`Inbox!Log` is the refinement mapping: the entries of a conversation are its
processed messages by their numbers, and a message is given up when it has
failed with its attempts used up.

**`Handoff`** (`human_handoff/service.py`, `conversation_management/service.py`,
`managed_handler.py`, their repositories, `human_handoff_routes.py`).
Transactions of one conversation with explicit locks: FOR UPDATE on the
conversation and the session, and the key-share lock of a message's foreign key.
`copy` is the conversation as a handler loaded it. `Abort` is any failure, a
broken deadlock included.

**`Automation`** (`automation_management/service.py`,
`managed_automation_repository.py`, `automation_worker.py`). Definitions, the
executions of a message, claims under a lease, and `run` as its two commits.
`loaded` is the row as the session has it. Whether the conditions of an
execution match (`matching`) and whether its stored snapshot cannot be read
(`unusable`) are chosen when it is recorded: `run` fails the latter at once
(INVALID_SNAPSHOT) although attempts are left, and only such a row can be taken
back by an administrator (`RetryExecution`, for `retry_execution`).

**`AIJobs`** (`generative_ai/service.py`, `response_pipeline.py`, `ingress.py`,
`ai_consumer.py`, the cancellations in `bots/service.py`). A job is the number
of its message. Each action is one transaction under the job's row lock;
`Mark`, `Call`, `Answer` are the commits before, at and after a provider call.
`reserved` is what the budget holds back for the conversational layer; `slots`
remembers that a stage ever had a row, which the unique key enforces. `Dispatch`
is one transaction of the dispatcher on a ready job: `AskHuman`, `QueueReply`,
`Withdraw`, or, once the row has an end, `RowEnds`.

**`Billing`** (`billing/service.py`, `billing/due_transitions.py`,
`billing_repository.py`, `mercado_pago.py`, `plans/service.py` for the staged
plan). One organization. `remote` is what the provider has and `notices` the
webhooks that it still has to deliver; the provider's own steps (`Authorize`,
`Renew`, `Pause`, `Resume`, `CancelRemote`) are external. An operation is its
call under the organization lock (`Start`) and its `Commit`, or `GiveUp` when
the answer or the commit fails. A webhook handler is `LoadEvent` (the row,
unlocked), `FetchEvent` (under the lock) and `CommitEvent`; `Written` is the
session's habit of writing only the columns that differ from what was loaded.
`_apply_snapshot` is the chain from `EndAfter` to `Plan`. Instants count down to
0; a price stands for its plan and amount. The guard on `provider_sequence` is
left out: a snapshot is fetched under the lock and is never older than the row.

**`Calendar`** (`business_calendar/service.py`, its repository and routes). A
request with an idempotency key looks for the key's receipt before it waits for
the lock (`Arrive`); from the lock to the commit it is one step (`Change`, which
checks, writes and appends one audit event), and a constraint that refuses the
commit makes it look for the receipt again (`Collide`). `ReadRules` are the five
SELECTs of a resolution, between which anything may commit. `ledger` is the
chain of audit events. **`CalendarHours`** is the resolver as functions:
whether a calendar is open at an instant, when that changes next, and which
rules the service reads to tell; `Calendar!HoursAreRight` checks the answer
against what the rules mean, by looking at every instant of the horizon.

**`Integration`** (`integration_management/service.py`, `google_calendar.py`,
`oauth_state.py`). The steps of a request that calls Google in the middle of
its transaction are actions: `StartHealth`, a `Probe*`, `FinishHealth`;
`Consume`, an `Exchange*`, `StoreToken`, `CompleteOAuth`. Refresh tokens are
numbered as Google gives them out, so that which token replaced which can be
told. `Abort` is a failure at any moment, and PostgreSQL's way out of the
deadlock between a callback and a health check.

**`Users`** (`users/service.py`, `auth/service.py`, `api/dependencies.py`, the
two scripts). `Authenticate` and `Load` fill the session with the actor and the
target; `Deactivate`, `AssignRole`, `ChangePassword` and `Promote` write from
what is loaded (`seen`) and count what there is. A creation counts under the
organization's lock (`Count`, for a first user or for who asks) and commits
(`Create`); whatever else needs that lock, for itself or for its audit event,
waits (`OrganizationFree`). `limit` is the maximum of the plan that the
organization has now: `ChangePlan` assigns any of `Limits`, also one below the
users that there are. A token is `current` while the password it was given for
is the user's. `raced` is of one token: it was given by a login that a change of
the password overlapped, or was out when two writes of the version overlapped.

**`Workspace`** (`organizations`, `plans`, `bots`, `whatsapp_configuration`,
`knowledge_management`, `onboarding`; their repositories and routes). Whatever
reads in one statement and commits in another is two actions: `LoadBot` and
`ActivateBot`, `LockRow` and the operations on a channel, `LoadEntry` and
`StoreEntry`, and the four statements of a completion (`BeginCompletion`,
`ReadBots`, `ReadChannel`, `CompleteOnboarding`). `OrganizationFree` in a
commit is the key-share lock that its audit event takes.

**`Contacts`** (`contacts/service.py`, `crm.py`, `administration.py`,
`backfill.py`, the public registration). Five writers of one contact, by number.
`call` has what each has read and whether it holds the row; `WithNotes` is an
edit of notes as the session writes it, with `preserve_registration`. The
backfill has its own session (`fill`) whose links are committed, or rolled back,
with the next contact.

The `MC*` modules and configurations give the constants values. Eight modules
hold the theorems. Four of them take in a second component, whose names (`StatusSpec`, `BillingSpec`, `CalendarSpec`,
`ConnSpec` and so on) are kept apart from those of the first:

| Module | Theorems about |
|---|---|
| `OutboxProofs` | `Outbox`, and that it implements `AtMostOnceSend` |
| `InboxProofs` | `Inbox`, and that it implements `ConversationLog`; `ProviderStatus` |
| `HandoffProofs` | `Handoff`; `Calendar`; `CalendarHours` |
| `ContactsProofs` | `Contacts` |
| `AutomationProofs` | `Automation` |
| `AIJobsProofs` | `AIJobs` |
| `WorkspaceProofs` | `Workspace`; `Integration` |
| `UsersProofs` | `Users`; `Billing` |

The two components of such a module share no variable and no constant; each
theorem names the specification that it is about.

## The runs

| Run | Instance | States | Shows |
|---|---|---|---|
| `outbox` | 1 row, 3 senders, 2 attempts, crashes without bound | 86,703 | one copy, true verdicts, the refinement of `AtMostOnceSend`, and that every send settles |
| `status_serial` | 1 webhook process, the sender, 4 ticks, crashes | 110,969 | the newest report shows; no regression |
| `inbox` | 3 messages of a customer, webhook + recovery, 2 attempts, 1 crash, one payload unreadable to the recovery, a channel that closes and opens | 133,950 | handled once, numbered in turn, the refinement of `ConversationLog`, every receipt settles once the channel stays open |
| `handoff` | an agent, an admin, 2 processes, 3 message rows | 584,604 | records agree, the bot is silent, rights are kept |
| `automation` | 1 automation, 2 messages, 2 workers, 2 attempts, 1 fault, snapshots that cannot be read | 164,002 | statuses are true, attempts bounded, failures are final or retried, all settles |
| `ai_jobs` | 2 messages, 2 workers, 2 attempts, 4 calls a day, 1 event | 442,451 | budget, once-only calls and memory, one generation at a time, replies in turn, jobs end and slots come back |
| `billing` | 1 subscription, 2 prices, 1 handler, a period of 3 ticks announced 2 ahead, 2 notices | 15,926 | prices are confirmed, rows follow the provider, changes take effect |
| `calendar` | 2 calendars, 1 key in 2 copies, 4 changes, 1 resolution; 48,672 cases of rules, zones and instants | 270,930 | one active calendar, audited versions, one answer for a key, hours that are no older than their version; the resolver is right |
| `integration` | 1 connection, 2 states, 2 requests, 3 tokens | 958,669 | a state is used once, a rotation replaces its own token, an archive settles |
| `users` | 2 people, 2 requests or scripts, 1 token, 3 versions, plans of 1 and 2 users | 1,788,020 | users grow only within the plan, old passwords end, the last owner goes only to a script or by a stale target |
| `workspace` | 2 bots, 1 channel, 1 entry, 2 plans, 2 requests | 2,503,338 | active channels can verify, a completion is sound, the plan is kept |
| `contacts` | 2 customers, one perhaps known from before, 2 requests, the backfill | 3,492,915 | no save is lost, links are right, evidence stays |

Every bound is a constant of the configuration or a guard that names it
(`MaxAttempts`, `MaxCrashes`, `MaxFaults`, `MaxEvents`, `MaxMessages`,
`MaxTime`, `CallLimit`, `MaxNotices`). Why these are enough:

- *Outbox, one row.* Rows share nothing but their senders: no action of a sender
  reads another row than its own, except `ExpireClaims`, which treats rows
  alike. Three senders give a claim holder, a late one and the recovery worker;
  two attempts give a first, a last and a retry between. `Outbox` has no bound
  on crashes.
- *Inbox.* Three messages let two workers handle two of them while a third
  waits to be numbered, or is failed by the process that cannot read it. The
  channel closes and opens without bound; one channel, because receipts of
  different channels share nothing.
- *Handoff.* Two processes are enough for every pair of operations to
  interleave, and all properties are about pairs; an admin and an agent give
  every combination of rights; three message rows let a message with its reply
  follow another message. Agents are not symmetric (one is an admin), processes
  are.
- *Automation, AIJobs.* Two workers give a holder and a stale one. One fault
  (crash, lapse, outside change) at any moment puts every pair of steps around
  it. `CallLimit = 4` is one conversational reply in full, so
  the second runs out; `Messages = 2` gives an older and a newer job.
- *Billing.* All properties are about one subscription; its operations exclude
  each other by the lock, and one webhook is served at a time, so one handler
  beside the lock's holder gives every interleaving. Two prices give both
  directions of a change; `Period = 3` and `Lead = 2` give instants before, at
  and after the announcement. Two notices let a handler work on one change while
  the provider makes the next. The safety properties were also checked with two
  subscriptions and one notice (343,341 states). A tick is long compared with a
  request, so time does not pass within one.
- *ProviderStatus.* Four instants are the longest history of reports (sent,
  delivered, read) and one tick more.
- *Calendar.* Two calendars for one scope, a bot and the default. One key is
  enough for two copies of a request, and for two different requests with one
  key; `MaxChanges = 4` lets a resolution meet every kind of rule before and
  after it is read. `CalendarHours` has days of four minutes, weeks of two days
  and a horizon of two: enough for a clock that goes forward over a boundary,
  back before one, and for a horizon that ends past the last date.
- *Integration.* All properties are about one connection; two requests give the
  pairs of callback, health check and change of credentials; three tokens are
  one for each and one before.
- *Users.* Two people are the actor and the target, and two owners; two
  processes give every overlap of two requests, and the properties are about
  pairs. One token at a time is enough to have an old one accepted. Plans of
  one and two users let the second user be refused, and the plan be lowered below
  the two that there are.
- *Workspace.* One channel and one entry, because limits are counts and rows do
  not meet; two bots, because the readiness looks at the first of several.
  One plan has everything and one nothing.
- *Contacts.* One managed number carries the properties; the second number lets
  the backfill have a link pending while it works on another contact.
  `MaxVersion = 2` has a first save and a second one.

For safety the proofs remove these bounds: every invariant, action property and
refinement of a run is also a theorem, for any values of the constants that
satisfy the module's named assumption. Three need more: `NewestReportShows` and `NoRegression`
of `ProviderStatus`, and `FollowsProvider` of `Billing`, hold with one webhook
handler, as the API has. For liveness the bounds stay.

`CHECK_DEADLOCK FALSE` is set where the system may really stop: all rows
settled and no message left to arrive, all users inactive, or a bound on
versions reached. `handoff` needs no such exception.
Symmetry is used only in runs without liveness properties.

Several facts that are one matter are one property, a conjunction of named
parts (`SendsAreSafe`, `CalendarsAgree`, `JobsAreExact` and so on); the proofs
state the parts. Each property has a mutant in `PROJECT.json`: a plausible bug
in one mapped definition (a dropped guard, an off-by-one, a missing reset) that makes TLC
violate exactly that property. Mutated forms sit beside the definition they
mutate, under a comment that starts with "Mutant".

## Fairness

Safety properties assume none. Liveness is stated over `FairSpec`:

- *Outbox.* Weak fairness on a sender's steps (a request being served goes on;
  the HTTP client has a timeout, so a call ends), on `Retry` and `ExpireClaims`
  by *some* sender (the worker's loop selects due rows again and again), and on
  the passing of delays. None on `Enqueue`, on webhooks or on Meta's acceptance.
  Crashes are not bounded: a row still settles, because a dead claim ages and
  is failed.
- *Inbox.* The same with the recovery loop. None on the channel, which may close
  and stay closed, so that `EveryReceiptSettles` is about behaviours in which it
  stays open in the end (`<>[]channelOpen`); crashes are bounded by `MaxCrashes`,
  because a crash rolls the counted attempt back: a message that kills its
  process each time is tried without end (a listed hazard).
- *Automation.* Strong fairness on the claim of each execution: the batch is
  ordered by `available_at`, so a row cannot be passed over for ever although
  others make it wait. None on an administrator's retry: what nobody retries has
  failed for good.
- *Billing.* Time passes; the due job, started every minute, is not refused for
  ever while it has something to do (strong fairness on it and on commits); an
  unacknowledged notification comes again until it is handled. None on the
  customer, on renewals or on requests.
- *AIJobs.* Weak fairness only. Only the oldest job of a conversation is ever
  claimable, and nothing but its own end disables that. `RowEnds` is fair because
  every row settles: that is `EverySendSettles` of `Outbox`.

`Calendar`, `Integration`, `Users`, `Workspace` and `Contacts` state safety only:
each of their steps is part of a request of a person or a script run by hand, and
nothing in the code comes back to do what was left undone.

## The proofs

`OutboxProofs` — for any set of rows, any senders, any maximum of attempts.
`OneCopy` is not inductive: it says nothing of requests still on the wire. The
invariant `IInv` adds that a row's token, when set, is its last claim
(`RowClaims`), that every request on the wire or accepted belongs to the row's
last claim, and that a row that may be claimed or was refused has none at all;
that a request is never both on the wire and accepted (`Arrivals`); that a row
with a provider id was accepted (`RowVerdicts`); and that what a sender
remembers of its claim, and the answer it holds, are true (`SenderClaims`), no
two senders remembering the same claim (`DistinctClaims`). From it:
`TypeSafety`, `NoDuplicateSend`, `SingleOwner`, `TrueVerdicts`,
`NoRowIsStranded`, `FailedStaysFailed`, and `Implementation`: every step of
`Outbox` is a step of `AtMostOnceSend` or changes nothing it shows.

`InboxProofs` — any messages, customers, workers and crashes. `IInv` says what
the locks are for: a worker inside the receipt's lock has a receipt that may be
handled (`ReceiptHeld`), nobody else has it (`OneHolder`), one worker at a time
is inside a customer's contact lock (`OnePerConversation`), and the count it
read is still the count (`FreshRead`). From it: `TypeSafety`, `HandledOnce`,
`Numbering`, `PayloadKept`, `ProcessedStays`, and `Implementation`: every step
of `Inbox` is a step of `ConversationLog` or changes nothing it shows. The
commit of a handler is the hard case (`HandleStep`): that the new number is the
length of the conversation plus one, and that no other message has it, is
`FreshRead` with `NumberedInTurn`; a failure gives its message up exactly when it
uses up the last attempt (`FailStep`). `ConversationsGrow` draws the conclusion:
a step leaves every conversation alone or appends one message of its customer.

`HandoffProofs` — any agents, processes and number of messages. `IInv` says
that stages which imply a lock have it (`Locks`), that what an operation checked
when it locked the session still holds when it commits (`Accepted`), and that no
handoff is active while a handler is about to reply (`Silent`: the unlocked read
of `blocks_bot` is good because the handler has the conversation locked, and a
request needs that lock before it inserts its session). From it: `TypeSafety`,
`Agreement`, `Silence`, `KeptByAssignee`, `AnswersAuthorized`.

`ContactsProofs` — any numbers, conversations and processes, any bound on
versions. What a request has read decides what it writes, so `IInv` says of each
what it may still rely on: who holds a row has it locked (`LocksHeld`), what was
found is still there (`Known`); a message that has the row locked has read its
notes and registration as they are (`InboundHolds`), an edit of the CRM has read
the contact and the version of the form as they are (`EditHolds`), and the
administration, which locks nothing, has seen evidence that is in the notes alone
(`AmendSaw`), because nobody writes such notes again. `Kept` and `HolderWrites`
say once what a step may change under a lock; the parts of `IInv` are proved from
them, not action by action. From it: `Agreement` and `EvidenceKept`.

`AutomationProofs` — any automations, messages, workers, attempts and faults.
`RowsAreTrue` counts attempts against the leases that have lapsed, and that is
an argument about who may still add one. `IInv` says what a worker remembers of
the execution it runs (`WorkerKnows`); that the holders of an execution, and one
claim that is still to come, are no more than the lapses of its lease and one
(`HoldersBounded`: only a lease that runs out lets a second worker have it);
that, once the maximum is reached, the attempts, the holders that loaded an
older count and the claim to come are no more than the maximum and the lapses
(`EarlyBounded`); that without a lapse a held execution is running
(`Exclusive`); that a success asked for a handoff, and that what failed with
attempts left has a snapshot that cannot be read (`Truthful`). A row that may be
retried counts as a claim to come, so that the two bounds hold through retries.
The holders are finitely many although the workers need not be. From it:
`TrueRows` and `Outcomes`.

`AIJobsProofs` — any number of messages, workers, attempts, calls a day and
events. A job's token is of a run or was left on a cancelled job, and a job
whose memory was written has none (`JobKnown`), so that no late worker can open
it again; what is reserved has a slot, and a call has spent its reservation
(`CallsKnown`); an older job that runs, or whose reply is queued, keeps every
newer one out (`InOrder`); the budget adds calls and reservations over all jobs.
From it: `Typed` and `ExactJobs`.

`WorkspaceProofs` — any finite set of bots, any channels, entries, plans and
requests. `IInv` says what is locked (`Holding`, `RowHeld`), what an operation
is about (`Targeted`: nobody archives the entry that is being published), and
what a completion has read so far (`Attested`): its four statements read at four
moments, and each part stays as it was read because whoever could change it
waits for the organization's row. That only finitely many channels and entries
exist at a time (`Finite`) is proved, not assumed: the counts of the plan rest
on it. From it: `Agreement`, `SoundCompletion`, `PlanKept`.

`Integration`, in the same module. `ConnInv` says that a call which has the
connection's lock knows its credential and status, and that a token is not newer
than the last one given out (`CallKnown`); that no two calls have the same
connection locked, the same state consumed or the same token (`Distinct`); that
a state is exchanged once at most, and only when consumed (`StateKnown`); and
that an active connection has a credential (`ConnKnown`). From it:
`ConnAgreement`, `ConnRotation`, `ConnArchived`.

`UsersProofs` — any people, requests, tokens, versions and plans. `IInv`:
versions are counted from one and users are not deleted (`UserKnown`,
`CallKnown`); one request at a time has counted (`OneCounts`), and until it
commits the room that it found is there (`CountedKnown`), because a change of
the plan and every other creation wait for its lock; a token that no overlap has
touched is not ahead of its user, and behind when the password is another one
(`TokenKnown`); the active users are finitely many (`Finite`). From it:
`Agreement`, `RoomKept` and `OwnerKept`.

`Billing`, in the same module. `BillInv` says what exists only with a
subscription (`SubKnown`), that no more notifications are under way or with a
handler than the bound (`Counted`), that the organization's lock has one holder
(`OneLocks`), that this holder knows the price that the provider has
(`PriceKnown`), and that nobody knows an end before the provider does
(`EndKnown`). `BillingPrices` follows for any number of handlers.
`BillingFollows` needs more, because a handler loads its row before the lock and
the session writes only what differs from it. `RowShows` is the property, for
rows about which nothing is notified; `JobShows` says that an operation whose
answer is old has an old row in front of it, and will be followed by a
notification; `WorkShows` says that the last notification has either loaded what
is old, so that it writes, or found that row and operation already show what the
provider has. One handler at a time is assumed, as the API serves one webhook at
a time.

`ProviderStatus`, in `InboxProofs`. `StatusTyped` for any handlers and any length
of a second. With one handler, what it has read is the row, or the row that had
not been sent (`Serial`): no status regresses (`StatusNeverRegresses`), again for
any length of a second. With a tick for each second the reports are told apart
by their stamps and ordered by them as Meta emitted them (`InTime`), and the row
shows the newest that was heard (`Shown`, `StatusShowsNewest`). With two ticks
in a second that is false; the section on documents says how.

`Calendar`, in `HandoffProofs`. Every change is one audit event, and brings the
stamp of its version to the rules of its kind. `CalInv` says that versions and
events agree, that no stamp is newer than the calendar, and that an event about
rules is covered by a stamp that is as new (`TablesInv`); that overrides of a
calendar were made at different versions, and keep theirs until they are revoked
(`OverridesKnown`); that a key in the ledger has its receipt, that no key is in
two events and that an answer is what its receipt says (`KeysKnown`,
`KeysApart`, `AnswersKept`); and that what a resolution has read of a kind is as
new as every event of that kind up to the version that it began with
(`LookKnown`). From it: `CalAgreement`, `CalAnswers`, and, of no run, `CalArchived`: an
archived calendar and its rules are never changed again.

`CalendarHours`, in `HandoffProofs`: `ResolverIsRight`, from which `HoursRight`
follows, for any rules, instants and zones, any length of a day and of a week
and any horizon. `SameHours` says what the answer depends on; a minute after the
last one with the old answer therefore differs in an override that begins or
ends, in an interval that does, or in its date, and each of these is a
candidate, unless the clock itself moves there or the date is past the last one
(`ChangeIsCandidate`). The window loses no candidate (`WindowCandidates`) and no
answer (`WindowOpens`). It is assumed that an override ends after it starts,
which `ManualOverrideCreate` checks, and that a clock that is set back does not
return to a date that it has left: a zone that is set back at midnight is so at
the end of the old date. Zones that were set back just after midnight (St.
John's until 2011) are excluded, and for them the resolver, which begins with
the date of the instant, could miss a change.

`SafeSends`, `HandlingInTurn`, `InCharge`, `TrueRows` and `ExactJobs` state the
conjunctions that the runs check, put together from their parts.

The only assumptions are the named ones on the constants, one for each module
that has constants to restrict, which TLC evaluates in the passing runs:
`OutboxAssumption`, `InboxAssumption`, `StatusAssumption`, `HandoffAssumption`,
`CalendarAssumption`, `HoursAssumption`, `ContactsAssumption`,
`AutomationAssumption`, `AIJobsAssumption`, `WorkspaceAssumption`,
`IntegrationAssumption`, `UsersAssumption` and `BillingAssumption`. Two
conditions are hypotheses of the theorems that need them, because the model makes
sense without them: one webhook handler (`StatusNeverRegresses`,
`StatusShowsNewest`, `BillingFollows`) and a tick for each second
(`StatusShowsNewest`).

Every invariant, every action property and both refinements that a run checks
are stated by a theorem. Only model-checked: the liveness properties
(`EverySendSettles`, `EveryReceiptSettles`, `EveryExecutionSettles`,
`EveryJobSettles`, `ChangesTakeEffect`), because temporal reasoning with fairness
and ENABLED is beyond the prover.

## Where the code and its documents differ

The models do what the code does; where that is not what a document, a changelog
or a name promises, no property of a run says it. Paths of documents are
relative to `src/` too.

*Transport, conversations and handoff*

- *Timeouts of sends.* PRD_008_WHATSAPP_LIVE_MESSAGING.md:279-284 lists a timeout
  among what is retried. The code fails the row for good (the outcome is
  unknown), and so say the later `docs/runbooks/workers-and-jobs.md:22-24` and
  `Outbox`.
- *Human replies.* `send_human_reply` commits the outbound row and writes the
  history row in a later transaction that only the same request runs. After a
  crash in between the reply is delivered and never shows in the history
  (`InsertHumanReply`, `RecordHumanReply`; PRD_010_HUMAN_HANDOFF.md:21-22).
- *Delivery status in the history.* It is read in one transaction and written in
  another: the history can keep an old status for ever
  (`PRD_009_CONVERSATIONS_MANAGEMENT.md:128`).
- *Archives.* `archive` locks an active session row that is already there and not
  the conversation, so a conversation is archived with the handoff that is being
  requested (PRD_010:17, "Active handoffs block archive.").
- *Whole seconds* (`ProviderStatus` with `TicksPerSecond = 2`). A report in the
  second of the send is older than `mark_sent`'s own stamp and is dropped; of
  two reports in one second, equal ranks ("sent", "failed") let the late one
  win, so a late "sent" hides a failure (PRD_008:307, 384 call stale reports
  ignored).
- *Failed receipts.* `acquire_for_processing` takes a failed receipt with an
  attempt left, whoever asks, so a webhook redelivery runs it again; PRD_008:253
  says that it is not.
- *Counts.* `create_once` counts on the conversation it loaded before it waited
  for the lock: a message and a human reply at once are counted as one
  (`total` falls behind `rows` in `Handoff`).
- *Two webhook processes.* Both read the row before the lock, and the second
  writes on what it read: a read message goes back to delivered (PRD_008:306).
  The image starts one API worker, so this is a condition of deployment.
- *Stale transitions.* A close or reopen that read the status before an archive
  committed takes the conversation out of the archive (PRD_009:131-132). A
  message that loaded the conversation as open, while it is closed, leaves it
  closed (PRD_009:75).
- *Waiting replies.* An automatic reply that waits for its retry is delivered
  while a human has the conversation; only rows of the AI lane are checked again
  (PRD_009:150-152). `BotIsSilent` is about the queue.

*Automations and the AI lane*

- *Two handoffs.* `run` commits the handoff and its own status apart: a worker
  that dies in between, and a handoff that is resolved before the row is claimed
  again, make the execution ask a second time (PRD-012:38-39, "idempotente").
- *Stopped automations.* A message that read an automation as active records its
  execution after it was stopped or edited, with the old version, and it is run.
- *Attempts of executions.* `claim` counts attempts and never looks at the
  count: each lapsed lease is one more than the three of PRD-012:28.
  `AttemptsBounded` states the bound that does hold.
- *Rows of the AI lane.* The dispatcher reads the row of a reply without a lock,
  and writes it. After 120 seconds it fails a row that is claimed and leaves the
  token on it: the answer of a slow call then still settles the row as "sent"
  under a job that says "delivery_unknown", and what was marked sent between the
  read and the write is shown as failed. The same goes for the rows of jobs that
  are withdrawn. `Outbox` has the rows of people and of the handlers only.
- *Cancelled AI jobs.* When a claim cancels an ineligible job whose lease ran
  out, it leaves the token on it; `fail` looks for the token alone, so the late
  worker turns the cancelled job back to "retry" or "ready". It is cancelled
  again, or answered, later: `EveryJobSettles` holds, "cancelled is final" does
  not.
- *Lost leases.* A worker that notices its own lapsed lease fails the job as
  fatal, and thereby cancels it although attempts are left; had it died, the
  next worker would have gone on.

*Billing*

- *Paid periods.* One column holds the instants of a downgrade, of its
  announcement and of a cancellation: a cancellation at the provider during a
  scheduled downgrade ends the paid period early, by the provider's lead
  (docs/PRD-019-billing-subscriptions.md:169-171).
- *Plans and prices.* A suspension stages the fallback plan, and the organization
  keeps it when its payments resume and the subscription is active again: a
  confirmation stages a plan only for a pending row or a pending price
  (PRD-019:144). A webhook that
  loaded the row while it was "pending", and waited while a reconcile activated
  it and an upgrade was applied, stages the first plan again under the new
  price. A price raised at the provider by a request that then failed is charged
  and not granted until the request is repeated. An upgrade asked for while a
  downgrade is scheduled waits for the end of the period. Provider calls are
  made while the row locks are held (PRD-019:229 says they are never part of the
  transaction).

*Users*

- *The last owner.* `deactivate` and `assign_role` load the target before they
  wait for the organization's lock and never again, so a target that became the
  last owner meanwhile is let go (CHANGELOG.md:101 calls the invariant
  concurrency-safe); the promotion script takes the last owner without asking.
  `OwnerIsKept` states what does hold.
- *Old tokens.* Every writer of `auth_version` writes what it loaded plus one. Of
  two changes at once one raise is lost, or the version goes back, and a token
  that was to end is accepted again; a login that verified the old password gets
  a token with the new version (README.md:582, "Password changes and deactivation
  invalidate previous tokens."). These tokens are the ones that an overlap
  touched (`raced`), and `UsersAgree` says that no other token outlives its
  password: after the overlap, tokens end again with the next change, although
  versions were lost.
- *Stopped organizations.* The creation of a user asks for the status of the
  organization before it has the lock, and not after.

*Workspace*

- *Completion.* The readiness is derived by several statements at READ COMMITTED,
  and creations, deactivations and updates never ask for the lock that it holds. What
  makes `CompletionIsSound` true is the foreign key of their audit events, which
  waits for that lock at their commit.
- *A deadlock.* `activate` of a WhatsApp configuration locks the organization and
  then the row; update, rotation, deactivation and deletion have the row and then
  need the organization for their audit event. PostgreSQL ends one of the two
  (`Abandon`) with an OperationalError that `_commit` does not map.
- *Readiness* looks at the first active bot that has a configuration, and at its
  first active channel: a second one that is complete does not count.
- *Archived knowledge.* An update of a draft that races its archive changes the
  text of an archived entry. A publish loads the entry under the organization's
  lock, which the archive needs for its audit event, and never takes it out of
  the archive (`PlanIsKept`).

*Contacts*

- *Versions.* The administration's edit neither locks the contact nor raises the
  version of its profile: the CRM does not notice it (docs/CRM_INTRANET.md: "un
  cambio obsoleto devuelve 409"), and a save writes over it.
- *The backfill* rolls back the links that are pending when the next contact has
  a conflict, and has counted them as linked.
- *Archives.* A contact that is archived between the first read of a message and
  its lock stays archived, though messages reopen archived contacts.
- *Assignees* are checked before the row is locked.

*Calendar and integrations*

- *Repeated keys.* A retry that races its first attempt looks for the receipt
  before it waits for the lock, and is then judged on the new version: it gets a
  409 although the first attempt succeeded.
- *Next changes.* Clock changes are not among the instants that the resolver
  looks at: a change of the hours that only the clock makes is missed. After a
  day of 23 hours the horizon ends on a date whose exceptions are not read.
- *Resolutions* read the calendar and its rules by separate statements: the
  version that is answered may be older than some of the rules.
- *Callbacks.* The status of the connection is checked before Google is asked and
  not after: an authorization completes on an archived connection
  (PRD-013_INTEGRATION_MANAGEMENT.md:50, "`archived`: terminal.");
  `ArchivedSettles` states what does hold. A health check stores by what it
  loaded early, and a value that is equal to that is not written. Listing
  calendars and asking for availability discard a refresh token that Google
  rotated meanwhile.

*Read, and in no model*

- The automation engine's production path (`core/automation/service.py:108-140`)
  uses a session without autoflush: its monitor does not find the rows that it
  has just added, and executions stay "running" with counts of 0. `recover` has
  no caller.
- The circuit breaker of the integration gateway lets any number of requests
  through while half open, and a late failure extends an open one.
- The in-memory conversation engine stays in "awaiting_brain" when the brain
  raises.

Known hazards of the modelled code without a property of a run: a row whose
message kills its process is taken up without end, because the attempt is
counted in the transaction that the crash rolls back (`MaxCrashes` bounds it); a
row that cannot be decrypted starves the rows behind it (see the assumptions); a second webhook
process, with which a read message goes back to delivered; links of the backfill
that are rolled back and counted;
deadlocks between a message and a handoff request, between a callback and a
health check, and between the activation and an update of a channel, which PostgreSQL ends and nothing retries.

## Assumptions

- A 5xx or 429 of Meta is a refusal: the code retries it as one. If Meta had
  taken the message, the retry is a second copy; nothing in the repository says.
- A row can be read by who selects it. A row whose ciphertext cannot be
  decrypted raises out of the worker's loop over sends (and out of
  `dispatch_one`) and starves the rows behind it; the inbound loop handles the
  case, and `Inbox` has it.
- One API worker serves webhooks (`uvicorn --workers 1`); the workers are
  processes of their own.
- PostgreSQL's READ COMMITTED and lock semantics. Deadlocks end one transaction.
- UUIDs are fresh; clocks of processes agree to within the lease.

## What is not modelled

Wording, prompts, validation of model output and the content of memory; message
and template rendering; updates of automation definitions other than as a new
version; what the dispatcher of the AI lane
writes on outbound rows; listing and reading.

- *Integration, automation, business and conversation engines* (`core/`). One
  synchronous pass for each message over data in memory; what state they keep
  (circuit breaker, limiter) is planned as `Gateway`.
- *API request limits.* Counters of a window in Redis or in memory; planned with
  the gateway's limiter.
- *Analytics, dashboard, audit.* Queries. What an audit event locks is in
  `Workspace`.
- *Portal, observability, migrations.* No behaviour that a state machine would
  add to.

## The plan

Done, in this order: transport and handoff (`Outbox`, `AtMostOnceSend`,
`ProviderStatus`, `Inbox`, `ConversationLog`, `Handoff`); the asynchronous lanes (`Automation`,
`AIJobs`); `Billing`; administration (`Users`, `Workspace`); `Integration`;
`Calendar` and `CalendarHours`; `Contacts`; and, for each of them, the proofs of
what its runs check of safety.

Left, most important first:

1. *Rows of the AI lane*: the claim of `Outbox` with the dispatcher and the
   updates of a bot's settings as further writers. Properties: job and row tell
   the same unless a call outlived its claim; one copy (`AtMostOnceSend`).
2. *`Gateway`*: circuit breaker and limiters under threads.
3. *Receipts of billing events*: deduplication and retries.
4. *Engines*: their decisions as functions against reference definitions.
