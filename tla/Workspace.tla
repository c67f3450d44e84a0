------------------------------ MODULE Workspace ------------------------------
(***************************************************************************)
(* How an organization is set up: its plan, bots, business configurations, *)
(* WhatsApp configurations and knowledge, and the onboarding that may be   *)
(* completed once all of it is ready.                                      *)
(*                                                                         *)
(* What consumes the plan locks the row of the organization for update.    *)
(* Everything else that is audited meets that lock too, at its commit: the *)
(* foreign key of the audit event takes a key-share lock of the same row.  *)
(* A request that reads in one statement and commits in another is two     *)
(* steps; who asks is the matter of Users.                                 *)
(***************************************************************************)
EXTENDS Integers, FiniteSets

CONSTANTS
    Bots,           \* numbered in the order of their creation
    Channels,       \* WhatsApp configurations that may be created
    Entries,        \* knowledge entries that may be created
    Secrets,        \* "verify" and "app" among them; others count at the end
    Plans,          \* features and limits: see PlanType
    Processes, NoProcess

PlanType == [whatsapp : BOOLEAN, knowledge : BOOLEAN,
             bots : Nat, channels : Nat, entries : Nat]

ASSUME WorkspaceAssumption ==
    /\ Bots \subseteq Nat /\ IsFiniteSet(Bots)
    /\ {"verify", "app"} \subseteq Secrets
    /\ Plans # {} /\ Plans \subseteq PlanType
    /\ NoProcess \notin Processes

VARIABLES
    organization,   \* organization.status
    owner,          \* whether there is an active owner
    plan,           \* the plan that is assigned
    bot,            \* bot.status
    configured,     \* bots with a business configuration
    channel,        \* table whatsapp_channel_configuration
    entry,          \* knowledge_entry.status
    onboarding,     \* organization_onboarding.status
    lock,           \* who has the row of the organization for update
    rowLock,        \* who has the row of a channel for update
    call            \* the requests under way

setup == <<organization, owner, plan, bot, configured, channel, entry>>
vars  == <<setup, onboarding, lock, rowLock, call>>

NoChannel == [status |-> "absent", on |-> 0, webhook |-> FALSE, secrets |-> {}]
Channel   == [status : {"draft", "active", "inactive"}, on : Bots,
              webhook : BOOLEAN, secrets : SUBSET Secrets]
Starting  == {"bot", "enlist", "publish", "archive", "complete"}

\* on: the bot, channel or entry.  seen: its status when it was read; what has
\* been found ready so far by a completion.
Call == [op : Starting \cup {"none", "switch", "rotate", "stop", "delete"},
         on : Bots \cup Channels \cup Entries \cup {0},
         seen : {"none", "inactive", "active", "draft", "published", "archived",
                 "started", "bots", "channel"},
         chosen : Bots \cup {0}]
Idle == [op |-> "none", on |-> 0, seen |-> "none", chosen |-> 0]

TypeOK ==
    /\ organization \in {"absent", "active", "inactive"} /\ owner \in BOOLEAN
    /\ plan \in Plans
    /\ bot \in [Bots -> {"absent", "inactive", "active"}]
    /\ configured \subseteq Bots
    /\ channel \in [Channels -> Channel \cup {NoChannel}]
    /\ entry \in [Entries -> {"absent", "draft", "published", "archived"}]
    /\ onboarding \in {"not_started", "in_progress", "completed"}
    /\ lock \in Processes \cup {NoProcess}
    /\ rowLock \in [Channels -> Processes \cup {NoProcess}]
    /\ call \in [Processes -> Call]

Init ==
    /\ organization = "absent" /\ owner = FALSE
    /\ plan \in Plans
    /\ bot = [b \in Bots |-> "absent"] /\ configured = {}
    /\ channel = [c \in Channels |-> NoChannel]
    /\ entry = [e \in Entries |-> "absent"]
    /\ onboarding = "not_started"
    /\ lock = NoProcess /\ rowLock = [c \in Channels |-> NoProcess]
    /\ call = [p \in Processes |-> Idle]

-----------------------------------------------------------------------------
(* Locks, counts and calls.                                                *)

\* The key-share lock that the audit event takes, or the lock for update of a
\* request that takes it and commits at once.
OrganizationFree == lock = NoProcess
RowFree(c)       == rowLock[c] = NoProcess
Exists           == organization # "absent"
IsActive         == organization = "active"

ActiveBots  == {b \in Bots : bot[b] = "active"}
Configs     == {c \in Channels : channel[c] # NoChannel}
OpenEntries == {e \in Entries : entry[e] \in {"draft", "published"}}

Begin(p, op, on, seen) ==
    /\ call[p] = Idle
    /\ call' = [call EXCEPT ![p] = [op |-> op, on |-> on, seen |-> seen,
                                    chosen |-> 0]]
Doing(p, op) == call[p].op = op
Finish(p) ==
    /\ call' = [call EXCEPT ![p] = Idle]
    /\ lock' = IF lock = p THEN NoProcess ELSE lock
    /\ rowLock' = [c \in Channels |->
                     IF rowLock[c] = p THEN NoProcess ELSE rowLock[c]]

calls == <<lock, rowLock, call>>

-----------------------------------------------------------------------------
(* Users, the organization and its plan.                                   *)

\* With the default plan, which may be any.
CreateOrganization ==
    /\ organization = "absent"
    /\ organization' = "active"
    /\ UNCHANGED <<owner, plan, bot, configured, channel, entry, onboarding,
                   calls>>

\* UserService takes the lock of the organization for each of these.
ChangeOwner ==
    /\ IsActive /\ OrganizationFree
    /\ owner' = ~owner
    /\ UNCHANGED <<organization, plan, bot, configured, channel, entry,
                   onboarding, calls>>

StopOrganization ==
    /\ IsActive /\ owner /\ OrganizationFree
    /\ organization' = "inactive"
    /\ UNCHANGED <<owner, plan, bot, configured, channel, entry, onboarding,
                   calls>>

\* stage: the same plan is no change.
Changes(q) == q # plan

AssignPlan(q) ==
    /\ Exists /\ OrganizationFree /\ Changes(q)
    /\ plan' = q
    /\ UNCHANGED <<organization, owner, bot, configured, channel, entry,
                   onboarding, calls>>

-----------------------------------------------------------------------------
(* Bots and their business configurations.                                 *)

CreateBot(b) ==
    /\ IsActive /\ OrganizationFree
    /\ bot[b] = "absent" /\ \A a \in Bots : a < b => bot[a] # "absent"
    /\ bot' = [bot EXCEPT ![b] = "inactive"]
    /\ UNCHANGED <<organization, owner, plan, configured, channel, entry,
                   onboarding, calls>>

\* activate and deactivate load the bot before anything else.
LoadBot(p, b) ==
    /\ bot[b] # "absent" /\ IsActive
    /\ Begin(p, "bot", b, bot[b])
    /\ UNCHANGED <<setup, onboarding, lock, rowLock>>

\* Mutant: the bot that is to be activated is not counted.
ActivateBotOver(p) ==
    /\ Doing(p, "bot") /\ call[p].seen = "inactive"
    /\ OrganizationFree /\ Cardinality(ActiveBots) <= plan.bots
    /\ bot' = [bot EXCEPT ![call[p].on] = "active"]
    /\ Finish(p)
    /\ UNCHANGED <<organization, owner, plan, configured, channel, entry,
                   onboarding>>

\* The lock, the count and the commit of activate.
ActivateBot(p) ==
    /\ Doing(p, "bot") /\ call[p].seen = "inactive"
    /\ OrganizationFree /\ Cardinality(ActiveBots) < plan.bots
    /\ bot' = [bot EXCEPT ![call[p].on] = "active"]
    /\ Finish(p)
    /\ UNCHANGED <<organization, owner, plan, configured, channel, entry,
                   onboarding>>

\* Mutant: a deactivation without an audit event.
DeactivateBotQuietly(p) ==
    /\ Doing(p, "bot") /\ call[p].seen = "active"
    /\ bot' = [bot EXCEPT ![call[p].on] = "inactive"]
    /\ Finish(p)
    /\ UNCHANGED <<organization, owner, plan, configured, channel, entry,
                   onboarding>>

DeactivateBot(p) ==
    /\ Doing(p, "bot") /\ call[p].seen = "active"
    /\ OrganizationFree
    /\ bot' = [bot EXCEPT ![call[p].on] = "inactive"]
    /\ Finish(p)
    /\ UNCHANGED <<organization, owner, plan, configured, channel, entry,
                   onboarding>>

ConfigureBusiness(b) ==
    /\ IsActive /\ OrganizationFree
    /\ bot[b] # "absent" /\ b \notin configured
    /\ configured' = configured \cup {b}
    /\ UNCHANGED <<organization, owner, plan, bot, channel, entry, onboarding,
                   calls>>

-----------------------------------------------------------------------------
(* WhatsApp configurations.  All but create and activate take the row and  *)
(* meet the organization at their commit; activate takes the organization  *)
(* first.                                                                  *)

CreateChannel(c, b, webhook, secrets) ==
    /\ IsActive /\ OrganizationFree
    /\ channel[c] = NoChannel /\ bot[b] # "absent"
    /\ plan.whatsapp /\ Cardinality(Configs) < plan.channels
    /\ channel' = [channel EXCEPT ![c] = [status |-> "draft", on |-> b,
                                          webhook |-> webhook,
                                          secrets |-> secrets]]
    /\ UNCHANGED <<organization, owner, plan, bot, configured, entry,
                   onboarding, calls>>

\* update, rotate_secrets, deactivate and delete, up to the lock of the row.
LockRow(p, op, c) ==
    /\ channel[c] # NoChannel /\ RowFree(c)
    /\ op \in {"switch", "rotate"} => IsActive
    /\ Begin(p, op, c, "none")
    /\ rowLock' = [rowLock EXCEPT ![c] = p]
    /\ UNCHANGED <<setup, onboarding, lock>>

Store(p, row) ==
    /\ OrganizationFree
    /\ channel' = [channel EXCEPT ![call[p].on] = row]
    /\ Finish(p)
    /\ UNCHANGED <<organization, owner, plan, bot, configured, entry, onboarding>>

\* An active channel with a webhook needs the app secret.
Usable(row) ==
    row.status = "active" =>
       /\ "verify" \in row.secrets
       /\ row.webhook => "app" \in row.secrets

\* Mutant: the webhook of an active channel is switched on unchecked.
UpdateChannelUnchecked(p, webhook) ==
    /\ Doing(p, "switch")
    /\ Store(p, [channel[call[p].on] EXCEPT !.webhook = webhook])

UpdateChannel(p, webhook) ==
    LET row == [channel[call[p].on] EXCEPT !.webhook = webhook]
    IN  Doing(p, "switch") /\ Usable(row) /\ Store(p, row)

RotateSecrets(p, secrets) ==
    LET row == [channel[call[p].on] EXCEPT !.secrets = @ \cup secrets]
    IN  Doing(p, "rotate") /\ Store(p, row)

DeactivateChannel(p) ==
    LET row == channel[call[p].on]
    IN  /\ Doing(p, "stop") /\ row.status \in {"draft", "active"}
        /\ Store(p, [row EXCEPT !.status = "inactive"])

DeleteChannel(p) == Doing(p, "delete") /\ Store(p, NoChannel)

EnlistChannel(p, c) ==
    /\ IsActive /\ OrganizationFree /\ plan.whatsapp
    /\ Begin(p, "enlist", c, "none")
    /\ lock' = p
    /\ UNCHANGED <<setup, onboarding, rowLock>>

ActivateChannel(p) ==
    LET c == call[p].on  row == [channel[c] EXCEPT !.status = "active"]
    IN  /\ Doing(p, "enlist") /\ RowFree(c)
        /\ channel[c].status \in {"draft", "inactive"}
        /\ Usable(row)
        /\ channel' = [channel EXCEPT ![c] = row]
        /\ Finish(p)
        /\ UNCHANGED <<organization, owner, plan, bot, configured, entry,
                       onboarding>>

-----------------------------------------------------------------------------
(* Knowledge: archive loads the entry without a lock, publish under that   *)
(* of the organization.                                                    *)

CreateEntry(e) ==
    /\ IsActive /\ OrganizationFree
    /\ entry[e] = "absent"
    /\ plan.knowledge /\ Cardinality(OpenEntries) < plan.entries
    /\ entry' = [entry EXCEPT ![e] = "draft"]
    /\ UNCHANGED <<organization, owner, plan, bot, configured, channel,
                   onboarding, calls>>

LoadEntry(p, op, e) ==
    /\ IsActive /\ entry[e] # "absent"
    /\ op = "publish" => OrganizationFree /\ plan.knowledge /\ entry[e] = "draft"
    /\ op = "archive" => entry[e] \in {"draft", "published"}
    /\ Begin(p, op, e, entry[e])
    /\ lock' = IF op = "publish" THEN p ELSE lock
    /\ UNCHANGED <<setup, onboarding, rowLock>>

\* The commit of a transition; a row that is gone fails it.
StoreEntry(p) ==
    /\ call[p].op \in {"publish", "archive"} /\ lock \in {p, NoProcess}
    /\ entry[call[p].on] # "absent"
    /\ entry' = [entry EXCEPT ![call[p].on] = IF Doing(p, "publish")
                                              THEN "published" ELSE "archived"]
    /\ Finish(p)
    /\ UNCHANGED <<organization, owner, plan, bot, configured, channel,
                   onboarding>>

DeleteEntry(e) ==
    /\ IsActive /\ OrganizationFree /\ entry[e] # "absent"
    /\ entry' = [entry EXCEPT ![e] = "absent"]
    /\ UNCHANGED <<organization, owner, plan, bot, configured, channel,
                   onboarding, calls>>

-----------------------------------------------------------------------------
(* Onboarding.  A completion keeps the lock of the organization from its   *)
(* first statement on, and derives the readiness statement by statement.   *)

StartOnboarding ==
    /\ Exists /\ OrganizationFree /\ onboarding = "not_started"
    /\ onboarding' = "in_progress"
    /\ UNCHANGED <<setup, calls>>

\* The first statements; the plan that they read cannot change any more.
Staffed == IsActive /\ owner

BeginCompletion(p) ==
    /\ OrganizationFree /\ onboarding = "in_progress" /\ Staffed
    /\ Begin(p, "complete", 0, "started")
    /\ lock' = p
    /\ UNCHANGED <<setup, onboarding, rowLock>>

\* The bots that do not block it: active, with a business configuration.
Candidates == {b \in ActiveBots : b \in configured}

\* initial_bot: the first of them.
ReadBots(p) ==
    /\ Doing(p, "complete") /\ call[p].seen = "started"
    /\ \E b \in Candidates :
          /\ \A a \in Candidates : b <= a
          /\ call' = [call EXCEPT ![p].seen = "bots", ![p].chosen = b]
    /\ UNCHANGED <<setup, onboarding, lock, rowLock>>

Complete(row) == /\ row.status = "active" /\ row.webhook
                 /\ row.secrets = Secrets

\* The active configuration that is read: of several, any.
ReadChannel(p) ==
    /\ Doing(p, "complete") /\ call[p].seen = "bots"
    /\ plan.whatsapp => \E c \in Channels : /\ channel[c].on = call[p].chosen
                                            /\ Complete(channel[c])
    /\ call' = [call EXCEPT ![p].seen = "channel"]
    /\ UNCHANGED <<setup, onboarding, lock, rowLock>>

\* Nothing blocks: knowledge and integrations are optional.
ReadyToComplete(p) == Doing(p, "complete") /\ call[p].seen = "channel"

CompleteOnboarding(p) ==
    /\ ReadyToComplete(p)
    /\ onboarding' = "completed"
    /\ Finish(p)
    /\ UNCHANGED setup

-----------------------------------------------------------------------------

\* What is refused, fails or deadlocks ends so; a crash too.
Abandon(p) ==
    /\ call[p] # Idle
    /\ Finish(p)
    /\ UNCHANGED <<setup, onboarding>>

ManageBots(p) ==
    \/ \E b \in Bots : LoadBot(p, b)
    \/ ActivateBot(p) \/ DeactivateBot(p)

ManageChannels(p) ==
    \/ \E c \in Channels : \/ EnlistChannel(p, c)
                           \/ \E op \in {"switch", "rotate", "stop", "delete"} :
                                 LockRow(p, op, c)
    \/ \E webhook \in BOOLEAN : UpdateChannel(p, webhook)
    \/ \E s \in Secrets : RotateSecrets(p, {s})
    \/ DeactivateChannel(p) \/ DeleteChannel(p) \/ ActivateChannel(p)

ManageKnowledge(p) ==
    \/ \E e \in Entries : \E op \in {"publish", "archive"} : LoadEntry(p, op, e)
    \/ StoreEntry(p)

Onboard(p) ==
    BeginCompletion(p) \/ ReadBots(p) \/ ReadChannel(p) \/ CompleteOnboarding(p)

AtOnce ==
    \/ CreateOrganization \/ ChangeOwner \/ StopOrganization \/ StartOnboarding
    \/ \E q \in Plans : AssignPlan(q)
    \/ \E b \in Bots : CreateBot(b) \/ ConfigureBusiness(b)
    \/ \E c \in Channels : \E b \in Bots : \E webhook \in BOOLEAN :
          \E s \in {{}, Secrets} : CreateChannel(c, b, webhook, s)
    \/ \E e \in Entries : CreateEntry(e) \/ DeleteEntry(e)

Next ==
    \/ AtOnce
    \/ \E p \in Processes : \/ ManageBots(p) \/ ManageChannels(p)
                            \/ ManageKnowledge(p) \/ Onboard(p) \/ Abandon(p)

Spec == Init /\ [][Next]_vars

-----------------------------------------------------------------------------

\* What a webhook asks for: an active channel that takes it, and the secrets
\* that answer its challenge and verify its signature.
Takes(row)    == row.status = "active" /\ row.webhook
Verifies(row) == {"verify", "app"} \subseteq row.secrets

\* A channel that takes messages can verify them, although its secrets, its
\* webhook and its status are changed by different requests.
WorkspaceAgrees ==
    TypeOK /\ \A c \in Channels : Takes(channel[c]) => Verifies(channel[c])

\* What a completed onboarding attests, whatever a completion has read.
Ready ==
    /\ Staffed
    /\ \E b \in Candidates :
          plan.whatsapp => \E c \in Channels : /\ channel[c].on = b
                                               /\ Complete(channel[c])

\* The readiness is read in four statements, yet all of it holds at the commit:
\* whatever could change it waits for the completion's lock, a bot that is
\* deactivated or a channel that is deleted because of its audit event.
CompletionIsSound ==
    [][onboarding' = "completed" /\ onboarding # "completed" => Ready]_vars

\* Nothing grows past the plan of the moment, and what was archived stays so
\* although neither of two transitions locks the entry.
Grows(before, after, limit) ==
    Cardinality(after) > Cardinality(before) => Cardinality(after) <= limit

PlanIsKept ==
    [][/\ Grows(ActiveBots, ActiveBots', plan'.bots)
       /\ Grows(Configs, Configs', plan'.channels)
       /\ Grows(OpenEntries, OpenEntries', plan'.entries)
       /\ \A e \in Entries : entry[e] = "archived" =>
                                entry'[e] \in {"archived", "absent"}]_vars
=============================================================================
