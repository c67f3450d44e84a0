------------------------------- MODULE Handoff -------------------------------
(***************************************************************************)
(* One managed conversation and its handoff session: customer messages,    *)
(* the lifecycle (open, closed, archived) and the human agents who take    *)
(* the conversation over, all in concurrent transactions of one database.  *)
(*                                                                         *)
(* A transaction reads committed rows, takes row locks, and shows what it  *)
(* wrote at its commit.  conversationLock and sessionLock are FOR UPDATE   *)
(* locks; shared are the FOR KEY SHARE locks on the conversation that the  *)
(* foreign key of an inserted message row takes.                           *)
(***************************************************************************)
EXTENDS Integers, FiniteSets

CONSTANTS
    Agents,         \* users who may take the conversation over
    Admins,         \* owners and admins among them: "privileged" in the code
    Nobody,         \* no assignee; also the author of system requests
    Processes, NoProcess,
    MaxMessages     \* bound on the message rows of the conversation

ASSUME HandoffAssumption ==
    /\ Admins \subseteq Agents
    /\ Nobody \notin Agents /\ NoProcess \notin Processes
    /\ MaxMessages \in Nat

VARIABLES
    lifecycle,      \* conversation.management_status
    total,          \* conversation.message_count
    rows,           \* message rows of the conversation
    queued,         \* automatic replies in the outbox
    session,        \* handoff_session.status, "none" before the first request
    assignee,       \* handoff_session.assigned_user_id
    cycle,          \* the unresolved handoff_cycle, if any, and its phase
    enabled,        \* users whose status is active
    conversationLock, sessionLock, shared,
    pc, request,    \* what each process does
    copy            \* the conversation that it has loaded

conversationVars == <<lifecycle, total, rows, queued>>
sessionVars      == <<session, assignee, cycle>>
lockVars         == <<conversationLock, sessionLock, shared>>
processVars      == <<pc, request, copy>>
vars == <<conversationVars, sessionVars, enabled, lockVars, processVars>>

Lifecycles == {"open", "closed", "archived"}
Sessions   == {"none", "waiting_human", "human_active", "resolved",
               "bot_active"}
Active     == {"waiting_human", "human_active"}
Stages     == {"idle", "load", "insert", "upgrade", "gate", "reply",
               "suppress", "record", "check", "write", "conversation",
               "session", "commit"}
SessionOps == {"claim", "release", "transfer", "resolve", "return"}
Ops        == SessionOps \cup {"inbound", "close", "reopen", "archive",
                               "request", "answer"}
Requests   ==
    {r \in [op : Ops, by : Agents \cup {Nobody}, to : Agents \cup {Nobody}] :
        /\ r.by = Nobody <=> r.op \notin SessionOps \cup {"answer"}
        /\ r.to = Nobody <=> r.op # "transfer"}
Copies     == [lifecycle : Lifecycles, total : Nat]

TypeOK ==
    /\ lifecycle \in Lifecycles
    /\ total \in Nat /\ rows \in Nat /\ queued \in Nat
    /\ session \in Sessions
    /\ assignee \in Agents \cup {Nobody}
    /\ cycle \in {"none", "requested", "activated"}
    /\ enabled \subseteq Agents
    /\ conversationLock \in Processes \cup {NoProcess}
    /\ sessionLock \in Processes \cup {NoProcess}
    /\ shared \subseteq Processes
    /\ pc \in [Processes -> Stages]
    /\ request \in [Processes -> Requests]
    /\ copy \in [Processes -> Copies]

Idle == [op |-> "inbound", by |-> Nobody, to |-> Nobody]
Nothing == [lifecycle |-> "open", total |-> 0]
Conversation == [lifecycle |-> lifecycle, total |-> total]

Init ==
    /\ lifecycle = "open" /\ total = 0 /\ rows = 0
    /\ queued = 0
    /\ session = "none" /\ assignee = Nobody /\ cycle = "none"
    /\ enabled = Agents
    /\ conversationLock = NoProcess /\ sessionLock = NoProcess
    /\ shared = {}
    /\ pc = [p \in Processes |-> "idle"]
    /\ request = [p \in Processes |-> Idle]
    /\ copy = [p \in Processes |-> Nothing]

-----------------------------------------------------------------------------
(* Transactions and locks.                                                 *)

Op(p) == request[p].op
By(p) == request[p].by

GoTo(p, stage) == pc' = [pc EXCEPT ![p] = stage]

\* Commit or rollback: the locks of p are gone.
Unlock(p) ==
    /\ conversationLock' = IF conversationLock = p THEN NoProcess
                           ELSE conversationLock
    /\ sessionLock' = IF sessionLock = p THEN NoProcess ELSE sessionLock
    /\ shared' = shared \ {p}

\* The request is over.
Finish(p) ==
    /\ GoTo(p, "idle") /\ Unlock(p)
    /\ request' = [request EXCEPT ![p] = Idle]
    /\ copy' = [copy EXCEPT ![p] = Nothing]

\* Whether p gets FOR UPDATE, FOR NO KEY UPDATE and FOR KEY SHARE on the
\* conversation without waiting.
MayLockConversation(p) == conversationLock = NoProcess /\ shared \subseteq {p}
MayWrite(p) == conversationLock \in {NoProcess, p}
MayLockSession(p) == sessionLock = NoProcess

-----------------------------------------------------------------------------
(* Requests arrive.                                                        *)

\* At most one handler at a time works on a customer's messages: the contact
\* lock, Inbox!LockContact.
Handling(p) == pc[p] # "idle" /\ Op(p) = "inbound"

FirstStage(op) ==
    IF op \in {"inbound", "close", "reopen", "archive"} THEN "load"
    ELSE IF op = "request" THEN "conversation" ELSE "session"

Begin(p, r) ==
    /\ pc[p] = "idle"
    /\ r.op = "inbound" => ~\E q \in Processes : Handling(q)
    /\ r.by # Nobody => r.by \in enabled
    /\ r.op \in {"inbound", "answer"} => rows + 2 <= MaxMessages
    /\ GoTo(p, FirstStage(r.op))
    /\ request' = [request EXCEPT ![p] = r]
    /\ UNCHANGED <<conversationVars, sessionVars, enabled, lockVars, copy>>

\* _get_identity of record_inbound, get_scoped of transition: a plain SELECT.
\* An archived conversation takes no message; transition refuses a step that
\* is not allowed from what it read.
Allowed(from) ==
    IF from = "open" THEN {"close", "archive"}
    ELSE IF from = "closed" THEN {"reopen", "archive"} ELSE {}

Load(p) ==
    /\ pc[p] = "load"
    /\ \/ /\ Op(p) = "inbound" /\ lifecycle # "archived"
          /\ GoTo(p, "insert")
          /\ copy' = [copy EXCEPT ![p] = Conversation]
          /\ UNCHANGED <<request, lockVars>>
       \/ /\ Op(p) # "inbound" /\ Op(p) \in Allowed(lifecycle)
          /\ GoTo(p, IF Op(p) = "archive" THEN "check" ELSE "write")
          /\ UNCHANGED <<request, copy, lockVars>>
       \/ /\ IF Op(p) = "inbound" THEN lifecycle = "archived"
             ELSE Op(p) \notin Allowed(lifecycle)
          /\ Finish(p)
    /\ UNCHANGED <<conversationVars, sessionVars, enabled>>

-----------------------------------------------------------------------------
(* A customer's message.                                                   *)

\* create_once inserts the message row; its foreign key locks the
\* conversation against FOR UPDATE ...
Insert(p) ==
    /\ pc[p] = "insert" /\ MayWrite(p)
    /\ shared' = shared \cup {p}
    /\ GoTo(p, "upgrade")
    /\ UNCHANGED <<conversationVars, sessionVars, enabled, conversationLock,
                   sessionLock, request, copy>>

\* ... and then selects it FOR UPDATE.  A handler keeps the attributes that it
\* loaded before; the request of a human reply, which loaded none, sees these.
Upgrade(p) ==
    /\ pc[p] = "upgrade" /\ MayLockConversation(p)
    /\ conversationLock' = p
    /\ \/ /\ Op(p) = "inbound"
          /\ GoTo(p, "gate")
          /\ UNCHANGED copy
       \/ /\ Op(p) # "inbound"
          /\ GoTo(p, "record")
          /\ copy' = [copy EXCEPT ![p] = Conversation]
    /\ UNCHANGED <<conversationVars, sessionVars, enabled, sessionLock, shared,
                   request>>

\* blocks_bot, a plain SELECT of the session.
Gate(p) ==
    /\ pc[p] = "gate"
    /\ GoTo(p, IF session \in Active THEN "suppress" ELSE "reply")
    /\ UNCHANGED <<conversationVars, sessionVars, enabled, lockVars,
                   request, copy>>

\* The handler of a conversation without a handoff may have a reply, or none.
Replies(p) == IF pc[p] = "reply" THEN {0, 1} ELSE {0}

\* The commit of the handler writes the columns that it changed: the count,
\* and the status of a conversation that it had read as closed.  A reply is
\* one more row.
CommitInbound(p) ==
    /\ pc[p] \in {"reply", "suppress"}
    /\ lifecycle' = IF copy[p].lifecycle = "closed" THEN "open" ELSE lifecycle
    /\ \E n \in Replies(p) :
          /\ total' = copy[p].total + 1 + n
          /\ rows' = rows + 1 + n
          /\ queued' = queued + n
    /\ Finish(p)
    /\ UNCHANGED <<sessionVars, enabled>>

-----------------------------------------------------------------------------
(* The lifecycle.                                                          *)

\* archive selects the active session FOR UPDATE: it refuses when it gets one.
CheckHandoff(p) ==
    /\ pc[p] = "check"
    /\ \/ /\ session \in Active /\ MayLockSession(p)
          /\ Finish(p)
       \/ /\ session \notin Active
          /\ GoTo(p, "write")
          /\ UNCHANGED <<request, copy, lockVars>>
    /\ UNCHANGED <<conversationVars, sessionVars, enabled>>

Target(op) == IF op = "close" THEN "closed"
              ELSE IF op = "reopen" THEN "open" ELSE "archived"

\* The UPDATE of transition waits for a lock on the row, not for what it says.
Transition(p) ==
    /\ pc[p] = "write" /\ MayWrite(p)
    /\ lifecycle' = Target(Op(p))
    /\ Finish(p)
    /\ UNCHANGED <<total, rows, queued, sessionVars, enabled>>

\* The routes close, reopen and archive, once the conversation is loaded.
Manage(p) == CheckHandoff(p) \/ Transition(p)

-----------------------------------------------------------------------------
(* The handoff.                                                            *)

\* _conversation: request locks it first, a human reply last.
LockConversation(p) ==
    /\ pc[p] = "conversation" /\ MayLockConversation(p)
    /\ conversationLock' = p
    /\ GoTo(p, IF Op(p) = "request" THEN "session" ELSE "commit")
    /\ UNCHANGED <<conversationVars, sessionVars, enabled, sessionLock, shared,
                   request, copy>>

AssignedOrPrivileged(p) == By(p) = assignee \/ By(p) \in Admins

\* The checks of an operation on the session row, once it is locked.
Accepts(p) ==
    /\ Op(p) = "request" => session \notin Active /\ cycle = "none"
    /\ Op(p) # "request" => session \in Active
    /\ Op(p) = "claim" => assignee \in {Nobody, By(p)} /\ By(p) \in enabled
    /\ Op(p) = "transfer" =>
         AssignedOrPrivileged(p) /\ request[p].to \in enabled
    /\ Op(p) \in {"release", "resolve", "return"} => AssignedOrPrivileged(p)
    /\ Op(p) \in {"claim", "transfer", "resolve", "return"} => cycle # "none"
    /\ Op(p) = "answer" =>
         /\ session = "human_active" /\ AssignedOrPrivileged(p)
         /\ assignee \in enabled

\* Mutant: the session is read without FOR UPDATE.
LockSessionNot(p) ==
    /\ pc[p] = "session"
    /\ \/ /\ Accepts(p)
          /\ GoTo(p, IF Op(p) = "answer" THEN "conversation" ELSE "commit")
          /\ UNCHANGED <<lockVars, request, copy>>
       \/ ~Accepts(p) /\ Finish(p)
    /\ UNCHANGED <<conversationVars, sessionVars, enabled>>

\* _active and the locked get of request.  A row that is not there cannot be
\* locked; the unique key on the session's conversation and the conversation
\* lock keep two first requests apart.
LockSession(p) ==
    /\ pc[p] = "session"
    /\ session # "none" => MayLockSession(p)
    /\ \/ /\ Accepts(p)
          /\ sessionLock' = IF session = "none" THEN sessionLock ELSE p
          /\ GoTo(p, IF Op(p) = "answer" THEN "conversation" ELSE "commit")
          /\ UNCHANGED <<conversationLock, shared, request, copy>>
       \/ ~Accepts(p) /\ Finish(p)
    /\ UNCHANGED <<conversationVars, sessionVars, enabled>>

SetSession(s, a, c) == session' = s /\ assignee' = a /\ cycle' = c

\* What the operations write.
Continue(p) ==
    \/ Op(p) = "request" /\ SetSession("waiting_human", Nobody, "requested")
    \/ Op(p) = "claim" /\ SetSession("human_active", By(p), "activated")
    \/ /\ Op(p) = "transfer"
       /\ SetSession("human_active", request[p].to, "activated")
    \/ Op(p) = "release" /\ SetSession("waiting_human", Nobody, cycle)

\* Mutants: a return to the bot leaves the cycle open; the session gets the
\* name of the event.
EndCycleLeft(p) ==
    \/ Op(p) = "resolve" /\ SetSession("resolved", Nobody, "none")
    \/ Op(p) = "return" /\ SetSession("bot_active", Nobody, cycle)

EndEventName(p) ==
    \/ Op(p) = "resolve" /\ SetSession("resolved", Nobody, "none")
    \/ Op(p) = "return" /\ SetSession("returned_to_bot", Nobody, "none")

End(p) ==
    \/ Op(p) = "resolve" /\ SetSession("resolved", Nobody, "none")
    \/ Op(p) = "return" /\ SetSession("bot_active", Nobody, "none")

CommitHandoff(p) ==
    /\ pc[p] = "commit" /\ Op(p) # "answer"
    /\ Continue(p) \/ End(p)
    /\ Finish(p)
    /\ UNCHANGED <<conversationVars, enabled>>

\* The commit of the outbound row of a human reply ends authorize_reply's
\* transaction; record_outbound runs in the next one.
CommitAnswer(p) ==
    /\ pc[p] = "commit" /\ Op(p) = "answer"
    /\ GoTo(p, "insert") /\ Unlock(p)
    /\ UNCHANGED <<conversationVars, sessionVars, enabled, request, copy>>

RecordAnswer(p) ==
    /\ pc[p] = "record"
    /\ total' = copy[p].total + 1
    /\ rows' = rows + 1
    /\ Finish(p)
    /\ UNCHANGED <<lifecycle, queued, sessionVars, enabled>>

\* An administrator deactivates a user.
Deactivate(a) ==
    /\ a \in enabled
    /\ enabled' = enabled \ {a}
    /\ UNCHANGED <<conversationVars, sessionVars, lockVars, processVars>>

-----------------------------------------------------------------------------
(* Failures.                                                               *)

\* A request dies, a statement fails, or PostgreSQL breaks a deadlock by ending
\* one of its transactions: what was not committed is rolled back.
Abort(p) ==
    /\ pc[p] # "idle"
    /\ Finish(p)
    /\ UNCHANGED <<conversationVars, sessionVars, enabled>>

Step(p) ==
    \/ Load(p) \/ Insert(p) \/ Upgrade(p) \/ Gate(p) \/ CommitInbound(p)
    \/ Manage(p) \/ LockConversation(p) \/ LockSession(p)
    \/ CommitHandoff(p) \/ CommitAnswer(p) \/ RecordAnswer(p)

Next ==
    \/ \E p \in Processes :
          Step(p) \/ Abort(p) \/ \E r \in Requests : Begin(p, r)
    \/ \E a \in Agents : Deactivate(a)

Spec == Init /\ [][Next]_vars

-----------------------------------------------------------------------------
\* The three records of a handoff agree, whoever claims, transfers, resolves
\* and requests at the same time: an active session has exactly its one open
\* cycle, and only a session with a human has an assignee.
RecordsAgree ==
    /\ session \in Active <=> cycle # "none"
    /\ session = "human_active" <=> assignee # Nobody
    /\ session = "human_active" => cycle = "activated"

\* No automatic reply is queued while a handoff is active, although blocks_bot
\* reads the session without a lock.
BotIsSilent == [][queued' > queued => session \notin Active]_vars

\* A conversation is not taken from its assignee: only the assignee or a
\* privileged user releases, transfers or ends the handoff.
NoTakeover ==
    [][assignee # Nobody /\ assignee' # assignee =>
          \E p \in Processes :
             /\ pc[p] = "commit" /\ pc'[p] = "idle"
             /\ AssignedOrPrivileged(p)]_vars

\* A human reply is accepted only from the assignee (or a privileged user) of
\* a conversation that a human has at that moment.
RepliesAuthorized ==
    [][\A p \in Processes : pc[p] = "commit" /\ pc'[p] = "insert" =>
          session = "human_active" /\ AssignedOrPrivileged(p)]_vars

\* While a human has a conversation nobody else speaks in it or takes it: not
\* the bot, not another agent, however their transactions interleave.
HumanIsInCharge == BotIsSilent /\ NoTakeover /\ RepliesAuthorized
=============================================================================
