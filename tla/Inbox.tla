-------------------------------- MODULE Inbox --------------------------------
(***************************************************************************)
(* The inbound half of the WhatsApp transport: every message of a customer *)
(* becomes a receipt, and a worker (a webhook request or the recovery      *)
(* loop) runs the conversation handler on it.  The worker holds the        *)
(* receipt's row lock until the handler's effects, the outbox and the      *)
(* receipt are committed together, so "processing" is never committed.     *)
(* The handler locks the contact of the customer before it reads and       *)
(* numbers the conversation.  What it writes is visible at its commit; row *)
(* locks are held by the stages of pc.  A channel that is not active or    *)
(* has its webhook disabled takes no message in and recovers none.         *)
(***************************************************************************)
EXTENDS Integers, FiniteSets

CONSTANTS
    Messages, Customers,
    CustomerOf,     \* the sender of each message
    Workers,        \* webhook requests and recovery loops
    Recoverers,     \* the recovery loops among them
    Unreadable,     \* <<w, m>> when w cannot decrypt the payload of m: the row
                    \* is damaged, or the process of w has another key
    NoMessage,
    MaxAttempts,    \* BOTWA_WHATSAPP_OUTBOUND_MAX_ATTEMPTS
    AIEnabled,      \* whether the bot answers with the AI lane
    MaxCrashes      \* bound on the crashes of workers

ASSUME InboxAssumption ==
    /\ CustomerOf \in [Messages -> Customers]
    /\ Recoverers \subseteq Workers /\ Unreadable \subseteq Workers \X Messages
    /\ NoMessage \notin Messages
    /\ MaxAttempts \in Nat \ {0} /\ AIEnabled \in BOOLEAN /\ MaxCrashes \in Nat

VARIABLES
    status,     \* inbound_message_receipt.status, "absent" before the insert
    tries,      \* attempt_count
    payload,    \* receipts whose payload_ciphertext is stored
    backoff,    \* receipts whose next_attempt_at has not come
    contacts,   \* customers whose contact row exists
    count,      \* conversation.inbound_message_count
    sequence,   \* the number of a message in its conversation
    runs,       \* how often the handler's effects were committed
    pc,         \* what each worker does next
    msg,        \* the message it works on
    found,      \* whether its first look found the contact
    read,       \* the inbound_message_count it has loaded
    crashes,
    channelOpen \* whether the channel is active with its webhook enabled and
                \* resolves

receiptVars == <<status, tries, payload, backoff>>
resultVars  == <<contacts, count, sequence, runs>>
workerVars  == <<pc, msg, found, read>>
vars        == <<receiptVars, resultVars, workerVars, crashes, channelOpen>>

Statuses == {"absent", "received", "processed", "failed"}
Stages   == {"idle", "route", "acquire", "reject", "contact", "lock", "read",
             "finish", "raise"}
Working  == {"contact", "lock", "read", "finish", "raise"}

TypeOK ==
    /\ status \in [Messages -> Statuses]
    /\ tries \in [Messages -> 0..MaxAttempts]
    /\ payload \subseteq Messages /\ backoff \subseteq Messages
    /\ contacts \subseteq Customers
    /\ count \in [Customers -> Nat] /\ sequence \in [Messages -> Nat]
    /\ runs \in [Messages -> Nat]
    /\ pc \in [Workers -> Stages]
    /\ msg \in [Workers -> Messages \cup {NoMessage}]
    /\ found \in [Workers -> BOOLEAN] /\ read \in [Workers -> Nat]
    /\ crashes \in Nat /\ channelOpen \in BOOLEAN

Init ==
    /\ status = [m \in Messages |-> "absent"]
    /\ tries = [m \in Messages |-> 0]
    /\ payload = {} /\ backoff = {} /\ contacts = {}
    /\ count = [c \in Customers |-> 0]
    /\ sequence = [m \in Messages |-> 0]
    /\ runs = [m \in Messages |-> 0]
    /\ pc = [w \in Workers |-> "idle"]
    /\ msg = [w \in Workers |-> NoMessage]
    /\ found = [w \in Workers |-> FALSE]
    /\ read = [w \in Workers |-> 0]
    /\ crashes = 0 /\ channelOpen = TRUE

-----------------------------------------------------------------------------
\* The channel is activated, deactivated or deleted, or its webhook is switched.
ChannelChanges ==
    /\ channelOpen' = ~channelOpen
    /\ UNCHANGED <<receiptVars, resultVars, workerVars, crashes>>

\* A webhook brings the message, again and again if it likes: process resolves
\* the channel, create_or_get inserts the receipt or finds it, and commits.
Deliver(w, m) ==
    /\ pc[w] = "idle" /\ w \notin Recoverers /\ channelOpen
    /\ \/ /\ status[m] = "absent"
          /\ status' = [status EXCEPT ![m] = "received"]
          /\ payload' = payload \cup {m}
       \/ /\ status[m] # "absent"
          /\ UNCHANGED <<status, payload>>
    /\ pc' = [pc EXCEPT ![w] = "acquire"]
    /\ msg' = [msg EXCEPT ![w] = m]
    /\ UNCHANGED <<tries, backoff, resultVars, found, read, crashes, channelOpen>>

\* The route: what is too large, unsigned or unreadable never comes this far.
Webhook(w) == \E m \in Messages : Deliver(w, m)

\* Mutant: only what was never tried is selected.
RecoverableReceived(m) ==
    /\ channelOpen
    /\ status[m] = "received" /\ m \in payload
    /\ tries[m] < MaxAttempts /\ m \notin backoff

\* recover_batch selects a receipt of an open channel and decrypts its payload.
Recoverable(m) ==
    /\ channelOpen
    /\ status[m] \in {"received", "failed"} /\ m \in payload
    /\ tries[m] < MaxAttempts /\ m \notin backoff

Recover(w, m) ==
    /\ pc[w] = "idle" /\ w \in Recoverers /\ Recoverable(m)
    /\ pc' = [pc EXCEPT ![w] =
                IF <<w, m>> \in Unreadable THEN "reject" ELSE "route"]
    /\ msg' = [msg EXCEPT ![w] = m]
    /\ UNCHANGED <<receiptVars, resultVars, found, read, crashes, channelOpen>>

Locked(m) == \E w \in Workers : msg[w] = m /\ pc[w] \in Working

Rest(w) ==
    /\ pc' = [pc EXCEPT ![w] = "idle"]
    /\ msg' = [msg EXCEPT ![w] = NoMessage]
    /\ found' = [found EXCEPT ![w] = FALSE]
    /\ read' = [read EXCEPT ![w] = 0]

\* process resolves the channel again; when it has closed since the selection,
\* recovery rolls back and leaves the receipt as it is.
Route(w) ==
    /\ pc[w] = "route"
    /\ \/ /\ channelOpen
          /\ pc' = [pc EXCEPT ![w] = "acquire"]
          /\ UNCHANGED <<msg, found, read>>
       \/ /\ ~channelOpen
          /\ Rest(w)
    /\ UNCHANGED <<receiptVars, resultVars, crashes, channelOpen>>

\* Mutant: the UPDATE does not look at the status.
RejectAnyStatus(w) ==
    LET m == msg[w]
    IN  /\ pc[w] = "reject" /\ ~Locked(m)
        /\ status' = [status EXCEPT ![m] = "failed"]
        /\ tries' = [tries EXCEPT ![m] = MaxAttempts]
        /\ Rest(w)
        /\ UNCHANGED <<payload, backoff, resultVars, crashes, channelOpen>>

\* An unreadable payload uses up the attempts, unless the receipt was
\* processed meanwhile; the UPDATE waits for the row lock.
RejectPayload(w) ==
    LET m == msg[w]
    IN  /\ pc[w] = "reject" /\ ~Locked(m)
        /\ \/ /\ status[m] \in {"received", "failed"}
              /\ status' = [status EXCEPT ![m] = "failed"]
              /\ tries' = [tries EXCEPT ![m] = MaxAttempts]
           \/ /\ status[m] \notin {"received", "failed"}
              /\ UNCHANGED <<status, tries>>
        /\ Rest(w)
        /\ UNCHANGED <<payload, backoff, resultVars, crashes, channelOpen>>

AcquirableUncounted(m) ==
    /\ ~Locked(m)
    /\ status[m] = "received" \/ (status[m] = "failed" /\ m \in payload)
    /\ m \notin backoff

\* acquire_for_processing, FOR UPDATE SKIP LOCKED.
Acquirable(m) ==
    /\ ~Locked(m)
    /\ status[m] \in {"received", "failed"} /\ tries[m] < MaxAttempts
    /\ status[m] = "failed" => m \in payload
    /\ m \notin backoff

\* A receipt that cannot be acquired is a duplicate: the webhook is answered
\* (with 503 for a failed receipt of an AI bot, so that Meta brings it again).
Acquire(w) ==
    LET m == msg[w]
    IN  /\ pc[w] = "acquire"
        /\ \/ /\ Acquirable(m)
              /\ pc' = [pc EXCEPT ![w] =
                          IF <<w, m>> \in Unreadable THEN "raise" ELSE "contact"]
              /\ UNCHANGED <<msg, found, read>>
           \/ /\ ~Acquirable(m)
              /\ Rest(w)
        /\ UNCHANGED <<receiptVars, resultVars, crashes, channelOpen>>

-----------------------------------------------------------------------------
(* The handler: contact, conversation, effects.                            *)

\* ContactResolutionService.resolve looks for the contact ...
LookForContact(w) ==
    /\ pc[w] = "contact"
    /\ found' = [found EXCEPT ![w] = CustomerOf[msg[w]] \in contacts]
    /\ pc' = [pc EXCEPT ![w] = "lock"]
    /\ UNCHANGED <<receiptVars, resultVars, msg, read, crashes, channelOpen>>

ContactLocked(c) ==
    \E w \in Workers : pc[w] \in {"read", "finish"} /\ CustomerOf[msg[w]] = c

\* Mutant: the contact is read, not locked.
LockNothing(w) ==
    /\ pc[w] = "lock"
    /\ pc' = [pc EXCEPT ![w] = "read"]
    /\ UNCHANGED <<receiptVars, resultVars, msg, found, read, crashes,
                   channelOpen>>

\* ... and locks it, or inserts it, which fails when another worker's insert
\* was committed after the look.  Both wait for the other worker's commit.
LockContact(w) ==
    LET c == CustomerOf[msg[w]]
    IN  /\ pc[w] = "lock" /\ ~ContactLocked(c)
        /\ pc' = [pc EXCEPT ![w] =
                    IF ~found[w] /\ c \in contacts THEN "raise" ELSE "read"]
        /\ UNCHANGED <<receiptVars, resultVars, msg, found, read,
                       crashes, channelOpen>>

\* _get_identity loads the conversation; its later lock does not reload it.
ReadConversation(w) ==
    /\ pc[w] = "read"
    /\ read' = [read EXCEPT ![w] = count[CustomerOf[msg[w]]]]
    /\ pc' = [pc EXCEPT ![w] = "finish"]
    /\ UNCHANGED <<receiptVars, resultVars, msg, found, crashes, channelOpen>>

\* Anything in the handler may raise; its savepoint is rolled back.
Raise(w) ==
    /\ pc[w] \in {"contact", "read", "finish"}
    /\ pc' = [pc EXCEPT ![w] = "raise"]
    /\ UNCHANGED <<receiptVars, resultVars, msg, found, read, crashes,
                   channelOpen>>

\* create_once numbers the message, the reply is queued (or the AI job, under
\* this number), and all is committed with the receipt.
Finish(w) ==
    LET m == msg[w]  c == CustomerOf[m]
    IN  /\ pc[w] = "finish"
        /\ status' = [status EXCEPT ![m] = "processed"]
        /\ tries' = [tries EXCEPT ![m] = @ + 1]
        /\ payload' = payload \ {m}
        /\ contacts' = contacts \cup {c}
        /\ count' = [count EXCEPT ![c] = read[w] + 1]
        /\ sequence' = [sequence EXCEPT ![m] = read[w] + 1]
        /\ runs' = [runs EXCEPT ![m] = @ + 1]
        /\ Rest(w)
        /\ UNCHANGED <<backoff, crashes, channelOpen>>

\* mark_failed and the next attempt: at once for an AI bot, else after a delay.
RecordFailure(w) ==
    LET m == msg[w]
    IN  /\ pc[w] = "raise"
        /\ status' = [status EXCEPT ![m] = "failed"]
        /\ tries' = [tries EXCEPT ![m] = @ + 1]
        /\ backoff' = IF AIEnabled THEN backoff ELSE backoff \cup {m}
        /\ Rest(w)
        /\ UNCHANGED <<payload, resultVars, crashes, channelOpen>>

-----------------------------------------------------------------------------
\* A worker dies; its transaction is rolled back, the counted attempt with it.
Crash(w) ==
    /\ pc[w] # "idle" /\ crashes < MaxCrashes
    /\ crashes' = crashes + 1
    /\ Rest(w)
    /\ UNCHANGED <<receiptVars, resultVars, channelOpen>>

BackoffEnds(m) ==
    /\ m \in backoff
    /\ backoff' = backoff \ {m}
    /\ UNCHANGED <<status, tries, payload, resultVars, workerVars, crashes,
                   channelOpen>>

Step(w) ==
    \/ Route(w) \/ RejectPayload(w) \/ Acquire(w) \/ LookForContact(w)
    \/ LockContact(w) \/ ReadConversation(w) \/ Finish(w) \/ RecordFailure(w)

Next ==
    \/ \E w \in Workers : Step(w) \/ Raise(w) \/ Crash(w)
    \/ \E w \in Workers :
          Webhook(w) \/ \E m \in Messages : Recover(w, m)
    \/ \E m \in Messages : BackoffEnds(m)
    \/ ChannelChanges

Spec == Init /\ [][Next]_vars

\* A worker that runs goes on, delays pass, and the recovery loop comes back
\* to every receipt that it selects.  Nothing is assumed of webhooks, or of the
\* administration that opens and closes the channel.
Fairness ==
    /\ \A w \in Workers : WF_vars(Step(w))
    /\ \A m \in Messages :
          WF_vars(BackoffEnds(m)) /\ WF_vars(\E w \in Workers : Recover(w, m))

FairSpec == Spec /\ Fairness

-----------------------------------------------------------------------------
\* The handler's effects are committed at most once for a message, and exactly
\* when its receipt says processed, whatever webhooks repeat and workers crash.
RunOnce ==
    \A m \in Messages : runs[m] = IF status[m] = "processed" THEN 1 ELSE 0

Processed(c) == {m \in Messages : status[m] = "processed" /\ CustomerOf[m] = c}

\* The messages of a conversation are numbered 1, 2, 3 ... in the order of
\* their commits: the AI lane orders its jobs by these numbers.
NumberedInTurn ==
    \A c \in Customers :
        /\ \A m \in Processed(c) : sequence[m] \in 1..count[c]
        /\ \A n \in 1..count[c] : \E m \in Processed(c) : sequence[m] = n
        /\ \A m, k \in Processed(c) : sequence[m] = sequence[k] => m = k

\* A receipt with an attempt left can be attempted: it has the payload that
\* acquire_for_processing and the recovery loop ask for.
AttemptNeedsPayload ==
    \A m \in Messages :
        status[m] \in {"received", "failed"} /\ tries[m] < MaxAttempts
          => m \in payload

\* A redelivered message, a crash or a second process never makes a handler run
\* twice, a number skip or repeat, or a receipt lose the payload it needs.
HandledInTurn == RunOnce /\ NumberedInTurn /\ AttemptNeedsPayload

\* What was processed stays processed and keeps its number.
ProcessedIsFinal ==
    [][\A m \in Messages : status[m] = "processed" =>
          status'[m] = "processed" /\ sequence'[m] = sequence[m]]_vars

\* Once the channel stays open, every receipt is processed, or fails with its
\* attempts used up, although workers crash and handlers raise, and however often
\* the channel closed before.  The receipts of a channel that stays closed wait.
Settled(m) ==
    status[m] = "processed" \/ (status[m] = "failed" /\ tries[m] = MaxAttempts)

EveryReceiptSettles ==
    <>[]channelOpen =>
        \A m \in Messages : status[m] = "received" ~> Settled(m)

\* A message of ConversationLog is a receipt here; a conversation is the
\* processed messages of the customer by their numbers.
Fate(m) ==
    IF status[m] = "absent" THEN "new"
    ELSE IF status[m] = "processed" THEN "handled"
    ELSE IF Settled(m) THEN "lost" ELSE "waiting"

Entries(c) ==
    [n \in 1..count[c] |-> CHOOSE m \in Processed(c) : sequence[m] = n]

Log == INSTANCE ConversationLog WITH
    fate <- [m \in Messages |-> Fate(m)],
    log  <- [c \in Customers |-> Entries(c)]

\* The transport implements ConversationLog: every step appends a message, gives
\* one up, takes one in, or changes nothing that a conversation shows.
ImplementsLog == Log!Spec
=============================================================================
