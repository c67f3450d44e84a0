------------------------------- MODULE Outbox -------------------------------
(***************************************************************************)
(* The outbound half of the WhatsApp transport.  A row of                  *)
(* outbound_message_attempt is one message for a customer; any number of   *)
(* senders (API requests, the AI dispatcher, the recovery worker) compete  *)
(* to deliver it.  A sender claims the row in one UPDATE, commits, calls   *)
(* Meta outside every transaction, and settles the row in a transaction of *)
(* its own, after which the status is copied to the message history.       *)
(*                                                                         *)
(* A claim's delivery_token is a fresh UUID that is only ever compared     *)
(* with the token of the same row; claim number n of a row has token n     *)
(* here, and 0 is NULL.  Delays are the set backoff (next_attempt_at is in *)
(* the future) and the set aged (delivery_started_at is over five minutes  *)
(* old).  Rows of the AI lane have more writers, which are not here.       *)
(***************************************************************************)
EXTENDS Integers, FiniteSets

CONSTANTS
    Attempts,       \* rows of outbound_message_attempt
    Senders,        \* processes and requests that deliver
    NoRow,          \* a sender that works on no row
    MaxAttempts     \* BOTWA_WHATSAPP_OUTBOUND_MAX_ATTEMPTS

ASSUME OutboxAssumption ==
    /\ NoRow \notin Attempts
    /\ MaxAttempts \in Nat \ {0}

VARIABLES
    status,     \* outbound_message_attempt.status, "absent" before the insert
    token,      \* delivery_token
    tries,      \* attempt_count
    code,       \* last_error_code
    known,      \* rows whose provider_message_id is stored
    backoff,    \* rows whose next_attempt_at has not come
    aged,       \* rows claimed over five minutes ago
    history,    \* message.delivery_status of the linked row, or "absent"
    pc,         \* what each sender does next
    row,        \* the row a sender works on
    held,       \* the token a sender remembers
    answer,     \* what the provider call returned to a sender
    seen,       \* the status a sender read to copy it to the history
    toSync,     \* the rows a sender has still to copy to the history
    wire,       \* requests <<row, token>> the provider may still accept
    accepted    \* requests Meta accepted: one copy for the customer each

rowVars    == <<status, token, tries, code, known, backoff, aged>>
senderVars == <<pc, row, held, answer, seen, toSync>>
wireVars   == <<wire, accepted>>
vars       == <<rowVars, history, senderVars, wireVars>>

Statuses == {"absent", "pending", "sent", "delivered", "read", "failed"}
Codes    == {"none", "retry", "refused", "invalid_response", "unknown"}
Answers  == {"none", "ok", "refused", "throttled", "invalid_response",
             "unknown"}
Stages   == {"idle", "insert", "record", "deliver", "posting", "settle",
             "sync", "copy"}

\* The statuses that the provider reports.
Reported == {"sent", "delivered", "read", "failed"}

TypeOK ==
    /\ status \in [Attempts -> Statuses]
    /\ token \in [Attempts -> 0..MaxAttempts]
    /\ tries \in [Attempts -> 0..MaxAttempts]
    /\ code \in [Attempts -> Codes]
    /\ known \subseteq Attempts
    /\ backoff \subseteq Attempts
    /\ aged \subseteq Attempts
    /\ history \in [Attempts -> Statuses]
    /\ pc \in [Senders -> Stages]
    /\ row \in [Senders -> Attempts \cup {NoRow}]
    /\ held \in [Senders -> 0..MaxAttempts]
    /\ answer \in [Senders -> Answers]
    /\ seen \in [Senders -> Statuses]
    /\ toSync \in [Senders -> SUBSET Attempts]
    /\ wire \subseteq Attempts \X (1..MaxAttempts)
    /\ accepted \subseteq Attempts \X (1..MaxAttempts)

Init ==
    /\ status = [a \in Attempts |-> "absent"]
    /\ token = [a \in Attempts |-> 0]
    /\ tries = [a \in Attempts |-> 0]
    /\ code = [a \in Attempts |-> "none"]
    /\ known = {} /\ backoff = {} /\ aged = {}
    /\ history = [a \in Attempts |-> "absent"]
    /\ pc = [s \in Senders |-> "idle"]
    /\ row = [s \in Senders |-> NoRow]
    /\ held = [s \in Senders |-> 0]
    /\ answer = [s \in Senders |-> "none"]
    /\ seen = [s \in Senders |-> "absent"]
    /\ toSync = [s \in Senders |-> {}]
    /\ wire = {} /\ accepted = {}

-----------------------------------------------------------------------------
(* Rows come into being.                                                   *)

\* _enqueue_outbound: a reply chunk or a notification is inserted with its
\* history row, in the transaction that marks the receipt processed.  Its
\* id is new.
Enqueue(a) ==
    /\ status[a] = "absent"
    /\ \A s \in Senders : ~(pc[s] = "insert" /\ row[s] = a)
    /\ status' = [status EXCEPT ![a] = "pending"]
    /\ history' = [history EXCEPT ![a] = "pending"]
    /\ UNCHANGED <<token, tries, code, known, backoff, aged, senderVars,
                   wireVars>>

\* send_human_reply looks the key up; a request that finds the row returns.
StartHumanReply(s, a) ==
    /\ pc[s] = "idle" /\ status[a] = "absent"
    /\ pc' = [pc EXCEPT ![s] = "insert"]
    /\ row' = [row EXCEPT ![s] = a]
    /\ UNCHANGED <<rowVars, history, held, answer, seen, toSync, wireVars>>

\* The insert commits, or the unique key shows that another request won.
InsertHumanReply(s) ==
    /\ pc[s] = "insert"
    /\ \/ /\ status[row[s]] = "absent"
          /\ status' = [status EXCEPT ![row[s]] = "pending"]
          /\ pc' = [pc EXCEPT ![s] = "record"]
          /\ UNCHANGED row
       \/ /\ status[row[s]] # "absent"
          /\ pc' = [pc EXCEPT ![s] = "idle"]
          /\ row' = [row EXCEPT ![s] = NoRow]
          /\ UNCHANGED status
    /\ UNCHANGED <<token, tries, code, known, backoff, aged, history, held,
                   answer, seen, toSync, wireVars>>

\* The history row is written in a transaction after the insert's.
RecordHumanReply(s) ==
    /\ pc[s] = "record"
    /\ history' = [history EXCEPT ![row[s]] = "pending"]
    /\ pc' = [pc EXCEPT ![s] = "deliver"]
    /\ UNCHANGED <<rowVars, row, held, answer, seen, toSync, wireVars>>

-----------------------------------------------------------------------------
(* Claim, call, settle.                                                    *)

\* The WHERE clause of claim_delivery, and the early return of retry_attempt.
Claimable(a) ==
    /\ status[a] = "pending" /\ token[a] = 0
    /\ tries[a] < MaxAttempts /\ a \notin backoff

\* Mutant: the UPDATE selects by id alone.
ClaimById(s, a) ==
    /\ status[a] # "absent"
    /\ tries' = [tries EXCEPT ![a] = @ + 1]
    /\ token' = [token EXCEPT ![a] = tries[a] + 1]
    /\ held' = [held EXCEPT ![s] = tries[a] + 1]
    /\ pc' = [pc EXCEPT ![s] = "posting"]
    /\ row' = [row EXCEPT ![s] = a]
    /\ UNCHANGED <<status, code, known, backoff, aged, history, answer, seen,
                   toSync, wire, accepted>>

\* The UPDATE of claim_delivery; its commit lets the request go out.
ClaimBy(s, a) ==
    /\ Claimable(a)
    /\ tries' = [tries EXCEPT ![a] = @ + 1]
    /\ token' = [token EXCEPT ![a] = tries[a] + 1]
    /\ aged' = aged \ {a}
    /\ held' = [held EXCEPT ![s] = tries[a] + 1]
    /\ wire' = wire \cup {<<a, tries[a] + 1>>}
    /\ pc' = [pc EXCEPT ![s] = "posting"]
    /\ row' = [row EXCEPT ![s] = a]
    /\ UNCHANGED <<status, code, known, backoff, history, answer, seen,
                   toSync, accepted>>

\* retry_attempt, called for a fresh row or by the recovery worker.  Its exit
\* for a deleted channel cannot be taken: the row's foreign key keeps it.
Retry(s, a) == pc[s] = "idle" /\ ClaimBy(s, a)

\* _deliver of send_human_reply: the recovery worker may have been faster.
DeliverHumanReply(s) ==
    /\ pc[s] = "deliver"
    /\ \/ ClaimBy(s, row[s])
       \/ /\ ~Claimable(row[s])
          /\ pc' = [pc EXCEPT ![s] = "sync"]
          /\ toSync' = [toSync EXCEPT ![s] = {row[s]}]
          /\ row' = [row EXCEPT ![s] = NoRow]
          /\ UNCHANGED <<rowVars, history, held, answer, seen, wireVars>>

\* Meta takes a request, even after its sender gave up or died.
ProviderAccepts(q) ==
    /\ q \in wire
    /\ wire' = wire \ {q}
    /\ accepted' = accepted \cup {q}
    /\ UNCHANGED <<rowVars, history, senderVars>>

Request(s) == <<row[s], held[s]>>

\* How a call may end: a message id or an unreadable body after acceptance;
\* a refusal (local checks, 4xx) or a 429/5xx before it; and a timeout or a
\* broken connection whatever happened to the request.
ProviderAnswers(s) ==
    /\ pc[s] = "posting"
    /\ \/ /\ Request(s) \in accepted
          /\ \E r \in {"ok", "invalid_response"} :
                answer' = [answer EXCEPT ![s] = r]
          /\ UNCHANGED wire
       \/ /\ Request(s) \in wire
          /\ \E r \in {"refused", "throttled"} :
                answer' = [answer EXCEPT ![s] = r]
          /\ wire' = wire \ {Request(s)}
       \/ /\ answer' = [answer EXCEPT ![s] = "unknown"]
          /\ UNCHANGED wire
    /\ pc' = [pc EXCEPT ![s] = "settle"]
    /\ UNCHANGED <<rowVars, history, row, held, seen, toSync, accepted>>

\* mark_sent
MarkSent(a) ==
    /\ status' = [status EXCEPT ![a] = "sent"]
    /\ known' = known \cup {a}
    /\ code' = [code EXCEPT ![a] = "none"]
    /\ UNCHANGED backoff

\* mark_failed
MarkFailed(a, c) ==
    /\ status' = [status EXCEPT ![a] = "failed"]
    /\ code' = [code EXCEPT ![a] = c]
    /\ UNCHANGED <<known, backoff>>

\* schedule_retry
ScheduleRetry(a) ==
    /\ status' = [status EXCEPT ![a] = "pending"]
    /\ code' = [code EXCEPT ![a] = "retry"]
    /\ backoff' = backoff \cup {a}
    /\ UNCHANGED known

\* Mutant: the answer is settled without a look at the token.
OwnsAlways(s) == pc[s] \in {"posting", "settle"}

\* Whether the row is still the sender's when the answer comes.
Owns(s) == token[row[s]] = held[s]

\* Mutants: retries until the count exceeds the maximum; an unreadable answer is
\* retried like a 429.
VerdictOneMore(a, r) ==
    \/ r = "ok" /\ MarkSent(a)
    \/ r = "throttled" /\ tries[a] <= MaxAttempts /\ ScheduleRetry(a)
    \/ r \in {"refused", "invalid_response", "unknown"} /\ MarkFailed(a, r)

VerdictUnreadableRetried(a, r) ==
    \/ r = "ok" /\ MarkSent(a)
    \/ r \in {"throttled", "invalid_response"} /\ tries[a] < MaxAttempts
         /\ ScheduleRetry(a)
    \/ r \in {"throttled", "invalid_response"} /\ tries[a] >= MaxAttempts
         /\ MarkFailed(a, "refused")
    \/ r \in {"refused", "unknown"} /\ MarkFailed(a, r)

Verdict(a, r) ==
    \/ r = "ok" /\ MarkSent(a)
    \/ r = "throttled" /\ tries[a] < MaxAttempts /\ ScheduleRetry(a)
    \/ r = "throttled" /\ tries[a] >= MaxAttempts /\ MarkFailed(a, "refused")
    \/ r \in {"refused", "invalid_response", "unknown"} /\ MarkFailed(a, r)

\* The rest of _deliver: the verdict is written only by the claim's owner.
Settle(s) ==
    /\ pc[s] = "settle"
    /\ \/ /\ ~Owns(s)
          /\ UNCHANGED rowVars
       \/ /\ Owns(s)
          /\ Verdict(row[s], answer[s])
          /\ token' = [token EXCEPT ![row[s]] = 0]
          /\ UNCHANGED <<tries, aged>>
    /\ toSync' = [toSync EXCEPT ![s] = {row[s]}]
    /\ row' = [row EXCEPT ![s] = NoRow]
    /\ held' = [held EXCEPT ![s] = 0]
    /\ answer' = [answer EXCEPT ![s] = "none"]
    /\ pc' = [pc EXCEPT ![s] = "sync"]
    /\ UNCHANGED <<history, seen, wireVars>>

-----------------------------------------------------------------------------
(* Recovery, provider statuses and the history.                            *)

\* recover_batch fails every claim of over five minutes in one UPDATE.
Expired == {a \in Attempts : status[a] = "pending" /\ token[a] # 0 /\ a \in aged}

\* Mutant: an expired claim is given back to be sent again.
ExpireToPending(s) ==
    /\ pc[s] = "idle" /\ Expired # {}
    /\ token' = [a \in Attempts |-> IF a \in Expired THEN 0 ELSE token[a]]
    /\ toSync' = [toSync EXCEPT ![s] = Expired]
    /\ pc' = [pc EXCEPT ![s] = "sync"]
    /\ UNCHANGED <<status, code, tries, known, backoff, aged, history, row,
                   held, answer, seen, wireVars>>

ExpireClaims(s) ==
    /\ pc[s] = "idle" /\ Expired # {}
    /\ status' = [a \in Attempts |-> IF a \in Expired THEN "failed" ELSE status[a]]
    /\ code' = [a \in Attempts |-> IF a \in Expired THEN "unknown" ELSE code[a]]
    /\ token' = [a \in Attempts |-> IF a \in Expired THEN 0 ELSE token[a]]
    /\ toSync' = [toSync EXCEPT ![s] = Expired]
    /\ pc' = [pc EXCEPT ![s] = "sync"]
    /\ UNCHANGED <<tries, known, backoff, aged, history, row, held, answer,
                   seen, wireVars>>

\* update_provider_status through a webhook.  Module ProviderStatus has the
\* guards, which may drop any of these reports, and the stale read, which may
\* let any of them through.  The code of a row that was sent is left out.
ProviderReports(s, a, st) ==
    /\ pc[s] = "idle" /\ a \in known
    /\ status' = [status EXCEPT ![a] = st]
    /\ toSync' = [toSync EXCEPT ![s] = {a}]
    /\ pc' = [pc EXCEPT ![s] = "sync"]
    /\ UNCHANGED <<token, tries, code, known, backoff, aged, history, row,
                   held, answer, seen, wireVars>>

\* _sync_outbound_attempt reads the row without a lock ...
ReadForSync(s) ==
    /\ pc[s] = "sync"
    /\ \/ \E a \in toSync[s] :
            /\ row' = [row EXCEPT ![s] = a]
            /\ seen' = [seen EXCEPT ![s] = status[a]]
            /\ toSync' = [toSync EXCEPT ![s] = @ \ {a}]
            /\ pc' = [pc EXCEPT ![s] = "copy"]
       \/ /\ toSync[s] = {}
          /\ pc' = [pc EXCEPT ![s] = "idle"]
          /\ UNCHANGED <<row, seen, toSync>>
    /\ UNCHANGED <<rowVars, history, held, answer, wireVars>>

\* ... and then writes the history row, when there is one.
CopyToHistory(s) ==
    /\ pc[s] = "copy"
    /\ history' = [history EXCEPT ![row[s]] =
                     IF @ = "absent" THEN "absent" ELSE seen[s]]
    /\ row' = [row EXCEPT ![s] = NoRow]
    /\ seen' = [seen EXCEPT ![s] = "absent"]
    /\ pc' = [pc EXCEPT ![s] = "sync"]
    /\ UNCHANGED <<rowVars, held, answer, toSync, wireVars>>

-----------------------------------------------------------------------------
(* The environment: crashes and time.                                      *)

\* A process dies; its transaction, if one is open, is rolled back.
Crash(s) ==
    /\ pc[s] # "idle"
    /\ pc' = [pc EXCEPT ![s] = "idle"]
    /\ row' = [row EXCEPT ![s] = NoRow]
    /\ held' = [held EXCEPT ![s] = 0]
    /\ answer' = [answer EXCEPT ![s] = "none"]
    /\ seen' = [seen EXCEPT ![s] = "absent"]
    /\ toSync' = [toSync EXCEPT ![s] = {}]
    /\ UNCHANGED <<rowVars, history, wireVars>>

BackoffEnds(a) ==
    /\ a \in backoff
    /\ backoff' = backoff \ {a}
    /\ UNCHANGED <<status, token, tries, code, known, aged, history,
                   senderVars, wireVars>>

ClaimAges(a) ==
    /\ token[a] # 0 /\ a \notin aged
    /\ aged' = aged \cup {a}
    /\ UNCHANGED <<status, token, tries, code, known, backoff, history,
                   senderVars, wireVars>>

-----------------------------------------------------------------------------
SenderStep(s) ==
    \/ InsertHumanReply(s) \/ RecordHumanReply(s) \/ DeliverHumanReply(s)
    \/ ProviderAnswers(s) \/ Settle(s) \/ ReadForSync(s) \/ CopyToHistory(s)

Next ==
    \/ \E a \in Attempts : Enqueue(a) \/ BackoffEnds(a) \/ ClaimAges(a)
    \/ \E s \in Senders, a \in Attempts :
          \/ StartHumanReply(s, a) \/ Retry(s, a)
          \/ \E st \in Reported : ProviderReports(s, a, st)
    \/ \E s \in Senders : SenderStep(s) \/ ExpireClaims(s) \/ Crash(s)
    \/ \E q \in wire : ProviderAccepts(q)

Spec == Init /\ [][Next]_vars

\* Time passes, a request that is being served goes on (the provider call has
\* a timeout), and the recovery worker's loop comes back to every row that its
\* selections pick and to every expired claim.
Fairness ==
    /\ \A a \in Attempts :
          /\ WF_vars(BackoffEnds(a)) /\ WF_vars(ClaimAges(a))
          /\ WF_vars(\E s \in Senders : Retry(s, a))
    /\ \A s \in Senders : WF_vars(SenderStep(s))
    /\ WF_vars(\E s \in Senders : ExpireClaims(s))

FairSpec == Spec /\ Fairness

-----------------------------------------------------------------------------
(* What the transport promises.                                            *)

Requests == wire \cup accepted

\* The customer gets at most one copy of a message, however the claims, the
\* crashes, the expiry of claims and the retries of the recovery worker
\* interleave: no request goes out while an earlier one may still arrive.
OneCopy == \A q, r \in accepted : q[1] = r[1] => q = r

\* Two senders never own one row at a time: an answer settles the row at most
\* once, whoever else tried to deliver it.
OneOwner ==
    \A s, t \in Senders :
        /\ pc[s] \in {"posting", "settle"} /\ Owns(s)
        /\ pc[t] \in {"posting", "settle"} /\ Owns(t)
        /\ row[s] = row[t]
        => s = t

\* The error code of a row that failed before it was ever marked sent tells
\* the operator the truth: "refused" (a refusal, or throttling until the
\* attempts ran out) means that no copy arrived or can still arrive, and a row
\* is shown as sent, delivered or read only after Meta accepted it.
VerdictIsTrue ==
    \A a \in Attempts :
        /\ (status[a] = "failed" /\ code[a] = "refused" /\ a \notin known)
             => ~\E q \in Requests : q[1] = a
        /\ status[a] \in {"sent", "delivered", "read"}
             => \E q \in accepted : q[1] = a

\* A waiting row is always one that the recovery worker selects sooner or
\* later: schedule_retry and the worker's filter agree on the last attempt.
NoStrandedRow ==
    \A a \in Attempts :
        status[a] = "pending" /\ token[a] = 0 => tries[a] < MaxAttempts

\* Whatever crashes and whoever is late, the customer gets one copy, one sender
\* at a time has a row, its verdict is true and it is never left behind.
SendsAreSafe == OneCopy /\ OneOwner /\ VerdictIsTrue /\ NoStrandedRow

\* A message that failed unsent stays failed: a late answer of a sender whose
\* claim expired changes nothing, and no further request goes out for it.
FailedUnsentIsFinal ==
    [][\A a \in Attempts : status[a] = "failed" /\ a \notin known =>
          /\ status'[a] = "failed" /\ code'[a] = code[a]
          /\ {q \in wire' : q[1] = a} \subseteq wire]_vars

\* Every row that waits is settled in the end, whatever crashes.
EverySendSettles ==
    \A a \in Attempts : status[a] = "pending" ~> status[a] # "pending"

\* A message of AtMostOnceSend is a row here, and a copy is a request that
\* arrived.
Told(a) ==
    IF status[a] = "absent" THEN "none"
    ELSE IF status[a] = "pending" THEN "open"
    ELSE IF status[a] # "failed" THEN "sent"
    ELSE IF a \in known THEN "undelivered"
    ELSE IF code[a] = "refused" THEN "refused" ELSE "lost"

Promise == INSTANCE AtMostOnceSend WITH
    Messages <- Attempts,
    Copies   <- Attempts \X (1..MaxAttempts),
    verdict  <- [a \in Attempts |-> Told(a)],
    copies   <- [a \in Attempts |-> {q \in accepted : q[1] = a}]

\* The transport keeps the promise of AtMostOnceSend: every step is a step of
\* it or changes nothing that it shows.
ImplementsPromise == Promise!Spec
=============================================================================
