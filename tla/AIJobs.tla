-------------------------------- MODULE AIJobs --------------------------------
(***************************************************************************)
(* The generation half of the AI lane: one job per message of a            *)
(* conversation, claimed by workers under a token and a lease, run through *)
(* two base stages and, with the conversational layer, two response stages *)
(* whose calls are reserved ahead and checkpointed.  A job is the number   *)
(* of its message.  A ready job belongs to the dispatcher, which asks for  *)
(* a human, or queues one row in the outbox and waits for what becomes of  *)
(* it; module Outbox has the row.                                          *)
(*                                                                         *)
(* Every action of a worker is one transaction: it locks the job's row, so *)
(* a change of the bot's settings comes before or after it.                *)
(***************************************************************************)
EXTENDS Integers, FiniteSets

CONSTANTS
    Messages,       \* the number of messages of the conversation (a bound)
    Workers,
    MaxAttempts,    \* BOTWA_AI_MAX_ATTEMPTS
    CallLimit,      \* calls a day, of the process or of the bot
    MaxEvents       \* bound on crashes, leases that end under a live worker,
                    \* midnights, calls elsewhere, changes of settings and handoff

ASSUME AIJobsAssumption ==
    /\ Messages \in Nat \ {0} /\ MaxAttempts \in Nat \ {0}
    /\ CallLimit \in Nat /\ MaxEvents \in Nat

Jobs == 1..Messages
NoJob == 0

VARIABLES
    inbound,        \* conversation.inbound_message_count
    open,           \* no handoff is active; organization, bot and channel are
    config,         \* the generative_ai settings (their hash)
    natural,        \* the conversational_response flag
    status, attempts, token, hash,      \* ai_job
    backoff,        \* jobs whose available_at has not come
    expired,        \* running jobs whose lease_until has passed
    queued,         \* ready jobs with an outbound_id
    checkpoint,     \* ai_response_checkpoint
    reserved, slots,    \* ai_attempt: reserved rows; stages that have a row
    charged,        \* calls charged to the day, without the reserved ones
    calls, applied, \* history: response calls, memory revisions of each job
    pc, on, held, stage,    \* worker: step, job, token and stage
    events          \* what MaxEvents bounds

policyVars  == <<inbound, open, config, natural>>
jobVars     == <<status, attempts, token, hash, backoff, expired, queued>>
budgetVars  == <<reserved, slots, charged, calls>>
workerVars  == <<pc, on, held, stage>>
vars == <<policyVars, jobVars, checkpoint, budgetVars, applied, workerVars,
          events>>

\* "sent" stands for the ends that only the dispatcher gives: sent, failed,
\* delivery_unknown and handoff.
Statuses == {"absent", "pending", "running", "retry", "ready", "sent",
             "cancelled"}
Active   == {"pending", "retry", "running", "ready"}
Terminal == {"sent", "cancelled"}

Base     == {"discovery", "adviser"}
Response == {"render", "review"}
Stages   == {"discovery", "adviser", "render", "review"}
Steps    == {"idle", "snapshot", "mark", "call", "wait", "reserve", "outcome",
             "commit"}
NoCheckpoint ==
    [there |-> FALSE, cleaned |-> FALSE, started |-> {}, done |-> {},
     revoked |-> FALSE]

TypeOK ==
    /\ inbound \in 0..Messages /\ open \in BOOLEAN
    /\ config \in Nat /\ natural \in BOOLEAN
    /\ status \in [Jobs -> Statuses]
    /\ attempts \in [Jobs -> 0..MaxAttempts]
    /\ token \in [Jobs -> 0..MaxAttempts]
    /\ hash \in [Jobs -> Nat]
    /\ backoff \subseteq Jobs /\ expired \subseteq Jobs /\ queued \subseteq Jobs
    /\ checkpoint \in [Jobs -> [there : BOOLEAN, cleaned : BOOLEAN,
          started : SUBSET Response, done : SUBSET Stages, revoked : BOOLEAN]]
    /\ reserved \in [Jobs -> SUBSET Stages] /\ slots \in [Jobs -> SUBSET Stages]
    /\ charged \in Nat /\ calls \in [Jobs -> [Response -> Nat]]
    /\ applied \in [Jobs -> Nat]
    /\ pc \in [Workers -> Steps] /\ on \in [Workers -> Jobs \cup {NoJob}]
    /\ held \in [Workers -> 0..MaxAttempts]
    /\ stage \in [Workers -> Stages]
    /\ events \in Nat

Init ==
    /\ inbound = 0 /\ open = TRUE
    /\ config = 1 /\ natural \in BOOLEAN
    /\ status = [j \in Jobs |-> "absent"]
    /\ attempts = [j \in Jobs |-> 0] /\ token = [j \in Jobs |-> 0]
    /\ hash = [j \in Jobs |-> 0]
    /\ backoff = {} /\ expired = {} /\ queued = {}
    /\ checkpoint = [j \in Jobs |-> NoCheckpoint]
    /\ reserved = [j \in Jobs |-> {}] /\ slots = [j \in Jobs |-> {}]
    /\ charged = 0 /\ calls = [j \in Jobs |-> [s \in Response |-> 0]]
    /\ applied = [j \in Jobs |-> 0]
    /\ pc = [w \in Workers |-> "idle"] /\ on = [w \in Workers |-> NoJob]
    /\ held = [w \in Workers |-> 0]
    /\ stage = [w \in Workers |-> "discovery"]
    /\ events = 0

-----------------------------------------------------------------------------
(* The conversation and the bot.                                           *)

\* A message is counted; it becomes a job unless a human has the conversation
\* or the bot has no AI.
Inbound ==
    /\ inbound < Messages
    /\ inbound' = inbound + 1
    /\ IF ~open \/ config = 0
       THEN UNCHANGED <<status, hash>>
       ELSE /\ status' = [status EXCEPT ![inbound + 1] = "pending"]
            /\ hash' = [hash EXCEPT ![inbound + 1] = config]
    /\ UNCHANGED <<open, config, natural, attempts, token, backoff, expired,
                   queued, checkpoint, budgetVars, applied, workerVars,
                   events>>

\* A handoff begins or ends; bot, organization or channel are switched.
Outside ==
    /\ events < MaxEvents /\ events' = events + 1
    /\ open' = ~open
    /\ UNCHANGED <<inbound, config, natural, jobVars, checkpoint, budgetVars,
                   applied, workerVars>>

\* An update of the bot's settings cancels every job under way (without a look
\* at their reserved calls) ...
UpdateSettings ==
    /\ events < MaxEvents /\ events' = events + 1
    /\ \E c \in {0, config + 1} \ {config} : config' = c
    /\ status' = [j \in Jobs |->
                    IF status[j] \in Active THEN "cancelled" ELSE status[j]]
    /\ token' = [j \in Jobs |-> IF status[j] \in Active THEN 0 ELSE token[j]]
    /\ expired' = {} /\ queued' = {}
    /\ UNCHANGED <<inbound, open, natural, attempts, hash, backoff, checkpoint,
                   budgetVars, applied, workerVars>>

\* ... or, when only the conversational layer is switched, revokes its replies.
UpdateResponse ==
    /\ events < MaxEvents /\ events' = events + 1
    /\ natural' = ~natural
    /\ checkpoint' = [j \in Jobs |->
          IF status[j] \in Active /\ checkpoint[j].there
          THEN [checkpoint[j] EXCEPT !.revoked = TRUE] ELSE checkpoint[j]]
    /\ UNCHANGED <<inbound, open, config, jobVars, budgetVars,
                   applied, workerVars>>

-----------------------------------------------------------------------------
(* The claim.  Its one transaction is taken row by row here: the rows are  *)
(* locked until it commits.                                                *)

Eligible(j) ==
    /\ open /\ config # 0 /\ config = hash[j] /\ inbound = j

\* Mutant: a lease never runs out.
ClaimableWaiting(j) == status[j] \in {"pending", "retry"} /\ j \notin backoff

Claimable(j) ==
    \/ status[j] \in {"pending", "retry"} /\ j \notin backoff
    \/ status[j] = "running" /\ j \in expired

Older(j) == {k \in Jobs : k < j /\ status[k] \in Active}

\* Mutant: one attempt more.
MayTryOnceMore(j) == attempts[j] <= MaxAttempts

MayTry(j) == attempts[j] < MaxAttempts

Release(j) == reserved' = [reserved EXCEPT ![j] = {}]

Erased(c) == [c EXCEPT !.cleaned = TRUE, !.started = {}, !.done = {}]

Untidy(j) ==
    /\ status[j] \in Terminal
    /\ checkpoint[j].there /\ ~checkpoint[j].cleaned

\* The claim first erases the checkpoints of finished jobs; their rows stay.
CleanUp(j) ==
    /\ Untidy(j)
    /\ checkpoint' = [checkpoint EXCEPT ![j] = Erased(@)]
    /\ Release(j)
    /\ UNCHANGED <<policyVars, jobVars, slots, charged, calls, applied,
                   workerVars, events>>

\* Then it takes the oldest job that it may look at.
Candidate(j) ==
    /\ \A k \in Jobs : ~Untidy(k)
    /\ Claimable(j) /\ Older(j) = {}

\* The job's input is old, or its policy has changed.  The token of a worker
\* that lost its lease stays on the cancelled job.
CancelStale(j) ==
    /\ Candidate(j) /\ ~Eligible(j)
    /\ status' = [status EXCEPT ![j] = "cancelled"]
    /\ expired' = expired \ {j}
    /\ Release(j)
    /\ UNCHANGED <<policyVars, attempts, token, hash, backoff, queued,
                   checkpoint, slots, charged, calls, applied, workerVars,
                   events>>

\* Attempts are used up, or the job is too old (which it may be at any time):
\* the fallback text is the reply.
Exhaust(j) ==
    /\ Candidate(j) /\ Eligible(j)
    /\ status' = [status EXCEPT ![j] = "ready"]
    /\ token' = [token EXCEPT ![j] = 0]
    /\ expired' = expired \ {j}
    /\ Release(j)
    /\ UNCHANGED <<policyVars, attempts, hash, backoff, queued, checkpoint,
                   slots, charged, calls, applied, workerVars, events>>

\* A fresh token; tokens are numbered by the attempts.
Claim(w, j) ==
    /\ pc[w] = "idle"
    /\ Candidate(j) /\ Eligible(j) /\ MayTry(j)
    /\ status' = [status EXCEPT ![j] = "running"]
    /\ attempts' = [attempts EXCEPT ![j] = @ + 1]
    /\ token' = [token EXCEPT ![j] = attempts[j] + 1]
    /\ expired' = expired \ {j}
    /\ pc' = [pc EXCEPT ![w] = "snapshot"]
    /\ on' = [on EXCEPT ![w] = j]
    /\ held' = [held EXCEPT ![w] = attempts[j] + 1]
    /\ UNCHANGED <<policyVars, hash, backoff, queued, checkpoint, budgetVars,
                   applied, stage, events>>

-----------------------------------------------------------------------------
(* The stages.                                                             *)

Owned(w) ==
    /\ status[on[w]] = "running" /\ token[on[w]] = held[w]
    /\ on[w] \notin expired

Go(w, step, s) ==
    /\ pc' = [pc EXCEPT ![w] = step]
    /\ stage' = [stage EXCEPT ![w] = s]
    /\ UNCHANGED <<on, held>>

Leave(w) ==
    /\ pc' = [pc EXCEPT ![w] = "idle"]
    /\ on' = [on EXCEPT ![w] = NoJob]
    /\ held' = [held EXCEPT ![w] = 0]
    /\ stage' = [stage EXCEPT ![w] = "discovery"]

\* What fail makes of the job, by the kind of error.
Verdict(j, error) ==
    IF error = "fatal" THEN "cancelled"
    ELSE IF error = "retryable" /\ MayTry(j) THEN "retry"
    ELSE "ready"

\* fail: a worker that no longer has the token changes nothing.  The status is
\* not looked at: a job that CancelStale ended may be opened again.
Fail(w, error) ==
    LET j == on[w] IN
    /\ IF token[j] = held[w]
       THEN /\ status' = [status EXCEPT ![j] = Verdict(j, error)]
            /\ token' = [token EXCEPT ![j] = 0]
            /\ expired' = expired \ {j}
            /\ backoff' = IF Verdict(j, error) = "retry" THEN backoff \cup {j}
                          ELSE backoff
            /\ Release(j)
       ELSE UNCHANGED <<status, token, expired, backoff, reserved>>
    /\ Leave(w)
    /\ UNCHANGED <<policyVars, attempts, hash, queued, checkpoint, slots,
                   charged, calls, applied, events>>

May(w) == Owned(w) /\ Eligible(on[w])

\* A transaction finds its lease lost or the policy changed, or knowledge that
\* the reply uses (which may change at any time).
Interrupted(w) ==
    /\ \/ pc[w] \in Steps \ {"idle", "wait", "outcome"} /\ ~May(w)
       \/ pc[w] = "outcome" /\ ~Owned(w)
       \/ pc[w] \in {"mark", "reserve", "commit"}
    /\ Fail(w, "fatal")

\* No stage is left to do.
Finish(w, step) == Go(w, step, "discovery")

\* Any exception that is not of the provider.
Breaks(w) == pc[w] # "idle" /\ Fail(w, "retryable")

\* The first snapshot creates the checkpoint of the conversational layer; an
\* erased one ends the job with the fallback text.
Snapshot(w) ==
    /\ pc[w] = "snapshot" /\ May(w)
    /\ \/ /\ ~checkpoint[on[w]].cleaned
          /\ checkpoint' = [checkpoint EXCEPT ![on[w]].there = @ \/ natural]
          /\ Go(w, "mark", "discovery")
          /\ UNCHANGED <<policyVars, jobVars, budgetVars, applied, events>>
       \/ checkpoint[on[w]].cleaned /\ Fail(w, "final")

\* The step after a stage: the customer may want a human, which skips the rest.
After(w, s) ==
    \/ s = "discovery" /\ Go(w, "mark", "adviser")
    \/ s \in Base /\ Finish(w, "commit")
    \/ s = "adviser" /\ checkpoint[on[w]].there /\ Go(w, "reserve", s)
    \/ s = "render" /\ Go(w, "mark", "review")
    \/ s = "review" /\ Finish(w, "outcome")

Reservations == {r \in Jobs \X Stages : r[2] \in reserved[r[1]]}

\* Counted and written under the admission lock.
Fits(n) == charged + Cardinality(Reservations) + n <= CallLimit

\* Whether the conversational layer may go on: else the base reply is used.
MayRespond(j) == natural /\ ~checkpoint[j].revoked

\* Both calls of the conversational layer are reserved, or none.  A stage that
\* ever had a row gets no other.  A revocation is looked at a moment earlier.
Reserve(w) ==
    LET j == on[w]
        missing == Response \ slots[j]
    IN
    /\ pc[w] = "reserve" /\ May(w)
    /\ \/ /\ natural /\ Fits(Cardinality(missing))
          /\ reserved' = [reserved EXCEPT ![j] = @ \cup missing]
          /\ slots' = [slots EXCEPT ![j] = @ \cup missing]
          /\ Go(w, "mark", "render")
       \/ /\ ~(MayRespond(j) /\ Fits(Cardinality(missing)))
          /\ Finish(w, "outcome")
          /\ UNCHANGED <<reserved, slots>>
    /\ UNCHANGED <<policyVars, jobVars, checkpoint, charged, calls, applied,
                   events>>

\* _generate: a stage whose result is kept is not called, and a response stage
\* that was started and has no result is given up.
Mark(w) ==
    LET j == on[w]
        s == stage[w]
        c == checkpoint[j]
    IN
    /\ pc[w] = "mark" /\ May(w)
    /\ \/ ~c.there /\ Go(w, "call", s) /\ UNCHANGED checkpoint
       \/ c.there /\ s \in c.done /\ After(w, s) /\ UNCHANGED checkpoint
       \/ /\ c.there /\ s \in c.started \ c.done
          /\ Finish(w, "outcome")
          /\ UNCHANGED checkpoint
       \/ /\ c.there /\ s \notin c.done \cup c.started
          /\ checkpoint' = [checkpoint EXCEPT ![j].started = @ \cup (Response \cap {s})]
          /\ Go(w, "call", s)
    /\ UNCHANGED <<policyVars, jobVars, budgetVars, applied, events>>

\* _call charges the call and commits before the provider hears of it.
Call(w) ==
    LET j == on[w]
        s == stage[w]
    IN
    /\ pc[w] = "call" /\ May(w)
    /\ \/ s \in Response /\ MayRespond(j) /\ s \in reserved[j]
       \/ s \notin Response /\ Fits(1)
    /\ reserved' = [reserved EXCEPT ![j] = @ \ {s}]
    /\ charged' = charged + 1
    /\ calls' = IF s \in Response THEN [calls EXCEPT ![j][s] = @ + 1] ELSE calls
    /\ Go(w, "wait", s)
    /\ UNCHANGED <<policyVars, jobVars, checkpoint, slots, applied, events>>

\* No call: the base reply is used, or, in a base stage, the fallback.
NoCall(w) ==
    LET j == on[w]
        s == stage[w]
    IN
    /\ pc[w] = "call" /\ May(w)
    /\ \/ /\ s \in Response /\ ~(MayRespond(j) /\ s \in reserved[j])
          /\ Finish(w, "outcome")
          /\ UNCHANGED <<policyVars, jobVars, checkpoint, budgetVars, applied,
                         events>>
       \/ s \notin Response /\ ~Fits(1) /\ Fail(w, "final")

\* Mutant: a call without an answer gets its slot back and is made again.
AnswerForgets(w) ==
    LET s == stage[w] IN
    /\ pc[w] = "wait"
    /\ checkpoint' = [checkpoint EXCEPT ![on[w]].started = @ \ {s}]
    /\ reserved' = [reserved EXCEPT ![on[w]] = @ \cup ({s} \cap Response)]
    /\ \/ s \in Response /\ Go(w, "mark", s)
       \/ s \in Base /\ After(w, s)
    /\ UNCHANGED <<policyVars, jobVars, slots, charged, calls, applied, events>>

\* What the checks make of the answer of a base stage and of a response stage;
\* an error of the provider's own is one of the others.
Understood == {"valid", "retryable", "final"}
Reviewed   == {"valid", "refused"}

\* The provider answers; a valid result is kept when the lease still holds.
Answer(w) ==
    LET j == on[w]
        s == stage[w]
        c == checkpoint[j]
    IN
    /\ pc[w] = "wait"
    /\ \E r \in IF s \in Response THEN Reviewed ELSE Understood :
       \/ /\ r = "valid" /\ (c.there => May(w))
          /\ checkpoint' = IF c.there
                           THEN [checkpoint EXCEPT ![j].done = @ \cup {s}]
                           ELSE checkpoint
          /\ After(w, s)
          /\ UNCHANGED <<policyVars, jobVars, budgetVars, applied, events>>
       \/ r = "valid" /\ c.there /\ ~May(w) /\ Fail(w, "fatal")
       \/ r \in {"retryable", "final"} /\ Fail(w, r)
       \/ /\ r = "refused" /\ Finish(w, "outcome")
          /\ UNCHANGED <<policyVars, jobVars, checkpoint, budgetVars, applied,
                         events>>

\* compose records its outcome and gives back what it did not use.
Outcome(w) ==
    /\ pc[w] = "outcome" /\ Owned(w)
    /\ Release(on[w])
    /\ Finish(w, "commit")
    /\ UNCHANGED <<policyVars, jobVars, checkpoint, slots, charged, calls,
                   applied, events>>

\* Memory and reply are written, under the lock of the conversation.
Commit(w) ==
    LET j == on[w] IN
    /\ pc[w] = "commit" /\ May(w)
    /\ status' = [status EXCEPT ![j] = "ready"]
    /\ token' = [token EXCEPT ![j] = 0]
    /\ applied' = [applied EXCEPT ![j] = @ + 1]
    /\ Release(j)
    /\ Leave(w)
    /\ UNCHANGED <<policyVars, attempts, hash, backoff, expired, queued,
                   checkpoint, slots, charged, calls, events>>

-----------------------------------------------------------------------------
(* The dispatcher, which has the job and the conversation locked.          *)

\* What ends a job leaves its token, its checkpoint and its quota.
Close(j, st) ==
    /\ status[j] = "ready"
    /\ status' = [status EXCEPT ![j] = st]
    /\ queued' = queued \ {j}
    /\ UNCHANGED <<attempts, token, hash, backoff, expired, inbound, config,
                   natural, checkpoint, budgetVars, applied, workerVars,
                   events>>

\* The row was sent, was given up or has been on its way for too long, and the
\* job follows, whatever has changed since.
RowEnds(j) == j \in queued /\ Close(j, "sent") /\ UNCHANGED open

\* The policy has changed or a newer message came; or knowledge, memory or the
\* conversational layer did, which may be at any time.
Withdraw(j) == Close(j, "cancelled") /\ UNCHANGED open

\* The reply was to call a human, and the handoff begins.
AskHuman(j) ==
    /\ j \notin queued /\ Eligible(j)
    /\ Close(j, "sent") /\ open' = FALSE

\* Mutant: the dispatcher trusts what was true when the reply was written.
QueueReplyLate(j) ==
    /\ status[j] = "ready" /\ j \notin queued
    /\ queued' = queued \cup {j}
    /\ UNCHANGED <<policyVars, status, attempts, token, hash, backoff, expired,
                   checkpoint, budgetVars, applied, workerVars, events>>

\* The row of the reply is written.
QueueReply(j) ==
    /\ status[j] = "ready" /\ j \notin queued /\ Eligible(j)
    /\ queued' = queued \cup {j}
    /\ UNCHANGED <<policyVars, status, attempts, token, hash, backoff, expired,
                   checkpoint, budgetVars, applied, workerVars, events>>

Dispatch(j) == RowEnds(j) \/ Withdraw(j) \/ AskHuman(j) \/ QueueReply(j)

-----------------------------------------------------------------------------
(* Failures and time.                                                      *)

Crash(w) ==
    /\ pc[w] # "idle" /\ events < MaxEvents /\ events' = events + 1
    /\ Leave(w)
    /\ UNCHANGED <<policyVars, jobVars, checkpoint, budgetVars, applied>>

\* A lease covers the calls of one claim; it ends under a live worker only when
\* that is slow.
LeaseExpires(j) ==
    /\ status[j] = "running" /\ j \notin expired
    /\ LET live == \E w \in Workers : on[w] = j /\ held[w] = token[j]
       IN  /\ live => events < MaxEvents
           /\ events' = IF live THEN events + 1 ELSE events
    /\ expired' = expired \cup {j}
    /\ UNCHANGED <<policyVars, status, attempts, token, hash, backoff, queued,
                   checkpoint, budgetVars, applied, workerVars>>

BackoffEnds(j) ==
    /\ j \in backoff
    /\ backoff' = backoff \ {j}
    /\ UNCHANGED <<policyVars, status, attempts, token, hash, expired, queued,
                   checkpoint, budgetVars, applied, workerVars, events>>

\* A job of another conversation makes a base call on the same budget.
CallElsewhere ==
    /\ events < MaxEvents /\ events' = events + 1
    /\ Fits(1)
    /\ charged' = charged + 1
    /\ UNCHANGED <<policyVars, jobVars, checkpoint, reserved, slots, calls,
                   applied, workerVars>>

\* The day's count starts again; reserved calls stay charged.
Midnight ==
    /\ events < MaxEvents /\ events' = events + 1
    /\ charged > 0 /\ charged' = 0
    /\ UNCHANGED <<policyVars, jobVars, checkpoint, reserved, slots, calls,
                   applied, workerVars>>

Step(w) ==
    \/ Interrupted(w) \/ Breaks(w) \/ Snapshot(w) \/ Reserve(w) \/ Mark(w)
    \/ Call(w) \/ NoCall(w) \/ Answer(w) \/ Outcome(w) \/ Commit(w)

\* What an idle worker does about a job.
Take(w, j) ==
    \/ Claim(w, j)
    \/ pc[w] = "idle" /\ (CancelStale(j) \/ Exhaust(j))

Next ==
    \/ Inbound \/ Outside \/ UpdateSettings \/ UpdateResponse
    \/ CallElsewhere \/ Midnight
    \/ \E w \in Workers : Step(w) \/ Crash(w) \/ \E j \in Jobs : Take(w, j)
    \/ \E j \in Jobs :
          Dispatch(j) \/ CleanUp(j) \/ LeaseExpires(j) \/ BackoffEnds(j)

Spec == Init /\ [][Next]_vars

\* The loop of the lane goes on, and so does time.
Fairness ==
    /\ \A w \in Workers : WF_vars(Step(w))
    /\ \A j \in Jobs :
          /\ WF_vars(\E w \in Workers : Take(w, j))
          /\ WF_vars(CleanUp(j)) /\ WF_vars(Dispatch(j))
          /\ WF_vars(LeaseExpires(j)) /\ WF_vars(BackoffEnds(j))

FairSpec == Spec /\ Fairness

-----------------------------------------------------------------------------
\* The day's calls never exceed the limit, reservations included, whatever
\* workers reserve, consume and release at the same time.
BudgetKept == charged + Cardinality(Reservations) <= CallLimit

\* A response stage is never called twice for a job, although jobs are resumed
\* after crashes at every step.
CalledOnce == \A j \in Jobs, s \in Response : calls[j][s] <= 1

\* Two messages of a conversation are never answered at the same time, although
\* leases run out under live workers and workers fail late.
OneGeneration ==
    Cardinality({j \in Jobs : status[j] = "running"}) <= 1

\* The memory of the conversation is written once for each job, although a
\* stale worker may go on after its lease.
AppliedOnce == \A j \in Jobs : applied[j] <= 1

\* While the reply of a message waits in the outbox, no newer message of the
\* conversation is being answered or has its reply queued, although the jobs of
\* older messages may come back after they were cancelled.
RepliesInTurn ==
    \A j \in queued, k \in Jobs :
        status[j] = "ready" /\ j < k =>
            k \notin queued /\ status[k] \notin {"running", "retry", "ready"}

\* Crashed, stale and competing workers together never overspend the day, call
\* a stage twice, answer two messages at once, queue their replies out of turn
\* or write the memory twice.
JobsAreExact ==
    BudgetKept /\ CalledOnce /\ OneGeneration /\ AppliedOnce /\ RepliesInTurn

\* Every job comes to an end, by its row, a handoff or a cancellation, and each
\* of its reserved calls is consumed or given back, whatever crashes, although an
\* update of the settings ends jobs without a look at their calls.
EveryJobSettles ==
    \A j \in Jobs :
        status[j] \in Active \/ reserved[j] # {}
            ~> status[j] \notin Active /\ reserved[j] = {}
=============================================================================
