------------------------------ MODULE Automation ------------------------------
(***************************************************************************)
(* Managed automations: a customer's message creates one execution of each *)
(* active automation, workers claim executions under a lease, and an       *)
(* execution whose conditions match asks for a human handoff.              *)
(*                                                                         *)
(* The status of an execution is written without a look at who holds its   *)
(* lease; the conversation's row lock orders the requests for a handoff.   *)
(* All messages here are of one conversation.                              *)
(***************************************************************************)
EXTENDS Integers, FiniteSets

CONSTANTS
    Automations, Messages, Workers,
    NoExecution,
    MaxAttempts,    \* 3 in the code
    MaxFaults       \* bound on crashes and on leases that outlast a live worker

ASSUME AutomationAssumption ==
    /\ NoExecution \notin Automations \X Messages
    /\ MaxAttempts \in Nat \ {0} /\ MaxFaults \in Nat

Executions == Automations \X Messages

VARIABLES
    lifecycle,      \* managed_automation_definition.status
    inbound,        \* automations that the handler of a message found active
    status,         \* managed_automation_execution.status, "absent" at first
    tries,          \* attempt_count
    matching,       \* executions whose conditions match their event
    unusable,       \* executions whose stored snapshot run cannot read
    backoff,        \* pending ones whose available_at has not come
    expired,        \* running ones whose lease_expires_at has passed
    handoff,        \* whether a handoff of the conversation is active
    asked,          \* handoffs that an execution has asked for
    lapses,         \* leases of an execution that ran out
    pc, batch, row, \* what a worker does, its claimed rows, the current one
    loaded,         \* the row as the worker loaded it
    faults

definitionVars == <<lifecycle, inbound>>
snapshotVars   == <<matching, unusable>>
executionVars  == <<status, tries, snapshotVars, backoff, expired>>
historyVars    == <<asked, lapses, faults>>
workerVars     == <<pc, batch, row, loaded>>
vars == <<definitionVars, executionVars, handoff, historyVars, workerVars>>

Statuses == {"absent", "pending", "running", "succeeded", "failed", "skipped",
             "cancelled"}
Lifecycles == {"absent", "draft", "active", "inactive", "archived"}
Settled  == {"succeeded", "failed", "skipped", "cancelled"}
Stages   == {"idle", "batch", "request", "requested"}
Nothing  == [status |-> "absent", tries |-> 0]

TypeOK ==
    /\ lifecycle \in [Automations -> Lifecycles]
    /\ inbound \in [Messages -> SUBSET Automations]
    /\ status \in [Executions -> Statuses]
    /\ tries \in [Executions -> Nat]
    /\ matching \subseteq Executions /\ unusable \subseteq Executions
    /\ backoff \subseteq Executions /\ expired \subseteq Executions
    /\ handoff \in BOOLEAN
    /\ asked \in [Executions -> Nat] /\ lapses \in [Executions -> Nat]
    /\ pc \in [Workers -> Stages]
    /\ batch \in [Workers -> SUBSET Executions]
    /\ row \in [Workers -> Executions \cup {NoExecution}]
    /\ loaded \in [Workers -> [status : Statuses, tries : Nat]]
    /\ faults \in Nat

Init ==
    /\ lifecycle = [d \in Automations |-> "absent"]
    /\ inbound = [m \in Messages |-> {}]
    /\ status = [e \in Executions |-> "absent"]
    /\ tries = [e \in Executions |-> 0]
    /\ matching = {} /\ unusable = {} /\ backoff = {} /\ expired = {}
    /\ handoff = FALSE
    /\ asked = [e \in Executions |-> 0] /\ lapses = [e \in Executions |-> 0]
    /\ pc = [w \in Workers |-> "idle"]
    /\ batch = [w \in Workers |-> {}]
    /\ row = [w \in Workers |-> NoExecution]
    /\ loaded = [w \in Workers |-> Nothing]
    /\ faults = 0

-----------------------------------------------------------------------------
(* The automations and the handoff.                                        *)

Create(d) ==
    /\ lifecycle[d] = "absent"
    /\ lifecycle' = [lifecycle EXCEPT ![d] = "draft"]
    /\ UNCHANGED <<inbound, executionVars, handoff, historyVars, workerVars>>

Activate(d) ==
    /\ lifecycle[d] \in {"draft", "inactive"}
    /\ lifecycle' = [lifecycle EXCEPT ![d] = "active"]
    /\ UNCHANGED <<inbound, executionVars, handoff, historyVars, workerVars>>

\* deactivate and archive: the executions that wait are cancelled.
Stop(d) ==
    /\ \/ /\ lifecycle[d] = "active"
          /\ lifecycle' = [lifecycle EXCEPT ![d] = "inactive"]
       \/ /\ lifecycle[d] \in {"draft", "active", "inactive"}
          /\ lifecycle' = [lifecycle EXCEPT ![d] = "archived"]
    /\ status' = [e \in Executions |->
                    IF e[1] = d /\ status[e] = "pending" THEN "cancelled"
                    ELSE status[e]]
    /\ UNCHANGED <<inbound, tries, snapshotVars, backoff, expired,
                   handoff, historyVars, workerVars>>

Manage(d) == Create(d) \/ Activate(d) \/ Stop(d)

\* An agent asks for a handoff, or ends it.
AgentActs ==
    /\ handoff' = ~handoff
    /\ UNCHANGED <<definitionVars, executionVars, historyVars, workerVars>>

-----------------------------------------------------------------------------
(* A message.                                                              *)

Waiting(m) == \A d \in Automations : status[<<d, m>>] = "absent"

\* record_inbound reads the active automations (again when the handler failed
\* and is run once more) ...
ReadActive(m) ==
    /\ Waiting(m)
    /\ inbound' = [inbound EXCEPT ![m] =
                     {d \in Automations : lifecycle[d] = "active"}]
    /\ UNCHANGED <<lifecycle, executionVars, handoff, historyVars, workerVars>>

\* ... and the handler's commit shows the executions.  Receipts are unique, so
\* a message has one set of them.  A snapshot that run cannot read has no
\* conditions that match.
RecordInbound(m) ==
    /\ inbound[m] # {} /\ Waiting(m)
    /\ LET new == inbound[m] \X {m}
       IN  /\ status' = [e \in Executions |->
                           IF e \in new THEN "pending" ELSE status[e]]
           /\ \E s, u \in SUBSET new :
                 /\ s \cap u = {}
                 /\ matching' = matching \cup s
                 /\ unusable' = unusable \cup u
    /\ UNCHANGED <<definitionVars, tries, backoff, expired, handoff,
                   historyVars, workerVars>>

-----------------------------------------------------------------------------
(* The worker.                                                             *)

\* Mutant: running rows are not taken over.
ClaimablePending(e) ==
    status[e] = "pending" /\ e \notin backoff

Claimable(e) ==
    \/ status[e] = "pending" /\ e \notin backoff
    \/ status[e] = "running" /\ e \in expired

\* claim: one transaction; locked rows are skipped, the batch has a size.
Claim(w, s) ==
    /\ pc[w] = "idle" /\ s # {}
    /\ \A e \in s : Claimable(e)
    /\ status' = [e \in Executions |-> IF e \in s THEN "running" ELSE status[e]]
    /\ tries' = [e \in Executions |->
                   IF e \in s THEN tries[e] + 1 ELSE tries[e]]
    /\ expired' = expired \ s
    /\ pc' = [pc EXCEPT ![w] = "batch"]
    /\ batch' = [batch EXCEPT ![w] = s]
    /\ UNCHANGED <<definitionVars, snapshotVars, backoff, handoff, historyVars,
                   row, loaded>>

\* The next row of the batch, or the end of it.
Advance(w, rest) ==
    /\ pc' = [pc EXCEPT ![w] = IF rest = {} THEN "idle" ELSE "batch"]
    /\ row' = [row EXCEPT ![w] = NoExecution]
    /\ loaded' = [loaded EXCEPT ![w] = Nothing]

\* run loads the row, whatever its status is by then.  A snapshot that it cannot
\* read fails the execution at once, and conditions that do not match skip it.
Run(w) ==
    /\ pc[w] = "batch"
    /\ \E e \in batch[w] :
         /\ batch' = [batch EXCEPT ![w] = @ \ {e}]
         /\ \/ /\ e \in matching
               /\ row' = [row EXCEPT ![w] = e]
               /\ loaded' = [loaded EXCEPT ![w] =
                               [status |-> status[e], tries |-> tries[e]]]
               /\ pc' = [pc EXCEPT ![w] = "request"]
               /\ UNCHANGED status
            \/ /\ e \notin matching
               /\ status' = [status EXCEPT ![e] =
                               IF e \in unusable THEN "failed" ELSE "skipped"]
               /\ Advance(w, batch[w] \ {e})
    /\ UNCHANGED <<definitionVars, tries, snapshotVars, backoff, expired,
                   handoff, historyVars>>

\* request_automation commits the handoff ...
Request(w) ==
    /\ pc[w] = "request" /\ ~handoff
    /\ handoff' = TRUE
    /\ asked' = [asked EXCEPT ![row[w]] = @ + 1]
    /\ pc' = [pc EXCEPT ![w] = "requested"]
    /\ UNCHANGED <<definitionVars, executionVars, lapses, faults, batch, row,
                   loaded>>

\* ... and then run the status of the execution.
Succeed(w) ==
    /\ pc[w] = "requested"
    /\ status' = [status EXCEPT ![row[w]] = "succeeded"]
    /\ Advance(w, batch[w])
    /\ UNCHANGED <<definitionVars, tries, snapshotVars, backoff, expired,
                   handoff, historyVars, batch>>

\* The session writes a column only when it differs from what was loaded.
Write(e, old, new) ==
    status' = IF new = old THEN status ELSE [status EXCEPT ![e] = new]

\* Mutant: a handoff that is there already counts as a success.
ConflictSucceeds(w) ==
    /\ pc[w] = "request" /\ handoff
    /\ Write(row[w], loaded[w].status, "succeeded")
    /\ Advance(w, batch[w])
    /\ UNCHANGED <<definitionVars, tries, snapshotVars, backoff, expired,
                   handoff, historyVars, batch>>

\* "handoff is already active": decided and written under the conversation lock.
Conflict(w) ==
    /\ pc[w] = "request" /\ handoff
    /\ Write(row[w], loaded[w].status, "skipped")
    /\ Advance(w, batch[w])
    /\ UNCHANGED <<definitionVars, tries, snapshotVars, backoff, expired,
                   handoff, historyVars, batch>>

\* Mutant: an error is a skip.
AfterErrorSkip(n) == IF n >= MaxAttempts THEN "failed" ELSE "skipped"

AfterError(n) == IF n >= MaxAttempts THEN "failed" ELSE "pending"

\* Another error; the row is loaded again when a rollback has expired it.
Fail(w) ==
    /\ pc[w] = "request"
    /\ LET e == row[w] IN
         \E r \in {loaded[w], [status |-> status[e], tries |-> tries[e]]} :
            /\ Write(e, r.status, AfterError(r.tries))
            /\ backoff' = IF AfterError(r.tries) = "pending"
                          THEN backoff \cup {e} ELSE backoff
    /\ Advance(w, batch[w])
    /\ UNCHANGED <<definitionVars, tries, snapshotVars, expired, handoff,
                   historyVars, batch>>

BackoffEnds(e) ==
    /\ e \in backoff
    /\ backoff' = backoff \ {e}
    /\ UNCHANGED <<definitionVars, status, tries, snapshotVars, expired,
                   handoff, historyVars, workerVars>>

Retryable(e) == status[e] = "failed" /\ tries[e] < MaxAttempts

\* retry_execution: an administrator takes a failed execution back, under its
\* row lock, as long as it has an attempt left.
RetryExecution(e) ==
    /\ Retryable(e)
    /\ status' = [status EXCEPT ![e] = "pending"]
    /\ backoff' = backoff \ {e}
    /\ UNCHANGED <<definitionVars, tries, snapshotVars, expired, handoff,
                   historyVars, workerVars>>

Held(e) == \E w \in Workers : e \in batch[w] \cup {row[w]}

\* The lease of a whole batch is 60 seconds; it runs out when the worker is
\* dead, or slow.
LeaseExpires(e) ==
    /\ status[e] = "running" /\ e \notin expired
    /\ Held(e) => faults < MaxFaults
    /\ faults' = IF Held(e) THEN faults + 1 ELSE faults
    /\ expired' = expired \cup {e}
    /\ lapses' = [lapses EXCEPT ![e] = @ + 1]
    /\ UNCHANGED <<definitionVars, status, tries, snapshotVars, backoff,
                   handoff, asked, workerVars>>

\* The worker dies, or an exception leaves run: the rest of the batch stays.
Crash(w) ==
    /\ pc[w] # "idle" /\ faults < MaxFaults
    /\ faults' = faults + 1
    /\ batch' = [batch EXCEPT ![w] = {}]
    /\ pc' = [pc EXCEPT ![w] = "idle"]
    /\ row' = [row EXCEPT ![w] = NoExecution]
    /\ loaded' = [loaded EXCEPT ![w] = Nothing]
    /\ UNCHANGED <<definitionVars, executionVars, handoff, asked, lapses>>

Step(w) == Run(w) \/ Request(w) \/ Succeed(w) \/ Conflict(w) \/ Fail(w)

Next ==
    \/ \E d \in Automations : Manage(d)
    \/ AgentActs
    \/ \E m \in Messages : ReadActive(m) \/ RecordInbound(m)
    \/ \E w \in Workers :
          Step(w) \/ Crash(w) \/ \E s \in SUBSET Executions : Claim(w, s)
    \/ \E e \in Executions :
          BackoffEnds(e) \/ RetryExecution(e) \/ LeaseExpires(e)

Spec == Init /\ [][Next]_vars

\* Time passes, a run goes on, and the claims come to every row in turn (they
\* are ordered by available_at).  Nobody has to retry what failed.
Fairness ==
    /\ \A e \in Executions :
          /\ WF_vars(BackoffEnds(e)) /\ WF_vars(LeaseExpires(e))
          /\ SF_vars(\E w \in Workers, s \in SUBSET Executions :
                        e \in s /\ Claim(w, s))
    /\ \A w \in Workers : WF_vars(Step(w))

FairSpec == Spec /\ Fairness

-----------------------------------------------------------------------------
\* Executions are attempted MaxAttempts times, and once more for each lease
\* that runs out: claim itself counts attempts and never looks at the count.
AttemptsBounded == \A e \in Executions : tries[e] <= MaxAttempts + lapses[e]

\* A success is told only of an execution that asked for a handoff itself.
SuccessIsReal ==
    \A e \in Executions :
        status[e] = "succeeded" => asked[e] > 0 /\ e \in matching

\* Only an execution whose snapshot cannot be read fails with attempts left, for
\* an administrator to retry; every other one was tried as often as it may be.
FailsWhenUsedUp == \A e \in Executions : Retryable(e) => e \in unusable

\* What an execution's row tells of it is true: how often it was attempted, that
\* it asked for a handoff, and what is left to try once it failed.
RowsAreTrue == TypeOK /\ AttemptsBounded /\ SuccessIsReal /\ FailsWhenUsedUp

\* An execution that matches is given up only because a human has, or will
\* have, the conversation: a handoff is active when "skipped" is written.
SkipIsJustified ==
    [][\A e \in matching : status[e] # "skipped" /\ status'[e] = "skipped"
         => handoff]_vars

\* As long as no lease runs out, one worker has an execution: it asks for one
\* handoff at most, and what is settled stays as it is, unless an administrator
\* retries it.
SettledStays ==
    [][\A e \in Executions : status[e] \in Settled /\ lapses[e] = 0
         => /\ asked'[e] = asked[e]
            /\ \/ status'[e] = status[e]
               \/ Retryable(e) /\ status'[e] = "pending"]_vars

\* Nothing is given up or taken back without reason: a skip has a handoff, and
\* what one worker settled stays settled until it is retried.
OutcomesHold == SkipIsJustified /\ SettledStays

\* Every execution is settled for good, whatever crashes and is retried.
EveryExecutionSettles ==
    \A e \in Executions : status[e] # "absent" ~> [](status[e] \in Settled)
=============================================================================
