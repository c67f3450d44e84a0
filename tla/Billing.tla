-------------------------------- MODULE Billing --------------------------------
(***************************************************************************)
(* The billing of one organization: its subscriptions, what the payment    *)
(* provider has of each, and the plan that the organization is assigned.   *)
(* Every operation locks the organization, asks the provider, and commits; *)
(* the provider may go on before the commit, and the commit may not come.  *)
(* A webhook handler loads the subscription before it waits for the lock,  *)
(* keeps what it loaded, and writes only the columns that it changes.      *)
(*                                                                         *)
(* Instants are the ticks until they come, 0 when they have passed, Never  *)
(* for NULL.  A tick is long compared with a request.  A price stands for  *)
(* its plan and its amount.                                                *)
(***************************************************************************)
EXTENDS Integers, FiniteSets

CONSTANTS
    Subscriptions,  \* the ids, one for each idempotency key of a checkout
    TopPrice,       \* prices are 1 to TopPrice
    Handlers,       \* webhook handlers; the API serves one at a time
    Period, Lead,   \* of a paid period; how long before its end a lower price
                    \* is announced to the provider
    HasFallback,    \* BOTWA_BILLING_FALLBACK_PLAN_CODE is set
    MaxNotices      \* bound on the notifications under way for a subscription

ASSUME BillingAssumption ==
    /\ TopPrice \in Nat \ {0} /\ Period \in Nat \ {0} /\ Lead \in 0..Period
    /\ HasFallback \in BOOLEAN /\ MaxNotices \in Nat \ {0}

VARIABLES
    remote,     \* the provider's subscriptions
    notices,    \* its notifications that were not acknowledged
    sub,        \* the rows of table subscription
    assigned,   \* the plan in organization_plan_assignment
    job,        \* the operation that has the organization locked
    work        \* what each handler does

billingVars == <<remote, notices, sub, assigned, job, work>>

Never    == -1
Fallback == 0
NoPrice  == 0
Prices   == 1..TopPrice
Instants == -1..Period

RemoteStatuses == {"none", "pending", "authorized", "paused", "cancelled"}
Statuses == {"absent", "pending", "active", "suspended", "canceled"}
Current  == {"pending", "active", "suspended"}
Ops      == {"checkout", "upgrade", "cancel", "announce", "promote", "close",
             "reconcile"}

Remote == [status : RemoteStatuses, price : 0..TopPrice, end : Instants]
Rows   == [status : Statuses, remote : RemoteStatuses, price : 0..TopPrice,
           pending : 0..TopPrice, scheduled : Instants, cancel : BOOLEAN,
           end : Instants]
NoRemote == [status |-> "none", price |-> NoPrice, end |-> Never]
NoRow    == [status |-> "absent", remote |-> "none", price |-> NoPrice,
             pending |-> NoPrice, scheduled |-> Never, cancel |-> FALSE,
             end |-> Never]
NoJob    == [op |-> "none"]
NoWork   == [stage |-> "idle"]
Jobs     == {NoJob} \cup
            [op : Ops, id : Subscriptions, price : 0..TopPrice, answer : Remote]
Works    == {NoWork} \cup
            [stage : {"loaded"}, id : Subscriptions, row : Rows] \cup
            [stage : {"fetched"}, id : Subscriptions, row : Rows, answer : Remote]

BillingTypeOK ==
    /\ remote \in [Subscriptions -> Remote]
    /\ notices \in [Subscriptions -> 0..MaxNotices]
    /\ sub \in [Subscriptions -> Rows]
    /\ assigned \in 0..TopPrice
    /\ job \in Jobs
    /\ work \in [Handlers -> Works]

BillingInit ==
    /\ remote = [s \in Subscriptions |-> NoRemote]
    /\ notices = [s \in Subscriptions |-> 0]
    /\ sub = [s \in Subscriptions |-> NoRow]
    /\ assigned = Fallback
    /\ job = NoJob
    /\ work = [h \in Handlers |-> NoWork]

-----------------------------------------------------------------------------
(* The provider.                                                           *)

\* Every change of a subscription is notified.
Handled(s) == {h \in Handlers : work[h] # NoWork /\ work[h].id = s}

Becomes(s, r) ==
    /\ notices[s] + Cardinality(Handled(s)) < MaxNotices
    /\ remote' = [remote EXCEPT ![s] = r]
    /\ notices' = [notices EXCEPT ![s] = @ + 1]

\* The customer pays in the hosted checkout, whose URL the commit gives away.
Authorize(s) ==
    /\ remote[s].status = "pending" /\ sub[s].status # "absent"
    /\ Becomes(s, [remote[s] EXCEPT !.status = "authorized", !.end = Period])

Renew(s) ==
    /\ remote[s].status = "authorized" /\ remote[s].end = 0
    /\ Becomes(s, [remote[s] EXCEPT !.end = Period])

\* Payments fail, and succeed again; the customer cancels at the provider.
Pause(s) ==
    /\ remote[s].status = "authorized"
    /\ Becomes(s, [remote[s] EXCEPT !.status = "paused"])

Resume(s) ==
    /\ remote[s].status = "paused"
    /\ Becomes(s, [remote[s] EXCEPT !.status = "authorized"])

CancelRemote(s) ==
    /\ remote[s].status \in {"authorized", "paused"}
    /\ Becomes(s, [remote[s] EXCEPT !.status = "cancelled"])

ProviderStep(s) ==
    /\ Authorize(s) \/ Renew(s) \/ Pause(s) \/ Resume(s) \/ CancelRemote(s)
    /\ UNCHANGED <<sub, assigned, job, work>>

\* Calls of the service; a price is changed until the subscription is canceled.
Ask(s, r) ==
    IF r = remote[s] THEN UNCHANGED <<remote, notices>> ELSE Becomes(s, r)

Priced(s, p)  == [remote[s] EXCEPT !.price = p]
Cancelled(s)  == [remote[s] EXCEPT !.status = "cancelled"]
Chargeable(s) == remote[s].status \in {"pending", "authorized", "paused"}

-----------------------------------------------------------------------------
(* _apply_snapshot.                                                        *)

\* _internal_status
Internal(st) ==
    CASE st = "authorized" -> "active"
      [] st = "paused"     -> "suspended"
      [] st = "cancelled"  -> "canceled"
      [] OTHER             -> st

\* _transition_allowed
TransitionAllowed(from, to) ==
    \/ from = to
    \/ from = "pending" /\ to \in {"active", "canceled"}
    \/ from = "active" /\ to \in {"suspended", "canceled"}
    \/ from = "suspended" /\ to \in {"active", "canceled"}

\* When a cancellation is effective: at once when neither instant is known.
EndAfter(r, a, preserve) == IF preserve \/ a.end = Never THEN r.end ELSE a.end

EffectiveAt(r, a, preserve) ==
    IF r.scheduled # Never THEN r.scheduled ELSE EndAfter(r, a, preserve)

Deferred(r, a, preserve) ==
    Internal(a.status) = "canceled" /\ EffectiveAt(r, a, preserve) > 0

NewStatus(r, a, preserve) ==
    IF Deferred(r, a, preserve) THEN r.status ELSE Internal(a.status)

\* Mutant: the provider's price is not looked at.
ConfirmsAlways(a, p) == a.price # NoPrice /\ p # NoPrice

\* _snapshot_confirms_price
Confirms(a, p) == a.price = p

\* The price to promote: a pending one that is confirmed and due (one that has
\* no schedule is due at once), or that of a new subscription.
Target(r, a, promote, preserve) ==
    LET new == NewStatus(r, a, preserve)
        due == r.scheduled = Never \/ r.end <= 0
    IN  IF promote /\ r.pending # NoPrice /\ new = "active"
        THEN IF due /\ Confirms(a, r.pending) THEN r.pending ELSE NoPrice
        ELSE IF new = "active" /\ r.status = "pending" THEN r.price
        ELSE NoPrice

\* The row as a snapshot leaves it, and whether anything material changed.
Synced(r, a, preserve) ==
    [r EXCEPT !.remote = a.status,
              !.status = NewStatus(r, a, preserve),
              !.end = EndAfter(r, a, preserve),
              !.cancel = @ \/ Deferred(r, a, preserve),
              !.scheduled = IF Deferred(r, a, preserve)
                            THEN EffectiveAt(r, a, preserve) ELSE @]

Material(r, a, promote, preserve) ==
    \/ Synced(r, a, preserve) # r
    \/ Target(r, a, promote, preserve) \notin {NoPrice, r.price}

Applied(r, a, promote, preserve) ==
    LET new == Synced(r, a, preserve)
        target == Target(r, a, promote, preserve)
    IN  IF ~Material(r, a, promote, preserve) THEN new
        ELSE IF target # NoPrice
        THEN [new EXCEPT !.price = target, !.pending = NoPrice,
                         !.scheduled = Never]
        ELSE IF new.status = "canceled" THEN [new EXCEPT !.scheduled = Never]
        ELSE new

\* The plan that is staged with it.
Plan(r, a, promote, preserve) ==
    LET target == Target(r, a, promote, preserve)
    IN  IF ~Material(r, a, promote, preserve) THEN assigned
        ELSE IF target # NoPrice THEN target
        ELSE IF /\ NewStatus(r, a, preserve) \in {"suspended", "canceled"}
                /\ HasFallback
        THEN Fallback
        ELSE assigned

\* The flush writes the columns that differ from the loaded ones.
Written(s, loaded, new) ==
    [f \in DOMAIN new |-> IF new[f] # loaded[f] THEN new[f] ELSE sub[s][f]]

\* An operation whose snapshot is refused fails as a whole.
Store(s, loaded, r, a, promote, preserve, scheduled) ==
    LET new == Applied(r, a, promote, preserve)
    IN  /\ TransitionAllowed(r.status, NewStatus(r, a, preserve))
        /\ sub' = [sub EXCEPT ![s] =
                     Written(s, loaded,
                        IF scheduled = Never THEN new
                        ELSE [new EXCEPT !.scheduled = scheduled])]
        /\ assigned' = Plan(r, a, promote, preserve)

-----------------------------------------------------------------------------
(* Operations under the lock: the call, then the commit.                   *)

Unlocked ==
    job = NoJob /\ \A h \in Handlers : work[h].stage # "fetched"

Start(op, s, p) ==
    /\ job' = [op |-> op, id |-> s, price |-> p, answer |-> remote'[s]]
    /\ UNCHANGED <<sub, assigned, work>>

IsCurrent(s) == sub[s].status \in Current

\* create_checkout: the retry of a key whose first request was lost finds the
\* provider's subscription.
Checkout(s, p) ==
    /\ Unlocked /\ sub[s].status = "absent"
    /\ \A t \in Subscriptions : ~IsCurrent(t)
    /\ remote[s].status = "none" \/ remote[s].price = p
    /\ IF remote[s].status = "none"
       THEN Becomes(s, [status |-> "pending", price |-> p, end |-> Never])
       ELSE UNCHANGED <<remote, notices>>
    /\ Start("checkout", s, p)

\* Mutant: the lead may begin before now.
DueAtUnclamped(end) == end - Lead

\* When a lower price is announced.
DueAt(end) == IF end > Lead THEN end - Lead ELSE 0

\* request_plan_change to a lower price: no call.
ScheduleDowngrade(s, p) ==
    /\ Unlocked /\ IsCurrent(s) /\ p < sub[s].price /\ sub[s].end # Never
    /\ sub' = [sub EXCEPT ![s].pending = p,
                 ![s].scheduled = DueAt(sub[s].end)]
    /\ UNCHANGED <<remote, notices, assigned, job, work>>

\* request_plan_change to a higher one.
Upgrade(s, p) ==
    /\ Unlocked /\ IsCurrent(s) /\ p > sub[s].price /\ Chargeable(s)
    /\ Ask(s, Priced(s, p))
    /\ Start("upgrade", s, p)

\* request_cancellation
RequestCancellation(s) ==
    /\ Unlocked /\ IsCurrent(s)
    /\ ~(sub[s].cancel /\ sub[s].remote = "cancelled")
    /\ Ask(s, Cancelled(s))
    /\ Start("cancel", s, NoPrice)

\* Mutant: only cancellations are due.
DueCancelOnly(s) ==
    IF sub[s].scheduled = 0 /\ sub[s].cancel THEN "cancellation" ELSE "none"

\* _due_operation
Due(s) ==
    IF sub[s].scheduled # 0 THEN "none"
    ELSE IF sub[s].cancel THEN "cancellation"
    ELSE IF sub[s].pending # NoPrice THEN "downgrade" ELSE "none"

\* _process_due_locked: a cancellation is confirmed or asked for again; a lower
\* price is announced before the period ends, and confirmed at its end.
CloseDue(s) ==
    /\ Ask(s, Cancelled(s))
    /\ Start("close", s, NoPrice)

ProcessDue(s) ==
    \/ Due(s) = "cancellation" /\ CloseDue(s)
    \/ /\ Due(s) = "downgrade" /\ sub[s].end > 0
       /\ Chargeable(s) /\ Ask(s, Priced(s, sub[s].pending))
       /\ Start("announce", s, sub[s].pending)
    \/ /\ Due(s) = "downgrade" /\ sub[s].end = 0
       /\ IF remote[s].price = sub[s].pending THEN UNCHANGED <<remote, notices>>
          ELSE Chargeable(s) /\ Ask(s, Priced(s, sub[s].pending))
       /\ Start("promote", s, sub[s].pending)

\* The job that a scheduler starts every minute, on the rows that are due.
Candidate(s) == Due(s) # "none"
RunDue(s)    == Candidate(s) /\ Unlocked /\ ProcessDue(s)

\* reconcile, by an administrator
Reconcile(s) ==
    /\ Unlocked /\ IsCurrent(s)
    /\ \/ ProcessDue(s)
       \/ Due(s) = "none" /\ sub[s].cancel /\ sub[s].remote # "cancelled"
            /\ CloseDue(s)
       \/ /\ Due(s) = "none" /\ ~(sub[s].cancel /\ sub[s].remote # "cancelled")
          /\ UNCHANGED <<remote, notices>>
          /\ Start("reconcile", s, NoPrice)

\* The row with what an operation sets before it applies the answer.
Prepared(j) ==
    LET r == sub[j.id]
    IN  CASE j.op = "upgrade" -> [r EXCEPT !.pending = j.price]
          [] j.op = "cancel"  -> [r EXCEPT !.cancel = TRUE, !.scheduled = r.end]
          [] OTHER            -> r

\* What an operation demands of the answer.
Acceptable(j) ==
    /\ j.op \in {"upgrade", "announce", "promote"}
         => Internal(j.answer.status) = "active" /\ Confirms(j.answer, j.price)
    /\ j.op \in {"cancel", "close"} => Internal(j.answer.status) = "canceled"

CommitCheckout ==
    /\ job.op = "checkout"
    /\ sub' = [sub EXCEPT ![job.id] =
                 [NoRow EXCEPT !.status = "pending", !.price = job.price,
                               !.remote = job.answer.status]]
    /\ job' = NoJob
    /\ UNCHANGED <<remote, notices, assigned, work>>

Commit ==
    /\ job.op \notin {"none", "checkout"} /\ Acceptable(job)
    /\ LET early == job.op = "announce"
       IN  Store(job.id, sub[job.id], Prepared(job), job.answer, ~early, early,
                 IF early THEN sub[job.id].end ELSE Never)
    /\ job' = NoJob
    /\ UNCHANGED <<remote, notices, work>>

\* The answer does not come or is not accepted, or the process dies: what the
\* provider did stays done.
GiveUp ==
    /\ job # NoJob
    /\ job' = NoJob
    /\ UNCHANGED <<remote, notices, sub, assigned, work>>

-----------------------------------------------------------------------------
(* Webhooks.                                                               *)

\* process_webhook loads the row without a lock; an unknown one is ignored ...
LoadEvent(h, s) ==
    /\ work[h] = NoWork /\ notices[s] > 0
    /\ notices' = [notices EXCEPT ![s] = @ - 1]
    /\ work' = IF sub[s].status = "absent" THEN work
               ELSE [work EXCEPT ![h] =
                       [stage |-> "loaded", id |-> s, row |-> sub[s]]]
    /\ UNCHANGED <<remote, sub, assigned, job>>

\* ... waits for the lock and fetches the subscription ...
FetchEvent(h) ==
    /\ work[h].stage = "loaded" /\ Unlocked
    /\ work' = [work EXCEPT ![h] =
                  [stage |-> "fetched", id |-> work[h].id, row |-> work[h].row,
                   answer |-> remote[work[h].id]]]
    /\ UNCHANGED <<remote, notices, sub, assigned, job>>

\* ... and applies it.
CommitEvent(h) ==
    LET w == work[h] IN
    /\ w.stage = "fetched"
    /\ Store(w.id, w.row, w.row, w.answer, TRUE, FALSE, Never)
    /\ work' = [work EXCEPT ![h] = NoWork]
    /\ UNCHANGED <<remote, notices, job>>

\* Mutant: a failure is acknowledged.
FailEventAcknowledged(h) ==
    /\ work[h] # NoWork
    /\ work' = [work EXCEPT ![h] = NoWork]
    /\ UNCHANGED <<remote, notices, sub, assigned, job>>

\* A failed event is notified again; one that fails before it is fetched has
\* done nothing.
FailEvent(h) ==
    /\ work[h].stage = "fetched"
    /\ notices' = [notices EXCEPT ![work[h].id] = @ + 1]
    /\ work' = [work EXCEPT ![h] = NoWork]
    /\ UNCHANGED <<remote, sub, assigned, job>>

-----------------------------------------------------------------------------
Later(t) == IF t > 0 THEN t - 1 ELSE t

Tick ==
    /\ job = NoJob /\ \A h \in Handlers : work[h] = NoWork
    /\ remote' = [s \in Subscriptions |-> [remote[s] EXCEPT !.end = Later(@)]]
    /\ sub' = [s \in Subscriptions |->
                 [sub[s] EXCEPT !.end = Later(@), !.scheduled = Later(@)]]
    /\ UNCHANGED <<notices, assigned, job, work>>

\* What the routes of billing ask for.
Requested(s) ==
    \/ RequestCancellation(s) \/ Reconcile(s)
    \/ \E p \in Prices :
          Checkout(s, p) \/ ScheduleDowngrade(s, p) \/ Upgrade(s, p)

BillingNext ==
    \/ \E s \in Subscriptions : ProviderStep(s) \/ Requested(s) \/ RunDue(s)
    \/ CommitCheckout \/ Commit \/ GiveUp
    \/ \E h \in Handlers :
          \/ FetchEvent(h) \/ CommitEvent(h) \/ FailEvent(h)
          \/ \E s \in Subscriptions : LoadEvent(h, s)
    \/ Tick

BillingSpec == BillingInit /\ [][BillingNext]_billingVars

\* Time passes, the due job runs every minute and is not refused by the
\* provider for ever, and notifications come until they are handled.
Fairness ==
    /\ SF_billingVars(Tick)
    /\ SF_billingVars(Commit) /\ WF_billingVars(GiveUp)
    /\ \A s \in Subscriptions : SF_billingVars(RunDue(s))
    /\ \A h \in Handlers :
          /\ SF_billingVars(FetchEvent(h)) /\ SF_billingVars(CommitEvent(h))
          /\ WF_billingVars(FailEvent(h))
          /\ \A s \in Subscriptions : SF_billingVars(LoadEvent(h, s))

FairSpec == BillingSpec /\ Fairness

-----------------------------------------------------------------------------
\* The price of a row, which the plan is given for, changes only to the price
\* that the provider has at that moment ("La activación o upgrade se aplica solo
\* tras confirmación autoritativa", PRD-019:143), whatever operations gave up
\* after their call and whatever a handler loaded before them.
PriceConfirmed ==
    [][\A s \in Subscriptions :
          sub[s].price \notin {NoPrice, sub'[s].price}
             => sub'[s].price = remote[s].price]_billingVars

Quiet ==
    /\ job = NoJob /\ \A h \in Handlers : work[h] = NoWork
    /\ \A s \in Subscriptions : notices[s] = 0

\* When every notification was handled, the rows show what the provider has,
\* although handlers apply it to rows that they loaded before the lock.
FollowsProvider ==
    Quiet => \A s \in Subscriptions : sub[s].status # "absent" =>
                 sub[s].remote = remote[s].status /\ sub[s].end = remote[s].end

\* A change of price and a cancellation that the row promises take effect.
ChangesTakeEffect ==
    \A s \in Subscriptions :
        /\ sub[s].pending # NoPrice ~>
             sub[s].pending = NoPrice \/ sub[s].status # "active"
        /\ sub[s].cancel /\ IsCurrent(s) ~> ~IsCurrent(s)
=============================================================================
