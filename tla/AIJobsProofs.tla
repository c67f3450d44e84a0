----------------------------- MODULE AIJobsProofs -----------------------------
(* The exactness of the generation lane, for any number of messages,        *)
(* workers, attempts, calls a day and events.                               *)
EXTENDS AIJobs, FiniteSetTheorems, TLAPS

\* The inductive invariant.  A token is of a running job, or was left on a
\* cancelled one; a job whose memory was written has none, so no late worker can
\* open it again.
WorkerKnows(w) == pc[w] # "idle" => on[w] \in Jobs /\ held[w] >= 1

JobKnown(j) ==
    /\ status[j] # "absent" => j <= inbound
    /\ token[j] # 0 => status[j] \in {"running", "cancelled"}
    /\ applied[j] <= 1
    /\ applied[j] > 0 => /\ token[j] = 0
                         /\ status[j] \in {"ready", "sent", "cancelled"}
    /\ j \in queued => status[j] = "ready"

\* A call consumes a reservation, and a stage has one row in a job's life.
CallsKnown(j) ==
    /\ reserved[j] \subseteq slots[j]
    /\ \A s \in Response :
          /\ calls[j][s] <= 1
          /\ calls[j][s] > 0 => s \in slots[j] \ reserved[j]

\* What an older job's queued reply, or its run, keeps a newer one from.
InOrder(j, k) ==
    j < k =>
        /\ ~(status[j] = "running" /\ status[k] = "running")
        /\ j \in queued => /\ status[k] \notin {"running", "retry", "ready"}
                           /\ token[k] = 0

IInv ==
    /\ TypeOK /\ BudgetKept
    /\ \A w \in Workers : WorkerKnows(w)
    /\ \A j \in Jobs : JobKnown(j) /\ CallsKnown(j)
    /\ \A j, k \in Jobs : InOrder(j, k)

-----------------------------------------------------------------------------
LEMMA JobsAreNumbers == Jobs \subseteq Nat \ {0} /\ NoJob \notin Jobs
BY AIJobsAssumption DEF Jobs, NoJob

LEMMA FiniteReservations ==
    /\ IsFiniteSet(Reservations) /\ Cardinality(Reservations) \in Nat
    /\ IsFiniteSet(Reservations') /\ Cardinality(Reservations') \in Nat
<1>1. IsFiniteSet(Jobs)
  BY AIJobsAssumption, FS_Interval DEF Jobs
<1>2. IsFiniteSet(Stages)
  <2>1. Stages = ((({} \cup {"discovery"}) \cup {"adviser"}) \cup {"render"}) \cup {"review"}
    BY DEF Stages
  <2> QED BY <2>1, FS_EmptySet, FS_AddElement
<1>3. IsFiniteSet(Jobs \X Stages)
  BY <1>1, <1>2, FS_Product
<1>4. Reservations \subseteq Jobs \X Stages /\ Reservations' \subseteq Jobs \X Stages
  BY DEF Reservations
<1> QED BY <1>3, <1>4, FS_Subset, FS_CardinalityType

LEMMA InitIInv == Init => IInv
<1> SUFFICES ASSUME Init PROVE IInv
  OBVIOUS
<1> USE AIJobsAssumption, JobsAreNumbers DEF Init
<1>1. TypeOK
  BY DEF TypeOK, Statuses, NoCheckpoint, Steps, Stages, Response
<1>2. Reservations = {}
  BY DEF Reservations
<1>3. BudgetKept
  BY <1>2, FS_EmptySet DEF BudgetKept
<1>4. \A j, k \in Jobs : JobKnown(j) /\ CallsKnown(j) /\ InOrder(j, k)
  BY DEF JobKnown, CallsKnown, InOrder
<1>5. \A w \in Workers : WorkerKnows(w)
  BY DEF WorkerKnows
<1> QED BY <1>1, <1>3, <1>4, <1>5 DEF IInv

-----------------------------------------------------------------------------
(* Types.                                                                  *)

JobTypes ==
    /\ status \in [Jobs -> Statuses]
    /\ attempts \in [Jobs -> 0..MaxAttempts]
    /\ token \in [Jobs -> 0..MaxAttempts]
    /\ hash \in [Jobs -> Nat]
    /\ backoff \subseteq Jobs /\ expired \subseteq Jobs /\ queued \subseteq Jobs

PolicyTypes ==
    /\ inbound \in 0..Messages /\ open \in BOOLEAN
    /\ config \in Nat /\ natural \in BOOLEAN

Checkpoints == [there : BOOLEAN, cleaned : BOOLEAN, started : SUBSET Response,
                done : SUBSET Stages, revoked : BOOLEAN]

WorkTypes ==
    /\ checkpoint \in [Jobs -> Checkpoints]
    /\ reserved \in [Jobs -> SUBSET Stages] /\ slots \in [Jobs -> SUBSET Stages]
    /\ charged \in Nat /\ calls \in [Jobs -> [Response -> Nat]]
    /\ applied \in [Jobs -> Nat]

WorkerTypes ==
    /\ pc \in [Workers -> Steps] /\ on \in [Workers -> Jobs \cup {NoJob}]
    /\ held \in [Workers -> 0..MaxAttempts]
    /\ stage \in [Workers -> Stages]

LEMMA Types ==
    /\ TypeOK <=> JobTypes /\ PolicyTypes /\ WorkTypes /\ WorkerTypes /\ events \in Nat
    /\ TypeOK' <=> JobTypes' /\ PolicyTypes' /\ WorkTypes' /\ WorkerTypes' /\ events' \in Nat
BY DEF TypeOK, JobTypes, PolicyTypes, WorkTypes, WorkerTypes, Checkpoints

\* What a worker that is at a step has.
LEMMA AtWork ==
    ASSUME IInv, NEW w \in Workers, pc[w] # "idle"
    PROVE  /\ on[w] \in Jobs /\ held[w] \in 1..MaxAttempts /\ stage[w] \in Stages
           /\ checkpoint[on[w]] \in Checkpoints
BY DEF IInv, TypeOK, WorkerKnows, Checkpoints

LEMMA WorkerTypesStep == ASSUME IInv, [Next]_vars PROVE WorkerTypes'
<1> USE AIJobsAssumption DEF WorkerTypes
<1>1. WorkerTypes
  BY Types DEF IInv
<1>2. ASSUME NEW w \in Workers, NEW step \in Steps, NEW s \in Stages, Go(w, step, s)
      PROVE  WorkerTypes'
  BY <1>1, <1>2 DEF Go
<1>3. ASSUME NEW w \in Workers, Leave(w) PROVE WorkerTypes'
  BY <1>1, <1>3 DEF Leave, Steps, Stages
<1>4. CASE UNCHANGED workerVars
  BY <1>1, <1>4 DEF workerVars
<1>5. ASSUME NEW w \in Workers, NEW s \in Stages, After(w, s) PROVE WorkerTypes'
  BY <1>2, <1>5 DEF After, Finish, Steps, Stages
<1>6. ASSUME NEW w \in Workers, NEW j \in Jobs, Claim(w, j) PROVE WorkerTypes'
  <2>1. attempts[j] + 1 \in 0..MaxAttempts
    BY <1>6 DEF IInv, TypeOK, Claim, MayTry
  <2> QED BY <1>1, <1>6, <2>1 DEF Claim, Steps
<1>7. ASSUME NEW w \in Workers, Step(w) PROVE WorkerTypes'
  <2>1. stage[w] \in Stages
    BY <1>1
  <2>2. CASE \E error : Fail(w, error)
    BY <1>3, <2>2 DEF Fail
  <2>3. CASE Interrupted(w) \/ Breaks(w) \/ Commit(w)
    BY <1>3, <1>7, <2>2, <2>3 DEF Interrupted, Breaks, Commit
  <2>4. CASE Snapshot(w) \/ Reserve(w) \/ Outcome(w)
    BY <1>2, <2>2, <2>4 DEF Snapshot, Reserve, Outcome, Finish, Steps, Stages
  <2>5. CASE Mark(w) \/ Answer(w)
    BY <1>2, <1>5, <2>1, <2>2, <2>5 DEF Mark, Answer, Finish, Steps, Stages
  <2>6. CASE Call(w) \/ NoCall(w)
    BY <1>2, <2>1, <2>2, <2>6 DEF Call, NoCall, Finish, Steps, Stages
  <2> QED BY <1>7, <2>3, <2>4, <2>5, <2>6 DEF Step
<1>8. ASSUME NEW w \in Workers, NEW j \in Jobs, Take(w, j) PROVE WorkerTypes'
  BY <1>4, <1>6, <1>8 DEF Take, CancelStale, Exhaust
<1>9. ASSUME NEW w \in Workers, Crash(w) PROVE WorkerTypes'
  BY <1>3, <1>9 DEF Crash
<1>10. ASSUME NEW j \in Jobs,
              Dispatch(j) \/ CleanUp(j) \/ LeaseExpires(j) \/ BackoffEnds(j)
       PROVE  WorkerTypes'
  BY <1>4, <1>10 DEF Dispatch, RowEnds, Withdraw, AskHuman, Close, QueueReply,
     CleanUp, LeaseExpires, BackoffEnds
<1>11. CASE \/ Inbound \/ Outside \/ UpdateSettings \/ UpdateResponse
            \/ CallElsewhere \/ Midnight \/ UNCHANGED vars
  BY <1>4, <1>11 DEF Inbound, Outside, UpdateSettings, UpdateResponse,
     CallElsewhere, Midnight, vars
<1> QED BY <1>7, <1>8, <1>9, <1>10, <1>11 DEF Next

\* What fail does to the job of its worker, when that has the token.
LEMMA FailEffect ==
    ASSUME IInv, NEW w \in Workers, NEW error, Fail(w, error), pc[w] # "idle"
    PROVE  /\ UNCHANGED <<policyVars, attempts, hash, queued, checkpoint, slots,
                          charged, calls, applied, events>>
           /\ \/ UNCHANGED <<status, token, expired, backoff, reserved>>
              \/ /\ token[on[w]] # 0
                 /\ \E st \in {"cancelled", "retry", "ready"} :
                       status' = [status EXCEPT ![on[w]] = st]
                 /\ token' = [token EXCEPT ![on[w]] = 0]
                 /\ expired' = expired \ {on[w]}
                 /\ backoff' \in {backoff, backoff \cup {on[w]}}
                 /\ Release(on[w])
<1>1. held[w] # 0
  BY AtWork
<1>2. Verdict(on[w], error) \in {"cancelled", "retry", "ready"}
  BY DEF Verdict
<1> QED BY <1>1, <1>2 DEF Fail

\* The steps of a worker that do not touch its job's row.
LEMMA StepKinds ==
    ASSUME NEW w \in Workers, Step(w)
    PROVE  /\ pc[w] # "idle"
           /\ \/ \E error : Fail(w, error)
              \/ Commit(w)
              \/ /\ UNCHANGED <<policyVars, jobVars, applied, events>>
                 /\ Snapshot(w) \/ Reserve(w) \/ Mark(w) \/ Call(w) \/ NoCall(w)
                    \/ Answer(w) \/ Outcome(w)
<1>1. CASE Interrupted(w) \/ Breaks(w)
  BY <1>1 DEF Interrupted, Breaks, Steps
<1>2. CASE Snapshot(w) \/ NoCall(w) \/ Answer(w)
  BY <1>2 DEF Snapshot, NoCall, Answer
<1>3. CASE Reserve(w) \/ Mark(w) \/ Call(w) \/ Outcome(w) \/ Commit(w)
  BY <1>3 DEF Reserve, Mark, Call, Outcome, Commit
<1> QED BY <1>1, <1>2, <1>3 DEF Step

LEMMA JobTypesStep == ASSUME IInv, [Next]_vars PROVE JobTypes'
<1> USE AIJobsAssumption, JobsAreNumbers DEF JobTypes
<1>1. JobTypes /\ PolicyTypes
  BY Types DEF IInv
<1>2. CASE UNCHANGED jobVars
  BY <1>1, <1>2 DEF jobVars
<1>3. CASE Inbound
  BY <1>1, <1>3 DEF Inbound, PolicyTypes, Statuses
<1>4. CASE UpdateSettings
  BY <1>1, <1>4 DEF UpdateSettings, Statuses
<1>5. ASSUME NEW w \in Workers, Step(w) PROVE JobTypes'
  <2>1. CASE \E error : Fail(w, error)
    <3>1. /\ UNCHANGED <<attempts, hash, queued>>
          /\ \/ UNCHANGED <<status, token, expired, backoff>>
             \/ /\ \E st \in {"cancelled", "retry", "ready"} :
                      status' = [status EXCEPT ![on[w]] = st]
                /\ token' = [token EXCEPT ![on[w]] = 0]
                /\ expired' = expired \ {on[w]}
                /\ backoff' \in {backoff, backoff \cup {on[w]}}
      BY <1>5, <2>1, FailEffect, StepKinds
    <3>2. on[w] \in Jobs
      BY <1>5, StepKinds, AtWork
    <3>3. CASE UNCHANGED <<status, token, expired, backoff>>
      BY <1>1, <3>1, <3>3
    <3>4. CASE ~UNCHANGED <<status, token, expired, backoff>>
      <4>1. PICK st \in {"cancelled", "retry", "ready"} :
               status' = [status EXCEPT ![on[w]] = st]
        BY <3>1, <3>4
      <4>2. status' \in [Jobs -> Statuses]
        BY <1>1, <3>2, <4>1 DEF Statuses
      <4>3. token' \in [Jobs -> 0..MaxAttempts]
        BY <1>1, <3>1, <3>2, <3>4
      <4>4. backoff' \subseteq Jobs /\ expired' \subseteq Jobs
        BY <1>1, <3>1, <3>2, <3>4
      <4> QED BY <1>1, <3>1, <4>2, <4>3, <4>4
    <3> QED BY <3>3, <3>4
  <2>2. CASE Commit(w)
    BY <1>1, <1>5, <2>2, StepKinds, AtWork DEF Commit, Statuses
  <2> QED BY <1>2, <1>5, <2>1, <2>2, StepKinds
<1>6. ASSUME NEW w \in Workers, NEW j \in Jobs, Take(w, j) PROVE JobTypes'
  <2>1. CASE Claim(w, j)
    <3>1. attempts[j] + 1 \in 0..MaxAttempts
      BY <1>1, <2>1 DEF Claim, MayTry
    <3> QED BY <1>1, <2>1, <3>1 DEF Claim, Statuses
  <2>2. CASE CancelStale(j)
    BY <1>1, <2>2 DEF CancelStale, Statuses
  <2>3. CASE Exhaust(j)
    BY <1>1, <2>3 DEF Exhaust, Statuses
  <2> QED BY <1>6, <2>1, <2>2, <2>3 DEF Take
<1>7. ASSUME NEW j \in Jobs, Dispatch(j) PROVE JobTypes'
  BY <1>1, <1>7 DEF Dispatch, RowEnds, Withdraw, AskHuman, Close, QueueReply,
     Statuses
<1>8. ASSUME NEW j \in Jobs, LeaseExpires(j) \/ BackoffEnds(j) PROVE JobTypes'
  BY <1>1, <1>8 DEF LeaseExpires, BackoffEnds
<1>9. CASE Outside \/ UpdateResponse \/ CallElsewhere \/ Midnight \/ UNCHANGED vars
  BY <1>2, <1>9 DEF Outside, UpdateResponse, CallElsewhere, Midnight, vars
<1>10. ASSUME NEW w \in Workers, Crash(w) PROVE JobTypes'
  BY <1>2, <1>10 DEF Crash
<1>11. ASSUME NEW j \in Jobs, CleanUp(j) PROVE JobTypes'
  BY <1>2, <1>11 DEF CleanUp
<1> QED
  BY <1>3, <1>4, <1>5, <1>6, <1>7, <1>8, <1>9, <1>10, <1>11 DEF Next

LEMMA PolicyTypesStep == ASSUME IInv, [Next]_vars PROVE PolicyTypes' /\ events' \in Nat
<1> USE AIJobsAssumption DEF PolicyTypes
<1>1. PolicyTypes /\ events \in Nat
  BY Types DEF IInv
<1>2. CASE UNCHANGED <<policyVars, events>>
  BY <1>1, <1>2 DEF policyVars
<1>3. CASE Inbound \/ Outside \/ UpdateSettings \/ UpdateResponse
  <2>1. CASE Inbound
    BY <1>1, <2>1 DEF Inbound
  <2>2. CASE Outside
    BY <1>1, <2>2 DEF Outside
  <2>3. CASE UpdateSettings
    BY <1>1, <2>3 DEF UpdateSettings
  <2>4. CASE UpdateResponse
    BY <1>1, <2>4 DEF UpdateResponse
  <2> QED BY <1>3, <2>1, <2>2, <2>3, <2>4
<1>4. ASSUME NEW w \in Workers, Step(w) PROVE PolicyTypes' /\ events' \in Nat
  BY <1>2, <1>4, StepKinds, FailEffect DEF Commit
<1>5. ASSUME NEW w \in Workers, NEW j \in Jobs, Take(w, j)
      PROVE  PolicyTypes' /\ events' \in Nat
  BY <1>2, <1>5 DEF Take, Claim, CancelStale, Exhaust
<1>6. ASSUME NEW j \in Jobs, Dispatch(j) PROVE PolicyTypes' /\ events' \in Nat
  BY <1>1, <1>6 DEF Dispatch, RowEnds, Withdraw, AskHuman, Close, QueueReply,
     policyVars
<1>7. ASSUME NEW j \in Jobs, CleanUp(j) \/ LeaseExpires(j) \/ BackoffEnds(j)
      PROVE  PolicyTypes' /\ events' \in Nat
  BY <1>1, <1>7 DEF CleanUp, LeaseExpires, BackoffEnds, policyVars
<1>8. ASSUME NEW w \in Workers, Crash(w) PROVE PolicyTypes' /\ events' \in Nat
  BY <1>1, <1>8 DEF Crash, policyVars
<1>9. CASE CallElsewhere \/ Midnight \/ UNCHANGED vars
  BY <1>1, <1>9 DEF CallElsewhere, Midnight, vars, policyVars
<1> QED BY <1>3, <1>4, <1>5, <1>6, <1>7, <1>8, <1>9 DEF Next

LEMMA WorkTypesStep == ASSUME IInv, [Next]_vars PROVE WorkTypes'
<1> USE AIJobsAssumption DEF WorkTypes
<1>1. WorkTypes
  BY Types DEF IInv
<1>2. CASE UNCHANGED <<checkpoint, budgetVars, applied>>
  BY <1>1, <1>2 DEF budgetVars
<1>3. ASSUME NEW j \in Jobs, Release(j),
             UNCHANGED <<slots, charged, calls>>,
             checkpoint' \in [Jobs -> Checkpoints], applied' \in [Jobs -> Nat]
      PROVE  WorkTypes'
  BY <1>1, <1>3 DEF Release
<1>4. ASSUME NEW w \in Workers, Step(w) PROVE WorkTypes'
  <2>1. /\ pc[w] # "idle" /\ on[w] \in Jobs /\ stage[w] \in Stages
        /\ checkpoint[on[w]] \in Checkpoints
    BY <1>4, StepKinds, AtWork
  <2>2. CASE \E error : Fail(w, error)
    BY <1>1, <1>3, <2>1, <2>2 DEF Fail
  <2>3. CASE Interrupted(w) \/ Breaks(w)
    BY <2>2, <2>3 DEF Interrupted, Breaks
  <2>4. CASE Snapshot(w)
    <3>1. [checkpoint[on[w]] EXCEPT !.there = @ \/ natural] \in Checkpoints
      BY <2>1, Types DEF IInv, PolicyTypes, Checkpoints
    <3>2. \/ /\ checkpoint' = [checkpoint EXCEPT ![on[w]].there = @ \/ natural]
             /\ UNCHANGED <<budgetVars, applied>>
          \/ Fail(w, "final")
      BY <2>4 DEF Snapshot
    <3> QED BY <1>1, <2>1, <2>2, <3>1, <3>2 DEF budgetVars
  <2>5. CASE Reserve(w)
    <3>1. Response \subseteq Stages
      BY DEF Response, Stages
    <3>2. \/ \E missing \in SUBSET Stages :
                /\ reserved' = [reserved EXCEPT ![on[w]] = @ \cup missing]
                /\ slots' = [slots EXCEPT ![on[w]] = @ \cup missing]
          \/ UNCHANGED <<reserved, slots>>
      BY <2>5, <3>1 DEF Reserve
    <3>3. UNCHANGED <<checkpoint, charged, calls, applied>>
      BY <2>5 DEF Reserve
    <3> QED BY <1>1, <2>1, <3>2, <3>3
  <2>6. CASE Mark(w)
    <3>1. UNCHANGED <<budgetVars, applied>>
      BY <2>6 DEF Mark
    <3>2. [checkpoint[on[w]] EXCEPT !.started = @ \cup (Response \cap {stage[w]})]
             \in Checkpoints
      BY <2>1 DEF Checkpoints
    <3>3. \/ UNCHANGED checkpoint
          \/ checkpoint' = [checkpoint EXCEPT ![on[w]].started =
                                @ \cup (Response \cap {stage[w]})]
      BY <2>6 DEF Mark
    <3> QED BY <1>1, <2>1, <3>1, <3>2, <3>3 DEF budgetVars
  <2>7. CASE Call(w)
    <3>1. /\ reserved' = [reserved EXCEPT ![on[w]] = @ \ {stage[w]}]
          /\ charged' = charged + 1
          /\ UNCHANGED <<checkpoint, slots, applied>>
      BY <2>7 DEF Call
    <3>2. CASE stage[w] \in Response
      <4>1. calls' = [calls EXCEPT ![on[w]][stage[w]] = @ + 1]
        BY <2>7, <3>2 DEF Call
      <4>2. calls' \in [Jobs -> [Response -> Nat]]
        BY <1>1, <2>1, <3>2, <4>1
      <4>3. reserved' \in [Jobs -> SUBSET Stages]
        BY <1>1, <2>1, <3>1
      <4>4. charged' \in Nat
        BY <1>1, <3>1
      <4> QED BY <1>1, <3>1, <4>2, <4>3, <4>4
    <3>3. CASE stage[w] \notin Response
      BY <1>1, <2>1, <2>7, <3>1, <3>3 DEF Call
    <3> QED BY <3>2, <3>3
  <2>8. CASE NoCall(w)
    BY <1>2, <2>2, <2>8 DEF NoCall
  <2>9. CASE Answer(w)
    <3>1. [checkpoint[on[w]] EXCEPT !.done = @ \cup {stage[w]}] \in Checkpoints
      BY <2>1 DEF Checkpoints
    <3>2. \/ \E error : Fail(w, error)
          \/ /\ UNCHANGED <<budgetVars, applied>>
             /\ \/ UNCHANGED checkpoint
                \/ checkpoint' = [checkpoint EXCEPT ![on[w]].done = @ \cup {stage[w]}]
      BY <2>9 DEF Answer
    <3> QED BY <1>1, <2>1, <2>2, <3>1, <3>2 DEF budgetVars
  <2>10. CASE Outcome(w)
    BY <1>1, <1>3, <2>1, <2>10 DEF Outcome
  <2>11. CASE Commit(w)
    <3>1. applied' \in [Jobs -> Nat]
      BY <1>1, <2>1, <2>11 DEF Commit
    <3> QED BY <1>1, <1>3, <2>1, <2>11, <3>1 DEF Commit
  <2> QED
    BY <1>4, <2>3, <2>4, <2>5, <2>6, <2>7, <2>8, <2>9, <2>10, <2>11 DEF Step
<1>5. ASSUME NEW w \in Workers, NEW j \in Jobs, Take(w, j) PROVE WorkTypes'
  BY <1>1, <1>2, <1>3, <1>5 DEF Take, Claim, CancelStale, Exhaust
<1>6. ASSUME NEW j \in Jobs, CleanUp(j) PROVE WorkTypes'
  <2>1. Erased(checkpoint[j]) \in Checkpoints
    BY <1>1 DEF Erased, Checkpoints
  <2> QED BY <1>1, <1>3, <1>6, <2>1 DEF CleanUp
<1>7. ASSUME NEW j \in Jobs, Dispatch(j) \/ LeaseExpires(j) \/ BackoffEnds(j)
      PROVE  WorkTypes'
  BY <1>2, <1>7 DEF Dispatch, RowEnds, Withdraw, AskHuman, Close, QueueReply,
     LeaseExpires, BackoffEnds
<1>8. CASE UpdateResponse
  <2>1. \A j \in Jobs : [checkpoint[j] EXCEPT !.revoked = TRUE] \in Checkpoints
    BY <1>1 DEF Checkpoints
  <2> QED BY <1>1, <1>8, <2>1 DEF UpdateResponse, budgetVars
<1>9. CASE CallElsewhere \/ Midnight
  BY <1>1, <1>9 DEF CallElsewhere, Midnight
<1>10. CASE Inbound \/ Outside \/ UpdateSettings \/ UNCHANGED vars
  BY <1>2, <1>10 DEF Inbound, Outside, UpdateSettings, vars
<1>11. ASSUME NEW w \in Workers, Crash(w) PROVE WorkTypes'
  BY <1>2, <1>11 DEF Crash
<1> QED
  BY <1>4, <1>5, <1>6, <1>7, <1>8, <1>9, <1>10, <1>11 DEF Next

LEMMA TypeStep == ASSUME IInv, [Next]_vars PROVE TypeOK'
BY JobTypesStep, PolicyTypesStep, WorkTypesStep, WorkerTypesStep, Types

LEMMA KnowsStep == ASSUME IInv, [Next]_vars PROVE \A w \in Workers : WorkerKnows(w)'
<1> SUFFICES ASSUME NEW v \in Workers PROVE WorkerKnows(v)'
  OBVIOUS
<1> USE JobsAreNumbers DEF WorkerKnows
<1>1. WorkerKnows(v) /\ WorkerTypes /\ JobTypes
  BY Types DEF IInv
<1>2. CASE UNCHANGED <<pc, on, held>>
  BY <1>1, <1>2
<1>3. ASSUME NEW w \in Workers, Leave(w) PROVE WorkerKnows(v)'
  BY <1>1, <1>3 DEF Leave, WorkerTypes
<1>4. ASSUME NEW w \in Workers, pc[w] # "idle", UNCHANGED <<on, held>>,
             NEW step, pc' = [pc EXCEPT ![w] = step]
      PROVE  WorkerKnows(v)'
  BY <1>1, <1>4, AtWork DEF WorkerTypes
<1>5. ASSUME NEW w \in Workers, Step(w) PROVE WorkerKnows(v)'
  <2>1. pc[w] # "idle"
    BY <1>5, StepKinds
  <2>2. ASSUME NEW step, NEW s, Go(w, step, s) PROVE WorkerKnows(v)'
    BY <1>4, <2>1, <2>2 DEF Go
  <2>3. ASSUME NEW s, After(w, s) PROVE WorkerKnows(v)'
    BY <2>2, <2>3 DEF After, Finish
  <2>4. CASE \E error : Fail(w, error)
    BY <1>3, <2>4 DEF Fail
  <2>5. CASE Commit(w)
    BY <1>3, <2>5 DEF Commit
  <2> QED BY <1>5, <2>2, <2>3, <2>4, <2>5, StepKinds
          DEF Snapshot, Reserve, Mark, Call, NoCall, Answer, Outcome, Finish
<1>6. ASSUME NEW w \in Workers, NEW j \in Jobs, Claim(w, j) PROVE WorkerKnows(v)'
  <2>1. attempts[j] \in 0..MaxAttempts
    BY <1>1 DEF JobTypes
  <2>2. attempts[j] + 1 >= 1
    BY <2>1, AIJobsAssumption
  <2> QED BY <1>1, <1>6, <2>2 DEF Claim, WorkerTypes
<1>7. ASSUME NEW w \in Workers, NEW j \in Jobs, Take(w, j) PROVE WorkerKnows(v)'
  BY <1>2, <1>6, <1>7 DEF Take, CancelStale, Exhaust, workerVars
<1>8. ASSUME NEW w \in Workers, Crash(w) PROVE WorkerKnows(v)'
  BY <1>3, <1>8 DEF Crash
<1>9. ASSUME NEW j \in Jobs,
             Dispatch(j) \/ CleanUp(j) \/ LeaseExpires(j) \/ BackoffEnds(j)
      PROVE  WorkerKnows(v)'
  BY <1>2, <1>9 DEF Dispatch, RowEnds, Withdraw, AskHuman, Close, QueueReply,
     CleanUp, LeaseExpires, BackoffEnds, workerVars
<1>10. CASE \/ Inbound \/ Outside \/ UpdateSettings \/ UpdateResponse
            \/ CallElsewhere \/ Midnight \/ UNCHANGED vars
  BY <1>2, <1>10 DEF Inbound, Outside, UpdateSettings, UpdateResponse,
     CallElsewhere, Midnight, vars, workerVars
<1> QED BY <1>5, <1>7, <1>8, <1>9, <1>10 DEF Next

-----------------------------------------------------------------------------
(* What a step may do to the row of one job.                               *)

Rests(j) ==
    /\ status'[j] = status[j] /\ token'[j] = token[j] /\ applied'[j] = applied[j]
    /\ j \in queued' <=> j \in queued

Ends(j) ==
    /\ status[j] # "absent" /\ status'[j] \in Terminal
    /\ token'[j] \in {0, token[j]} /\ (token'[j] # 0 => status'[j] = "cancelled")
    /\ j \notin queued' /\ applied'[j] = applied[j]

Arrives(j) ==
    /\ j = inbound + 1 /\ inbound' = j /\ status'[j] = "pending"
    /\ token'[j] = token[j] /\ applied'[j] = applied[j]
    /\ j \in queued' <=> j \in queued

Starts(j) ==
    /\ inbound = j /\ Older(j) = {} /\ status[j] \in {"pending", "retry", "running"}
    /\ status'[j] = "running" /\ applied'[j] = applied[j]
    /\ j \notin queued'

\* Only the holder of the token, or the claim of the oldest job, gives up on the
\* generation or writes its reply.
Settles(j) ==
    /\ \/ token[j] # 0
       \/ Older(j) = {} /\ status[j] \in {"pending", "retry", "running"}
    /\ token'[j] = 0 /\ status'[j] \in {"retry", "ready"} /\ j \notin queued'
    /\ \/ applied'[j] = applied[j]
       \/ token[j] # 0 /\ status'[j] = "ready" /\ applied'[j] = applied[j] + 1

Queues(j) ==
    /\ inbound = j /\ status[j] = "ready" /\ status'[j] = "ready"
    /\ token'[j] = token[j] /\ applied'[j] = applied[j]

Moves(j) == Arrives(j) \/ Starts(j) \/ Settles(j) \/ Queues(j) \/ Ends(j)

OneMoves(j) == Moves(j) /\ \A k \in Jobs \ {j} : Rests(k)

Moved ==
    /\ inbound' >= inbound
    /\ \/ \A j \in Jobs : Rests(j) \/ Ends(j)
       \/ \E j \in Jobs : OneMoves(j)

LEMMA KnownTypes ==
    ASSUME IInv
    PROVE  JobTypes /\ PolicyTypes /\ WorkTypes /\ WorkerTypes /\ events \in Nat
BY Types DEF IInv

LEMMA FailMoves ==
    ASSUME IInv, NEW w \in Workers, NEW error, Fail(w, error), pc[w] # "idle"
    PROVE  Moved
<1> DEFINE j == on[w]
<1>1. j \in Jobs /\ JobTypes /\ PolicyTypes /\ WorkTypes /\ JobKnown(j)
  BY AtWork, KnownTypes DEF IInv
<1>2. UNCHANGED <<inbound, applied, queued>>
  BY FailEffect DEF policyVars
<1>3. inbound' >= inbound
  BY <1>1, <1>2 DEF PolicyTypes
<1>4. CASE UNCHANGED <<status, token>>
  BY <1>2, <1>3, <1>4 DEF Moved, Rests
<1>5. CASE ~UNCHANGED <<status, token>>
  <2>1. token[j] # 0 /\ token' = [token EXCEPT ![j] = 0]
    BY <1>5, FailEffect
  <2>2. PICK st \in {"cancelled", "retry", "ready"} : status' = [status EXCEPT ![j] = st]
    BY <1>5, FailEffect
  <2>3. \A k \in Jobs \ {j} : Rests(k)
    BY <1>1, <1>2, <2>1, <2>2 DEF Rests, JobTypes
  <2>4. status'[j] = st /\ token'[j] = 0 /\ applied'[j] = applied[j]
    BY <1>1, <1>2, <2>1, <2>2 DEF JobTypes
  <2>5. status[j] \in {"running", "cancelled"} /\ j \notin queued'
    BY <1>1, <1>2, <2>1 DEF JobKnown
  <2>6. Moves(j)
    BY <2>1, <2>2, <2>4, <2>5 DEF Moves, Ends, Settles, Terminal
  <2> QED BY <1>1, <1>3, <2>3, <2>6 DEF Moved, OneMoves
<1> QED BY <1>4, <1>5

LEMMA CommitMoves ==
    ASSUME IInv, NEW w \in Workers, Commit(w), pc[w] # "idle"
    PROVE  Moved
<1> DEFINE j == on[w]
<1>1. j \in Jobs /\ JobTypes /\ PolicyTypes /\ WorkTypes /\ JobKnown(j)
  BY AtWork, KnownTypes DEF IInv
<1>2. /\ UNCHANGED <<inbound, queued>>
      /\ status[j] = "running" /\ token[j] = held[w]
      /\ status' = [status EXCEPT ![j] = "ready"]
      /\ token' = [token EXCEPT ![j] = 0]
      /\ applied' = [applied EXCEPT ![j] = @ + 1]
  BY DEF Commit, May, Owned, policyVars
<1>3. token[j] # 0 /\ j \notin queued'
  BY <1>1, <1>2, AtWork DEF JobKnown
<1>4. \A k \in Jobs \ {j} : Rests(k)
  BY <1>1, <1>2 DEF Rests, JobTypes, WorkTypes
<1>5. Settles(j)
  BY <1>1, <1>2, <1>3 DEF Settles, JobTypes, WorkTypes
<1>6. inbound' >= inbound
  BY <1>1, <1>2 DEF PolicyTypes
<1> QED BY <1>1, <1>4, <1>5, <1>6 DEF Moved, OneMoves, Moves

LEMMA TakeMoves ==
    ASSUME IInv, NEW w \in Workers, NEW j \in Jobs, Take(w, j)
    PROVE  Moved
<1>1. JobTypes /\ PolicyTypes /\ JobKnown(j)
  BY KnownTypes DEF IInv
<1>2. /\ UNCHANGED <<inbound, applied, queued>>
      /\ status[j] \in {"pending", "retry", "running"} /\ Older(j) = {}
  BY DEF Take, Claim, CancelStale, Exhaust, Candidate, Claimable, policyVars
<1>3. inbound' >= inbound /\ j \notin queued'
  BY <1>1, <1>2 DEF PolicyTypes, JobKnown
<1>4. CASE Claim(w, j)
  <2>1. Starts(j)
    BY <1>1, <1>2, <1>3, <1>4 DEF Starts, Claim, Eligible, JobTypes
  <2>2. \A k \in Jobs \ {j} : Rests(k)
    BY <1>1, <1>2, <1>4 DEF Rests, Claim, JobTypes
  <2> QED BY <1>3, <2>1, <2>2 DEF Moved, OneMoves, Moves
<1>5. CASE CancelStale(j)
  <2>1. Ends(j)
    BY <1>1, <1>2, <1>3, <1>5 DEF Ends, CancelStale, JobTypes, Terminal
  <2>2. \A k \in Jobs \ {j} : Rests(k)
    BY <1>1, <1>2, <1>5 DEF Rests, CancelStale, JobTypes
  <2> QED BY <1>3, <2>1, <2>2 DEF Moved, OneMoves, Moves
<1>6. CASE Exhaust(j)
  <2>1. Settles(j)
    BY <1>1, <1>2, <1>3, <1>6 DEF Settles, Exhaust, JobTypes
  <2>2. \A k \in Jobs \ {j} : Rests(k)
    BY <1>1, <1>2, <1>6 DEF Rests, Exhaust, JobTypes
  <2> QED BY <1>3, <2>1, <2>2 DEF Moved, OneMoves, Moves
<1> QED BY <1>4, <1>5, <1>6 DEF Take

LEMMA DispatchMoves ==
    ASSUME IInv, NEW j \in Jobs, Dispatch(j)
    PROVE  Moved
<1>1. JobTypes /\ PolicyTypes /\ JobKnown(j)
  BY KnownTypes DEF IInv
<1>2. status[j] = "ready" /\ token[j] = 0
  BY <1>1 DEF Dispatch, RowEnds, Withdraw, AskHuman, Close, QueueReply, JobKnown
<1>3. UNCHANGED <<inbound, token, applied>>
  BY DEF Dispatch, RowEnds, Withdraw, AskHuman, Close, QueueReply, policyVars
<1>4. inbound' >= inbound
  BY <1>1, <1>3 DEF PolicyTypes
<1>5. ASSUME NEW st \in Terminal, Close(j, st) PROVE Moved
  <2>1. Ends(j)
    BY <1>1, <1>2, <1>3, <1>5 DEF Ends, Close, JobTypes
  <2>2. \A k \in Jobs \ {j} : Rests(k)
    BY <1>1, <1>3, <1>5 DEF Rests, Close, JobTypes
  <2> QED BY <1>4, <2>1, <2>2 DEF Moved, OneMoves, Moves
<1>6. CASE QueueReply(j)
  <2>1. Queues(j)
    BY <1>3, <1>6 DEF Queues, QueueReply, Eligible
  <2>2. \A k \in Jobs \ {j} : Rests(k)
    BY <1>3, <1>6 DEF Rests, QueueReply
  <2> QED BY <1>4, <2>1, <2>2 DEF Moved, OneMoves, Moves
<1> QED BY <1>5, <1>6 DEF Dispatch, RowEnds, Withdraw, AskHuman, Terminal

LEMMA InboundMoves ==
    ASSUME IInv, Inbound
    PROVE  Moved
<1>1. JobTypes /\ PolicyTypes
  BY KnownTypes
<1>2. inbound + 1 \in Jobs /\ inbound' = inbound + 1 /\ inbound' >= inbound
  BY <1>1, AIJobsAssumption DEF Inbound, PolicyTypes, Jobs
<1>3. UNCHANGED <<token, applied, queued>>
  BY DEF Inbound
<1>4. CASE UNCHANGED status
  BY <1>2, <1>3, <1>4 DEF Moved, Rests
<1>5. CASE status' = [status EXCEPT ![inbound + 1] = "pending"]
  <2>1. Arrives(inbound + 1)
    BY <1>1, <1>2, <1>3, <1>5 DEF Arrives, JobTypes
  <2>2. \A k \in Jobs \ {inbound + 1} : Rests(k)
    BY <1>1, <1>2, <1>3, <1>5 DEF Rests, JobTypes
  <2> QED BY <1>2, <2>1, <2>2 DEF Moved, OneMoves, Moves
<1> QED BY <1>4, <1>5 DEF Inbound

LEMMA MoveStep == ASSUME IInv, [Next]_vars PROVE Moved
<1>1. JobTypes /\ PolicyTypes
  BY KnownTypes
<1>2. CASE UNCHANGED <<inbound, status, token, applied, queued>>
  BY <1>1, <1>2 DEF Moved, Rests, PolicyTypes
<1>3. ASSUME NEW w \in Workers, Step(w) PROVE Moved
  BY <1>2, <1>3, StepKinds, FailMoves, CommitMoves DEF policyVars, jobVars
<1>4. CASE UpdateSettings
  <2>1. \A j \in Jobs : Rests(j) \/ Ends(j)
    <3> SUFFICES ASSUME NEW j \in Jobs PROVE Rests(j) \/ Ends(j)
      OBVIOUS
    <3>1. queued' = {} /\ applied' = applied
      BY <1>4 DEF UpdateSettings
    <3>2. CASE status[j] \in Active
      BY <1>1, <1>4, <3>1, <3>2 DEF UpdateSettings, Ends, Active, Terminal
    <3>3. CASE status[j] \notin Active
      <4>1. j \notin queued
        BY <3>3 DEF IInv, JobKnown, Active
      <4> QED BY <1>1, <1>4, <3>1, <3>3, <4>1 DEF UpdateSettings, Rests
    <3> QED BY <3>2, <3>3
  <2> QED BY <1>1, <1>4, <2>1 DEF Moved, UpdateSettings, PolicyTypes
<1>5. ASSUME NEW j \in Jobs, CleanUp(j) \/ LeaseExpires(j) \/ BackoffEnds(j)
      PROVE  Moved
  BY <1>2, <1>5 DEF CleanUp, LeaseExpires, BackoffEnds, policyVars, jobVars
<1>6. ASSUME NEW w \in Workers, Crash(w) PROVE Moved
  BY <1>2, <1>6 DEF Crash, policyVars, jobVars
<1>7. CASE Outside \/ UpdateResponse \/ CallElsewhere \/ Midnight \/ UNCHANGED vars
  BY <1>2, <1>7 DEF Outside, UpdateResponse, CallElsewhere, Midnight, policyVars,
     jobVars, vars
<1> QED BY <1>3, <1>4, <1>5, <1>6, <1>7, InboundMoves, TakeMoves, DispatchMoves
        DEF Next

LEMMA KnownStep == ASSUME IInv, [Next]_vars PROVE \A j \in Jobs : JobKnown(j)'
<1> SUFFICES ASSUME NEW j \in Jobs PROVE JobKnown(j)'
  OBVIOUS
<1>1. JobTypes /\ PolicyTypes /\ WorkTypes /\ JobKnown(j)
  BY KnownTypes DEF IInv
<1>2. inbound \in Nat /\ inbound' \in Nat /\ j \in Nat /\ inbound' >= inbound
  BY <1>1, MoveStep, PolicyTypesStep, JobsAreNumbers DEF PolicyTypes, Moved
<1>3. applied[j] \in Nat /\ token[j] \in Nat
  BY <1>1, AIJobsAssumption DEF WorkTypes, JobTypes
<1>4. Rests(j) \/ Moves(j)
  BY MoveStep DEF Moved, OneMoves, Moves
<1>5. CASE Rests(j)
  BY <1>1, <1>2, <1>5 DEF Rests, JobKnown
<1>6. CASE Arrives(j)
  BY <1>1, <1>2, <1>3, <1>6 DEF Arrives, JobKnown
<1>7. CASE Ends(j)
  BY <1>1, <1>2, <1>3, <1>7 DEF Ends, JobKnown, Terminal
<1>8. CASE Starts(j)
  BY <1>1, <1>2, <1>3, <1>8 DEF Starts, JobKnown
<1>9. CASE Settles(j)
  BY <1>1, <1>2, <1>3, <1>9 DEF Settles, JobKnown
<1>10. CASE Queues(j)
  BY <1>1, <1>2, <1>3, <1>10 DEF Queues, JobKnown
<1> QED BY <1>4, <1>5, <1>6, <1>7, <1>8, <1>9, <1>10 DEF Moves

\* The heart of the matter: the claim looks only at the newest message and only
\* when no older job is active, so neither a run nor a queued reply is overtaken.
LEMMA OrderStep == ASSUME IInv, [Next]_vars PROVE \A j, k \in Jobs : InOrder(j, k)'
<1> SUFFICES ASSUME NEW j \in Jobs, NEW k \in Jobs, j < k PROVE InOrder(j, k)'
  BY DEF InOrder
<1>1. /\ JobTypes /\ PolicyTypes
      /\ JobKnown(j) /\ JobKnown(k) /\ InOrder(j, k)
  BY KnownTypes DEF IInv
<1>2. j \in Nat /\ k \in Nat /\ inbound \in Nat /\ token[k] \in Nat
  BY <1>1, JobsAreNumbers, AIJobsAssumption DEF PolicyTypes, JobTypes
<1>3. status[j] \in Active => Older(k) # {}
  BY DEF Older
<1>4. \/ (Rests(j) \/ Ends(j)) /\ (Rests(k) \/ Ends(k))
      \/ Rests(j) /\ Moves(k)
      \/ Moves(j) /\ Rests(k)
  <2>1. j # k
    BY <1>2
  <2> QED BY <2>1, MoveStep DEF Moved, OneMoves
<1>5. CASE (Rests(j) \/ Ends(j)) /\ (Rests(k) \/ Ends(k))
  BY <1>1, <1>2, <1>5 DEF Rests, Ends, Terminal, InOrder
<1>6. CASE Rests(j) /\ Moves(k)
  <2>1. status[j] = "running" \/ j \in queued => status[j] \in Active
    BY <1>1 DEF JobKnown, Active
  <2>2. CASE Arrives(k)
    BY <1>1, <1>2, <1>6, <2>2 DEF Arrives, Rests, InOrder
  <2>3. CASE Ends(k)
    BY <1>1, <1>2, <1>6, <2>3 DEF Ends, Rests, InOrder, Terminal
  <2>4. CASE Starts(k)
    BY <1>3, <1>6, <2>1, <2>4 DEF Starts, Rests, InOrder
  <2>5. CASE Settles(k)
    BY <1>1, <1>3, <1>6, <2>1, <2>5 DEF Settles, Rests, InOrder
  <2>6. CASE Queues(k)
    BY <1>1, <1>6, <2>6 DEF Queues, Rests, InOrder
  <2> QED BY <1>6, <2>2, <2>3, <2>4, <2>5, <2>6 DEF Moves
<1>7. CASE Moves(j) /\ Rests(k)
  <2>1. inbound = j => status[k] = "absent" /\ token[k] = 0
    BY <1>1, <1>2 DEF JobKnown
  <2>2. CASE Starts(j) \/ Queues(j)
    BY <1>7, <2>1, <2>2 DEF Starts, Queues, Rests, InOrder
  <2>3. CASE Arrives(j)
    BY <1>1, <1>7, <2>3 DEF Arrives, Rests, InOrder
  <2>4. CASE Ends(j)
    BY <2>4 DEF Ends, InOrder, Terminal
  <2>5. CASE Settles(j)
    BY <2>5 DEF Settles, InOrder
  <2> QED BY <1>7, <2>2, <2>3, <2>4, <2>5 DEF Moves
<1> QED BY <1>4, <1>5, <1>6, <1>7

-----------------------------------------------------------------------------
(* The budget.                                                             *)

\* What a step may do to the reserved calls: give some back, reserve those a
\* response still lacks, or turn one into a call.
GivesBack ==
    /\ \A j \in Jobs : reserved'[j] \subseteq reserved[j]
    /\ charged' \in {0, charged} /\ UNCHANGED <<slots, calls>>

Reserves(j) ==
    LET missing == Response \ slots[j] IN
    /\ Fits(Cardinality(missing))
    /\ reserved' = [reserved EXCEPT ![j] = @ \cup missing]
    /\ slots' = [slots EXCEPT ![j] = @ \cup missing]
    /\ UNCHANGED <<charged, calls>>

Consumes(j, s) ==
    /\ s \in Response /\ s \in reserved[j]
    /\ reserved' = [reserved EXCEPT ![j] = @ \ {s}]
    /\ charged' = charged + 1
    /\ calls' = [calls EXCEPT ![j][s] = @ + 1]
    /\ UNCHANGED slots

Charges ==
    /\ Fits(1) /\ charged' = charged + 1
    /\ \A j \in Jobs : reserved'[j] \subseteq reserved[j]
    /\ UNCHANGED <<slots, calls>>

LEMMA BudgetMove ==
    ASSUME IInv, [Next]_vars
    PROVE  \/ GivesBack \/ Charges
           \/ \E j \in Jobs : Reserves(j) \/ \E s \in Stages : Consumes(j, s)
<1>1. WorkTypes
  BY KnownTypes
<1>2. ASSUME UNCHANGED budgetVars PROVE GivesBack
  BY <1>2 DEF budgetVars, GivesBack
<1>3. ASSUME NEW j \in Jobs, Release(j), UNCHANGED <<slots, charged, calls>>
      PROVE  GivesBack
  BY <1>1, <1>3 DEF Release, GivesBack, WorkTypes
<1>4. ASSUME NEW w \in Workers, Step(w)
      PROVE  \/ GivesBack \/ Charges
             \/ \E j \in Jobs : Reserves(j) \/ \E s \in Stages : Consumes(j, s)
  <2>1. pc[w] # "idle" /\ on[w] \in Jobs /\ stage[w] \in Stages
    BY <1>4, StepKinds, AtWork
  <2>2. CASE \E error : Fail(w, error)
    <3>1. UNCHANGED <<slots, charged, calls>> /\ (UNCHANGED reserved \/ Release(on[w]))
      BY <2>1, <2>2, FailEffect
    <3> QED BY <1>2, <1>3, <2>1, <3>1 DEF budgetVars
  <2>3. CASE Commit(w) \/ Outcome(w)
    BY <1>3, <2>1, <2>3 DEF Commit, Outcome
  <2>4. CASE Reserve(w)
    BY <1>2, <2>1, <2>4 DEF Reserve, Reserves, budgetVars
  <2>5. CASE Call(w)
    <3>1. CASE stage[w] \in Response
      BY <2>1, <2>5, <3>1 DEF Call, Consumes
    <3>2. CASE stage[w] \notin Response
      BY <1>1, <2>1, <2>5, <3>2 DEF Call, Charges, WorkTypes
    <3> QED BY <3>1, <3>2
  <2>6. CASE Snapshot(w) \/ Mark(w) \/ NoCall(w) \/ Answer(w)
    BY <1>2, <2>2, <2>6 DEF Snapshot, Mark, NoCall, Answer
  <2> QED BY <1>4, <2>2, <2>3, <2>4, <2>5, <2>6, StepKinds
<1>5. ASSUME NEW w \in Workers, NEW j \in Jobs, Take(w, j) PROVE GivesBack
  BY <1>2, <1>3, <1>5 DEF Take, Claim, CancelStale, Exhaust
<1>6. ASSUME NEW j \in Jobs, CleanUp(j) PROVE GivesBack
  BY <1>3, <1>6 DEF CleanUp
<1>7. ASSUME NEW j \in Jobs, Dispatch(j) \/ LeaseExpires(j) \/ BackoffEnds(j)
      PROVE  GivesBack
  BY <1>2, <1>7 DEF Dispatch, RowEnds, Withdraw, AskHuman, Close, QueueReply,
     LeaseExpires, BackoffEnds
<1>8. CASE CallElsewhere \/ Midnight
  BY <1>8 DEF CallElsewhere, Midnight, Charges, GivesBack
<1>9. CASE Inbound \/ Outside \/ UpdateSettings \/ UpdateResponse \/ UNCHANGED vars
  BY <1>2, <1>9 DEF Inbound, Outside, UpdateSettings, UpdateResponse, vars
<1>10. ASSUME NEW w \in Workers, Crash(w) PROVE GivesBack
  BY <1>2, <1>10 DEF Crash
<1> QED BY <1>4, <1>5, <1>6, <1>7, <1>8, <1>9, <1>10 DEF Next

LEMMA CallsStep == ASSUME IInv, [Next]_vars PROVE \A j \in Jobs : CallsKnown(j)'
<1> SUFFICES ASSUME NEW i \in Jobs PROVE CallsKnown(i)'
  OBVIOUS
<1>1. WorkTypes /\ CallsKnown(i)
  BY KnownTypes DEF IInv
<1>2. CASE GivesBack \/ Charges
  BY <1>1, <1>2 DEF GivesBack, Charges, CallsKnown
<1>3. ASSUME NEW j \in Jobs, Reserves(j) PROVE CallsKnown(i)'
  <2>1. CASE i = j
    <3>1. /\ reserved'[i] = reserved[i] \cup (Response \ slots[i])
          /\ slots'[i] = slots[i] \cup (Response \ slots[i])
          /\ calls' = calls
      BY <1>1, <1>3, <2>1 DEF Reserves, WorkTypes
    <3> QED BY <1>1, <3>1 DEF CallsKnown
  <2>2. CASE i # j
    BY <1>1, <1>3, <2>2 DEF Reserves, CallsKnown, WorkTypes
  <2> QED BY <2>1, <2>2
<1>4. ASSUME NEW j \in Jobs, NEW s \in Stages, Consumes(j, s) PROVE CallsKnown(i)'
  <2>1. CASE i = j
    <3>1. /\ reserved'[i] = reserved[i] \ {s} /\ slots' = slots
          /\ s \in Response /\ s \in reserved[i]
          /\ calls'[i] = [calls[i] EXCEPT ![s] = @ + 1]
      BY <1>1, <1>4, <2>1 DEF Consumes, WorkTypes
    <3>2. calls[i][s] = 0 /\ calls[i] \in [Response -> Nat]
      BY <1>1, <3>1 DEF CallsKnown, WorkTypes
    <3>3. calls'[i][s] = 1 /\ s \in slots[i]
      BY <1>1, <3>1, <3>2 DEF CallsKnown
    <3>4. \A r \in Response \ {s} : calls'[i][r] = calls[i][r]
      BY <3>1, <3>2
    <3> QED BY <1>1, <3>1, <3>3, <3>4 DEF CallsKnown
  <2>2. CASE i # j
    <3>1. reserved'[i] = reserved[i] /\ slots'[i] = slots[i] /\ calls'[i] = calls[i]
      BY <1>1, <1>4, <2>2 DEF Consumes, WorkTypes
    <3> QED BY <1>1, <3>1 DEF CallsKnown
  <2> QED BY <2>1, <2>2
<1> QED BY <1>2, <1>3, <1>4, BudgetMove

LEMMA BudgetStep == ASSUME IInv, [Next]_vars PROVE BudgetKept'
<1> DEFINE R == Reservations
           n == Cardinality(R)
<1>1. /\ WorkTypes /\ BudgetKept /\ WorkTypes'
      /\ charged \in Nat /\ charged' \in Nat /\ CallLimit \in Nat
  BY KnownTypes, WorkTypesStep, AIJobsAssumption DEF IInv, WorkTypes
<1>2. IsFiniteSet(R) /\ n \in Nat /\ IsFiniteSet(R') /\ n' \in Nat
  BY FiniteReservations
<1>3. (\A j \in Jobs : reserved'[j] \subseteq reserved[j]) => n' <= n
  <2>1. SUFFICES ASSUME \A j \in Jobs : reserved'[j] \subseteq reserved[j] PROVE n' <= n
    OBVIOUS
  <2>2. R' \subseteq R
    BY <2>1 DEF Reservations
  <2> QED BY <1>2, <2>2, FS_Subset
<1>4. CASE GivesBack
  <2>1. charged + n <= CallLimit
    BY <1>1 DEF BudgetKept
  <2>2. charged' + n' <= CallLimit
    BY <1>1, <1>2, <1>3, <1>4, <2>1 DEF GivesBack
  <2> QED BY <2>2 DEF BudgetKept
<1>5. CASE Charges
  <2>1. charged + n + 1 <= CallLimit
    BY <1>5 DEF Charges, Fits
  <2>2. charged' + n' <= CallLimit
    BY <1>1, <1>2, <1>3, <1>5, <2>1 DEF Charges
  <2> QED BY <2>2 DEF BudgetKept
<1>6. ASSUME NEW j \in Jobs, Reserves(j) PROVE BudgetKept'
  <2> DEFINE missing == Response \ slots[j]
             new == {j} \X missing
  <2>1. IsFiniteSet(missing)
    <3>1. Response = ({} \cup {"render"}) \cup {"review"}
      BY DEF Response
    <3>2. IsFiniteSet(Response)
      BY <3>1, FS_EmptySet, FS_AddElement
    <3> QED BY <3>2, FS_Subset
  <2>2. IsFiniteSet(new) /\ Cardinality(new) = Cardinality(missing)
    <3>1. IsFiniteSet({j}) /\ Cardinality({j}) = 1
      BY FS_Singleton
    <3>2. IsFiniteSet(new) /\ Cardinality(new) = 1 * Cardinality(missing)
      BY <2>1, <3>1, FS_Product
    <3>3. Cardinality(missing) \in Nat
      BY <2>1, FS_CardinalityType
    <3> QED BY <3>2, <3>3
  <2>3. R' \subseteq R \cup new
    BY <1>1, <1>6 DEF Reservations, Reserves, WorkTypes
  <2>4. /\ IsFiniteSet(R \cup new)
        /\ Cardinality(R \cup new) = n + Cardinality(new) - Cardinality(R \cap new)
    BY <1>2, <2>2, FS_Union
  <2>5. IsFiniteSet(R \cap new) /\ Cardinality(R \cap new) \in Nat
    BY <1>2, FS_Subset, FS_CardinalityType
  <2>6. n' <= Cardinality(R \cup new)
    BY <2>3, <2>4, FS_Subset
  <2>7. Cardinality(missing) \in Nat /\ charged' = charged
        /\ charged + n + Cardinality(missing) <= CallLimit
    BY <1>6, <2>1, FS_CardinalityType DEF Reserves, Fits
  <2>8. Cardinality(R \cup new) <= n + Cardinality(missing)
    <3> HIDE DEF n, new, missing
    <3> QED BY <1>2, <2>2, <2>4, <2>5, <2>7
  <2>9. charged' + n' <= CallLimit
    <3>1. Cardinality(R \cup new) \in Nat
      BY <2>4, FS_CardinalityType
    <3>2. n' <= n + Cardinality(missing)
      <4> HIDE DEF n, new, missing
      <4> QED BY <1>2, <2>6, <2>7, <2>8, <3>1
    <3>3. ASSUME NEW c \in Nat, NEW a \in Nat, NEW b \in Nat, NEW m \in Nat,
                 b <= a + m, c + a + m <= CallLimit
          PROVE  c + b <= CallLimit
      BY <1>1, <3>3
    <3> QED BY <1>1, <1>2, <2>7, <3>2, <3>3
  <2> QED BY <2>9 DEF BudgetKept
<1>7. ASSUME NEW j \in Jobs, NEW s \in Stages, Consumes(j, s) PROVE BudgetKept'
  <2>1. <<j, s>> \in R
    BY <1>7 DEF Consumes, Reservations
  <2>2. R' = R \ {<<j, s>>}
    BY <1>1, <1>7 DEF Consumes, Reservations, WorkTypes
  <2>3. Cardinality(R \ {<<j, s>>}) = n - 1
    BY <1>2, <2>1, FS_RemoveElement
  <2>4. n' = n - 1
    BY <2>2, <2>3
  <2>5. charged + n <= CallLimit /\ charged' = charged + 1
    BY <1>1, <1>7 DEF BudgetKept, Consumes
  <2>6. charged' + n' <= CallLimit
    <3> HIDE DEF n
    <3> QED BY <1>1, <1>2, <2>4, <2>5
  <2> QED BY <2>6 DEF BudgetKept
<1> QED BY <1>4, <1>5, <1>6, <1>7, BudgetMove

-----------------------------------------------------------------------------
LEMMA Inductive == IInv /\ [Next]_vars => IInv'
BY TypeStep, BudgetStep, KnowsStep, KnownStep, CallsStep, OrderStep DEF IInv

\* The strengthened invariant of the lane, for all its workers and messages.
THEOREM Invariance == Spec => []IInv
<1> QED BY InitIInv, Inductive, PTL DEF Spec

LEMMA Exact == IInv => JobsAreExact
<1> SUFFICES ASSUME IInv PROVE JobsAreExact
  OBVIOUS
<1>1. BudgetKept /\ CalledOnce /\ AppliedOnce
  BY DEF IInv, CallsKnown, JobKnown, CalledOnce, AppliedOnce
<1>2. OneGeneration
  <2> DEFINE A == {j \in Jobs : status[j] = "running"}
  <2>1. \A j, k \in A : j = k
    BY JobsAreNumbers DEF IInv, InOrder
  <2>2. CASE A = {}
    BY <2>2, FS_EmptySet DEF OneGeneration
  <2>3. CASE A # {}
    <3>1. PICK j \in A : A = {j}
      BY <2>1, <2>3
    <3>2. Cardinality(A) = 1
      BY <3>1, FS_Singleton
    <3> QED BY <3>2 DEF OneGeneration
  <2> QED BY <2>2, <2>3
<1>3. RepliesInTurn
  BY KnownTypes DEF IInv, JobKnown, InOrder, RepliesInTurn, JobTypes
<1> QED BY <1>1, <1>2, <1>3 DEF JobsAreExact

\* Crashed, stale and competing workers never overspend the day's calls, call a
\* response stage twice for a job, answer two messages of a conversation at
\* once, write its memory twice for one message or queue replies out of turn
\* (the claim, the reservations and the commit of the generation lane).
THEOREM ExactJobs == Spec => []JobsAreExact
<1> QED BY Invariance, Exact, PTL

\* The variables of the lane keep their types.
THEOREM Typed == Spec => []TypeOK
<1>1. IInv => TypeOK
  BY DEF IInv
<1> QED BY <1>1, Invariance, PTL
===============================================================================
