--------------------------- MODULE AutomationProofs ---------------------------
(* What the row of an execution tells, and that it is not given up or taken *)
(* back, for any automations, messages, workers, attempts and faults.       *)
EXTENDS Automation, FiniteSetTheorems, TLAPS

\* The inductive invariant.  A worker holds the executions of its batch and the
\* one that it runs; an early holder loaded a count that lets it try again.
Holds(w, e)  == e \in batch[w] \/ row[w] = e
Holders(e)   == {w \in Workers : Holds(w, e)}
Early(e)     == {w \in Workers : row[w] = e /\ loaded[w].tries < MaxAttempts}

\* One claim is still to come, after a retry perhaps.
Due(e) ==
    IF \/ status[e] = "pending" \/ Retryable(e)
       \/ (status[e] = "running" /\ e \in expired)
    THEN 1 ELSE 0

Fresh(e) == status[e] = "absent" => tries[e] = 0 /\ Holders(e) = {}

WorkerKnows(w) ==
    /\ pc[w] = "idle" => batch[w] = {}
    /\ pc[w] \in {"idle", "batch"} => row[w] = NoExecution
    /\ pc[w] \in {"request", "requested"} =>
          /\ row[w] \in matching /\ row[w] \notin batch[w]
          /\ loaded[w].tries <= tries[row[w]]
    /\ pc[w] = "requested" => asked[row[w]] > 0

\* Only a lease that runs out lets a second worker have an execution.
HoldersBounded(e) ==
    /\ IsFiniteSet(Holders(e))
    /\ Cardinality(Holders(e)) + Due(e) <= 1 + lapses[e]

\* When its attempts are used up, an early holder can still have it claimed.
EarlyBounded(e) ==
    tries[e] >= MaxAttempts =>
        tries[e] + Cardinality(Early(e)) + Due(e) <= MaxAttempts + lapses[e]

Exclusive(e) ==
    /\ lapses[e] = 0 /\ Holders(e) # {} => status[e] = "running"
    /\ e \in expired => lapses[e] > 0

Counted(e) == Fresh(e) /\ HoldersBounded(e) /\ EarlyBounded(e) /\ Exclusive(e)

Truthful(e) ==
    /\ status[e] = "succeeded" => asked[e] > 0 /\ e \in matching
    /\ Retryable(e) => e \in unusable

IInv ==
    /\ TypeOK
    /\ \A w \in Workers : WorkerKnows(w)
    /\ \A e \in Executions : Counted(e) /\ Truthful(e)

-----------------------------------------------------------------------------
LEMMA InitIInv == Init => IInv
<1> SUFFICES ASSUME Init PROVE IInv
  OBVIOUS
<1> USE AutomationAssumption DEF Init
<1>1. TypeOK
  BY DEF TypeOK, Lifecycles, Statuses, Stages, Nothing
<1>2. \A w \in Workers : WorkerKnows(w)
  BY DEF WorkerKnows
<1>3. ASSUME NEW e \in Executions PROVE Counted(e) /\ Truthful(e)
  <2>1. Holders(e) = {} /\ Early(e) = {}
    BY DEF Holders, Early, Holds, Executions
  <2>2. Due(e) = 0
    BY DEF Due, Retryable
  <2> QED
    BY <2>1, <2>2, FS_EmptySet
    DEF Counted, Fresh, HoldersBounded, EarlyBounded, Exclusive, Truthful, Retryable
<1> QED BY <1>1, <1>2, <1>3 DEF IInv

LEMMA TypeStep == ASSUME IInv, [Next]_vars PROVE TypeOK'
<1> USE AutomationAssumption
        DEF IInv, TypeOK, Statuses, Lifecycles, Stages, Nothing, definitionVars,
            snapshotVars, executionVars, historyVars, workerVars
<1>1. ASSUME NEW d \in Automations, Manage(d) PROVE TypeOK'
  BY <1>1 DEF Manage, Create, Activate, Stop
<1>2. CASE AgentActs
  BY <1>2 DEF AgentActs
<1>3. ASSUME NEW m \in Messages, ReadActive(m) PROVE TypeOK'
  BY <1>3 DEF ReadActive
<1>4. ASSUME NEW m \in Messages, RecordInbound(m) PROVE TypeOK'
  BY <1>4 DEF RecordInbound, Executions
<1>5. ASSUME NEW w \in Workers, NEW s \in SUBSET Executions, Claim(w, s) PROVE TypeOK'
  BY <1>5 DEF Claim
<1>6. ASSUME NEW w \in Workers, Run(w) PROVE TypeOK'
  <2>1. PICK e \in batch[w] :
          /\ batch' = [batch EXCEPT ![w] = @ \ {e}]
          /\ \/ /\ row' = [row EXCEPT ![w] = e]
                /\ loaded' = [loaded EXCEPT ![w] =
                                [status |-> status[e], tries |-> tries[e]]]
                /\ pc' = [pc EXCEPT ![w] = "request"]
                /\ UNCHANGED status
             \/ /\ status' = [status EXCEPT ![e] =
                                IF e \in unusable THEN "failed" ELSE "skipped"]
                /\ Advance(w, batch[w] \ {e})
    BY <1>6 DEF Run
  <2>2. e \in Executions /\ e \in Automations \X Messages
    BY <2>1 DEF Executions
  <2>3. /\ row' \in [Workers -> Executions \cup {NoExecution}]
        /\ loaded' \in [Workers -> [status : Statuses, tries : Nat]]
        /\ pc' \in [Workers -> Stages]
        /\ status' \in [Executions -> Statuses]
    <3>1. CASE /\ row' = [row EXCEPT ![w] = e]
               /\ loaded' = [loaded EXCEPT ![w] =
                                [status |-> status[e], tries |-> tries[e]]]
               /\ pc' = [pc EXCEPT ![w] = "request"]
               /\ UNCHANGED status
      BY <2>2, <3>1
    <3>2. CASE /\ status' = [status EXCEPT ![e] =
                               IF e \in unusable THEN "failed" ELSE "skipped"]
               /\ Advance(w, batch[w] \ {e})
      BY <2>2, <3>2 DEF Advance
    <3> QED BY <2>1, <3>1, <3>2
  <2>4. batch' \in [Workers -> SUBSET Executions]
    BY <2>1
  <2>5. UNCHANGED <<definitionVars, tries, snapshotVars, backoff, expired, handoff,
                    historyVars>>
    BY <1>6 DEF Run
  <2> QED BY <2>3, <2>4, <2>5
<1>7. ASSUME NEW w \in Workers, Request(w) PROVE TypeOK'
  BY <1>7 DEF Request, WorkerKnows
<1>8. ASSUME NEW w \in Workers, Succeed(w) PROVE TypeOK'
  BY <1>8 DEF Succeed, Advance
<1>9. ASSUME NEW w \in Workers, Conflict(w) PROVE TypeOK'
  BY <1>9 DEF Conflict, Advance, Write
<1>10. ASSUME NEW w \in Workers, Fail(w) PROVE TypeOK'
  <2>1. row[w] \in Executions
    BY <1>10 DEF Fail, WorkerKnows
  <2> QED BY <1>10, <2>1 DEF Fail, Advance, Write, AfterError
<1>11. ASSUME NEW w \in Workers, Crash(w) PROVE TypeOK'
  BY <1>11 DEF Crash
<1>12. ASSUME NEW e \in Executions,
              BackoffEnds(e) \/ RetryExecution(e) \/ LeaseExpires(e)
       PROVE  TypeOK'
  <2>1. CASE BackoffEnds(e) \/ LeaseExpires(e)
    BY <2>1 DEF BackoffEnds, LeaseExpires
  <2>2. CASE RetryExecution(e)
    BY <2>2 DEF RetryExecution
  <2> QED BY <1>12, <2>1, <2>2
<1>13. CASE UNCHANGED vars
  BY <1>13 DEF vars
<1> QED
  BY <1>1, <1>2, <1>3, <1>4, <1>5, <1>6, <1>7, <1>8, <1>9, <1>10, <1>11,
     <1>12, <1>13
  DEF Next, Step

\* No step takes a history, a count or a match back.
Grown ==
    /\ matching \subseteq matching' /\ unusable \subseteq unusable'
    /\ \A e \in Executions :
          /\ tries'[e] >= tries[e] /\ asked'[e] >= asked[e]
          /\ lapses'[e] >= lapses[e]

LEMMA GrownStep == ASSUME IInv, [Next]_vars PROVE Grown
<1> USE AutomationAssumption
        DEF IInv, TypeOK, Grown, definitionVars, snapshotVars, executionVars,
            historyVars, workerVars
<1>1. ASSUME NEW d \in Automations, Manage(d) PROVE Grown
  BY <1>1 DEF Manage, Create, Activate, Stop
<1>2. CASE AgentActs
  BY <1>2 DEF AgentActs
<1>3. ASSUME NEW m \in Messages, ReadActive(m) \/ RecordInbound(m) PROVE Grown
  BY <1>3 DEF ReadActive, RecordInbound
<1>4. ASSUME NEW w \in Workers, NEW s \in SUBSET Executions, Claim(w, s) PROVE Grown
  BY <1>4 DEF Claim
<1>5. ASSUME NEW w \in Workers, Request(w) PROVE Grown
  BY <1>5 DEF Request
<1>6. ASSUME NEW w \in Workers, Run(w) \/ Succeed(w) \/ Conflict(w) \/ Fail(w)
                                  \/ Crash(w)
      PROVE  Grown
  BY <1>6 DEF Run, Succeed, Conflict, Fail, Crash
<1>7. ASSUME NEW e \in Executions,
             BackoffEnds(e) \/ RetryExecution(e) \/ LeaseExpires(e)
      PROVE  Grown
  BY <1>7 DEF BackoffEnds, RetryExecution, LeaseExpires
<1>8. CASE UNCHANGED vars
  BY <1>8 DEF vars
<1> QED
  BY <1>1, <1>2, <1>3, <1>4, <1>5, <1>6, <1>7, <1>8 DEF Next, Step

LEMMA KnowsStep ==
    ASSUME IInv, [Next]_vars, NEW v \in Workers PROVE WorkerKnows(v)'
<1>1. Grown
  BY GrownStep
<1> USE AutomationAssumption
<1>2. TypeOK /\ TypeOK' /\ WorkerKnows(v)
  BY TypeStep DEF IInv
<1>3. CASE UNCHANGED <<pc[v], batch[v], row[v], loaded[v]>>
  BY <1>1, <1>2, <1>3 DEF WorkerKnows, Grown, TypeOK
<1>4. ASSUME NEW s \in SUBSET Executions, Claim(v, s) PROVE WorkerKnows(v)'
  BY <1>2, <1>4 DEF Claim, WorkerKnows, TypeOK
<1>5. CASE Run(v)
  <2>1. PICK e \in batch[v] :
          /\ batch' = [batch EXCEPT ![v] = @ \ {e}]
          /\ \/ /\ e \in matching
                /\ row' = [row EXCEPT ![v] = e]
                /\ loaded' = [loaded EXCEPT ![v] =
                                [status |-> status[e], tries |-> tries[e]]]
                /\ pc' = [pc EXCEPT ![v] = "request"]
             \/ Advance(v, batch[v] \ {e})
    BY <1>5 DEF Run
  <2>2. tries' = tries /\ matching' = matching /\ e \in Executions
    BY <1>2, <1>5, <2>1 DEF Run, TypeOK, snapshotVars
  <2> QED BY <1>2, <2>1, <2>2 DEF WorkerKnows, Advance, TypeOK
<1>6. CASE Request(v)
  BY <1>2, <1>6 DEF Request, WorkerKnows, TypeOK, executionVars, snapshotVars
<1>7. CASE Succeed(v) \/ Conflict(v) \/ Fail(v)
  BY <1>2, <1>7 DEF Succeed, Conflict, Fail, Advance, WorkerKnows, TypeOK
<1>8. CASE Crash(v)
  BY <1>2, <1>8 DEF Crash, WorkerKnows, TypeOK
<1>9. ASSUME ~\E s \in SUBSET Executions : Claim(v, s),
             ~Step(v), ~Crash(v)
      PROVE  UNCHANGED <<pc[v], batch[v], row[v], loaded[v]>>
  <2>1. CASE UNCHANGED workerVars
    BY <2>1 DEF workerVars
  <2>2. ASSUME NEW w \in Workers, w # v,
               Step(w) \/ Crash(w) \/ \E s \in SUBSET Executions : Claim(w, s)
        PROVE  UNCHANGED <<pc[v], batch[v], row[v], loaded[v]>>
    BY <1>2, <2>2 DEF Step, Run, Request, Succeed, Conflict, Fail, Advance, Crash,
       Claim, TypeOK
  <2>3. ASSUME UNCHANGED vars
               \/ (\E d \in Automations : Manage(d)) \/ AgentActs
               \/ (\E m \in Messages : ReadActive(m) \/ RecordInbound(m))
               \/ (\E e \in Executions :
                      BackoffEnds(e) \/ RetryExecution(e) \/ LeaseExpires(e))
        PROVE  UNCHANGED workerVars
    BY <2>3 DEF vars, Manage, Create, Activate, Stop, AgentActs, ReadActive,
       RecordInbound, BackoffEnds, RetryExecution, LeaseExpires
  <2> QED BY <1>9, <2>1, <2>2, <2>3 DEF Next
<1> QED BY <1>3, <1>4, <1>5, <1>6, <1>7, <1>8, <1>9 DEF Step

-----------------------------------------------------------------------------
(* What a step may do to an execution, as far as its count is concerned.   *)

\* Nobody new has it, and nobody else will be let at it.
Unmoved(e) ==
    /\ Holders(e)' \subseteq Holders(e)
    /\ tries[e] >= MaxAttempts => Early(e)' \subseteq Early(e)
    /\ tries'[e] = tries[e] /\ lapses'[e] = lapses[e]
    /\ Due(e)' <= Due(e)
    /\ status'[e] = "absent" => status[e] = "absent"
    /\ status[e] = "running" => status'[e] = "running"
    /\ status[e] \in Settled /\ Holders(e) = {} =>
          /\ asked'[e] = asked[e]
          /\ \/ status'[e] = status[e]
             \/ Retryable(e) /\ status'[e] = "pending"
    /\ e \in expired' => e \in expired

Created(e) ==
    /\ status[e] = "absent" /\ status'[e] = "pending" /\ Holders(e)' = {}
    /\ tries'[e] = tries[e] /\ lapses'[e] = lapses[e]
    /\ e \in expired' => e \in expired

Taken(e, w) ==
    /\ Due(e) = 1 /\ status[e] \in {"pending", "running"} /\ status'[e] = "running"
    /\ Holders(e)' = Holders(e) \cup {w} /\ Early(e)' = Early(e)
    /\ tries'[e] = tries[e] + 1 /\ lapses'[e] = lapses[e]
    /\ e \notin expired'

Returned(e, w) ==
    /\ w \in Holders(e) /\ Holders(e)' \subseteq Holders(e) \ {w}
    /\ Early(e)' \subseteq Early(e) \ {w}
    /\ tries'[e] = tries[e] /\ lapses'[e] = lapses[e]
    /\ status'[e] # "absent"
    /\ Due(e)' > Due(e) => tries[e] < MaxAttempts \/ w \in Early(e)
    /\ e \in expired' => e \in expired

Lapsed(e) ==
    /\ status[e] = "running" /\ status'[e] = "running" /\ Due(e) = 0
    /\ Holders(e)' = Holders(e) /\ Early(e)' = Early(e)
    /\ tries'[e] = tries[e] /\ lapses'[e] = lapses[e] + 1

Move(e) ==
    \/ Unmoved(e) \/ Created(e) \/ Lapsed(e)
    \/ \E w \in Workers : Taken(e, w) \/ Returned(e, w)

LEMMA DueType == \A e : Due(e) \in {0, 1} /\ Due(e)' \in {0, 1}
BY DEF Due

\* Steps that leave the workers and the counts alone.
LEMMA QuietMove ==
    ASSUME IInv, NEW e \in Executions,
           UNCHANGED <<batch, row, loaded, tries, asked, lapses>>,
           \/ UNCHANGED <<status, expired>>
           \/ /\ expired' = expired
              /\ status[e] = "pending" /\ status'[e] = "cancelled"
    PROVE  Unmoved(e)
BY DEF Unmoved, Holders, Early, Holds, Due, Retryable, Settled

LEMMA RunMove ==
    ASSUME IInv, NEW e \in Executions, NEW w \in Workers, Run(w)
    PROVE  Unmoved(e) \/ Returned(e, w)
<1> USE AutomationAssumption
<1>1. TypeOK /\ WorkerKnows(w) /\ Exclusive(e)
  BY DEF IInv, Counted
<1>2. PICK x \in batch[w] :
          /\ batch' = [batch EXCEPT ![w] = @ \ {x}]
          /\ \/ /\ row' = [row EXCEPT ![w] = x]
                /\ loaded' = [loaded EXCEPT ![w] =
                                [status |-> status[x], tries |-> tries[x]]]
                /\ UNCHANGED status
             \/ /\ status' = [status EXCEPT ![x] =
                                IF x \in unusable THEN "failed" ELSE "skipped"]
                /\ Advance(w, batch[w] \ {x})
  BY DEF Run
<1>3. /\ row[w] = NoExecution /\ x \in Executions
      /\ NoExecution \notin Executions
      /\ UNCHANGED <<tries, lapses, expired, asked>>
  BY <1>1, <1>2 DEF Run, WorkerKnows, TypeOK, executionVars, historyVars, Executions
<1>4. CASE row' = [row EXCEPT ![w] = x]
  <2>1. \A v \in Workers : Holds(v, e)' => Holds(v, e)
    BY <1>1, <1>2, <1>4 DEF Holds, TypeOK
  <2>2. status' = status
    <3>1. ~Advance(w, batch[w] \ {x})
      BY <1>1, <1>3, <1>4 DEF Advance, TypeOK
    <3> QED BY <1>2, <3>1
  <2>3. loaded' = [loaded EXCEPT ![w] = [status |-> status[x], tries |-> tries[x]]]
    <3>1. ~Advance(w, batch[w] \ {x})
      BY <1>1, <1>3, <1>4 DEF Advance, TypeOK
    <3> QED BY <1>2, <3>1
  <2>4. tries[e] >= MaxAttempts => \A v \in Workers :
            row'[v] = e /\ loaded'[v].tries < MaxAttempts
              => row[v] = e /\ loaded[v].tries < MaxAttempts
    BY <1>1, <1>3, <1>4, <2>3 DEF TypeOK
  <2> QED
    BY <1>3, <2>1, <2>2, <2>4 DEF Unmoved, Holders, Early, Due, Retryable
<1>5. CASE /\ status' = [status EXCEPT ![x] =
                            IF x \in unusable THEN "failed" ELSE "skipped"]
           /\ Advance(w, batch[w] \ {x})
  <2>1. \A v \in Workers : /\ Holds(v, e)' => Holds(v, e)
                           /\ row'[v] = e => row[v] = e /\ v # w
                           /\ v # w => loaded'[v] = loaded[v]
    BY <1>1, <1>2, <1>3, <1>5 DEF Holds, TypeOK, Advance
  <2>2. CASE x = e
    <3>1. w \in Holders(e) /\ ~Holds(w, e)'
      BY <1>1, <1>2, <1>3, <1>5, <2>2 DEF Holders, Holds, TypeOK, Advance
    <3>2. /\ status'[e] \in {"failed", "skipped"}
          /\ Due(e)' > Due(e) => tries[e] < MaxAttempts
      BY <1>1, <1>3, <1>5, <2>2, DueType DEF TypeOK, Due, Retryable
    <3> QED
      BY <1>3, <2>1, <3>1, <3>2, DueType DEF Returned, Holders, Early
  <2>3. CASE x # e
    <3>1. status'[e] = status[e]
      BY <1>1, <1>5, <2>3 DEF TypeOK
    <3> QED
      BY <1>3, <2>1, <3>1 DEF Unmoved, Holders, Early, Due, Retryable
  <2> QED BY <2>2, <2>3
<1> QED BY <1>2, <1>4, <1>5

LEMMA RequestMove ==
    ASSUME IInv, NEW e \in Executions, NEW w \in Workers, Request(w)
    PROVE  Unmoved(e)
<1>1. /\ TypeOK /\ UNCHANGED <<status, tries, expired, lapses, batch, row, loaded>>
      /\ asked' = [asked EXCEPT ![row[w]] = @ + 1]
  BY DEF IInv, Request, executionVars
<1>2. Holders(e) = {} => row[w] # e
  BY DEF Holders, Holds
<1>3. Holders(e) = {} => asked'[e] = asked[e]
  BY <1>1, <1>2 DEF TypeOK
<1> QED BY <1>1, <1>3 DEF Unmoved, Holders, Early, Holds, Due, Retryable

\* A run that ends writes the execution's status, or finds it written.
LEMMA EndMove ==
    ASSUME IInv, NEW e \in Executions, NEW w \in Workers,
           Succeed(w) \/ Conflict(w) \/ Fail(w)
    PROVE  Unmoved(e) \/ Returned(e, w)
<1> USE AutomationAssumption
<1>1. TypeOK /\ WorkerKnows(w) /\ Fresh(row[w])
  BY DEF IInv, Counted, Succeed, Conflict, Fail, WorkerKnows, TypeOK
<1>2. /\ row[w] \in Executions /\ loaded[w].tries <= tries[row[w]]
      /\ row' = [row EXCEPT ![w] = NoExecution]
      /\ loaded' = [loaded EXCEPT ![w] = Nothing]
      /\ NoExecution \notin Executions
      /\ UNCHANGED <<tries, lapses, expired, asked, batch>>
  BY <1>1 DEF Succeed, Conflict, Fail, Advance, WorkerKnows, TypeOK, historyVars,
     Executions
<1>3. w \in Holders(row[w]) /\ status[row[w]] # "absent"
  BY <1>1 DEF Fresh, Holders, Holds
<1>4. \A v \in Workers : /\ Holds(v, e)' => Holds(v, e)
                         /\ row'[v] = e => row[v] = e /\ v # w
                         /\ v # w => loaded'[v] = loaded[v]
  BY <1>1, <1>2 DEF Holds, TypeOK
<1>5. \A x \in Executions : x # row[w] => status'[x] = status[x]
  BY <1>1, <1>2 DEF Succeed, Conflict, Fail, Write, TypeOK
<1>6. \/ status'[row[w]] \in {"succeeded", "skipped", "failed"}
      \/ status'[row[w]] = status[row[w]]
      \/ /\ status'[row[w]] = "pending"
         /\ loaded[w].tries < MaxAttempts \/ tries[row[w]] < MaxAttempts
  <2>1. CASE Succeed(w) \/ Conflict(w)
    BY <1>1, <1>2, <2>1 DEF Succeed, Conflict, Write, TypeOK
  <2>2. CASE Fail(w)
    BY <1>1, <1>2, <2>2 DEF Fail, Write, AfterError, TypeOK
  <2> QED BY <2>1, <2>2
<1>7. CASE row[w] = e
  <2>1. w \in Holders(e) /\ ~Holds(w, e)'
    BY <1>1, <1>2, <1>3, <1>7
    DEF Holds, TypeOK, WorkerKnows, Succeed, Conflict, Fail
  <2>2. Due(e)' > Due(e) => tries[e] < MaxAttempts \/ w \in Early(e)
    BY <1>2, <1>6, <1>7 DEF Due, Retryable, Early
  <2> QED
    BY <1>2, <1>3, <1>4, <1>6, <1>7, <2>1, <2>2 DEF Returned, Holders, Early
<1>8. CASE row[w] # e
  <2>1. status'[e] = status[e]
    BY <1>5, <1>8
  <2> QED
    BY <1>2, <1>4, <2>1 DEF Unmoved, Holders, Early, Due, Retryable
<1> QED BY <1>7, <1>8

LEMMA ClaimMove ==
    ASSUME IInv, NEW e \in Executions, NEW w \in Workers,
           NEW s \in SUBSET Executions, Claim(w, s)
    PROVE  Unmoved(e) \/ Taken(e, w)
<1> USE AutomationAssumption
<1>1. /\ TypeOK /\ batch[w] = {} /\ row[w] = NoExecution
      /\ NoExecution \notin Executions
  BY DEF IInv, WorkerKnows, Claim, Executions
<1>2. /\ status' = [x \in Executions |-> IF x \in s THEN "running" ELSE status[x]]
      /\ tries' = [x \in Executions |-> IF x \in s THEN tries[x] + 1 ELSE tries[x]]
      /\ expired' = expired \ s
      /\ batch' = [batch EXCEPT ![w] = s]
      /\ UNCHANGED <<row, loaded, lapses, asked>>
      /\ \A x \in s : Claimable(x)
  BY DEF Claim, historyVars
<1>3. Early(e)' = Early(e)
  BY <1>2 DEF Early
<1>4. CASE e \in s
  <2>1. \A v \in Workers : Holds(v, e)' <=> Holds(v, e) \/ v = w
    BY <1>1, <1>2, <1>4 DEF Holds, TypeOK
  <2>2. Due(e) = 1
    <3>1. Claimable(e)
      BY <1>2, <1>4
    <3> QED BY <3>1 DEF Due, Claimable
  <2> QED
    BY <1>2, <1>3, <1>4, <2>1, <2>2 DEF Taken, Holders, Claimable
<1>5. CASE e \notin s
  <2>1. \A v \in Workers : Holds(v, e)' <=> Holds(v, e)
    BY <1>1, <1>2, <1>5 DEF Holds, TypeOK
  <2> QED
    BY <1>2, <1>3, <1>5, <2>1 DEF Unmoved, Holders, Due, Retryable
<1> QED BY <1>4, <1>5

LEMMA CrashMove ==
    ASSUME IInv, NEW e \in Executions, NEW w \in Workers, Crash(w)
    PROVE  Unmoved(e)
<1>1. /\ TypeOK /\ UNCHANGED <<status, tries, expired, lapses, asked>>
      /\ batch' = [batch EXCEPT ![w] = {}]
      /\ row' = [row EXCEPT ![w] = NoExecution]
      /\ loaded' = [loaded EXCEPT ![w] = Nothing]
      /\ NoExecution \notin Executions
  BY AutomationAssumption DEF IInv, Crash, executionVars, Executions
<1>2. \A v \in Workers : /\ Holds(v, e)' => Holds(v, e)
                         /\ row'[v] = e => row[v] = e /\ loaded'[v] = loaded[v]
  BY <1>1 DEF Holds, TypeOK
<1> QED BY <1>1, <1>2 DEF Unmoved, Holders, Early, Due, Retryable

LEMMA RecordMove ==
    ASSUME IInv, NEW e \in Executions, NEW m \in Messages, RecordInbound(m)
    PROVE  Unmoved(e) \/ Created(e)
<1>1. /\ TypeOK /\ Fresh(e)
      /\ UNCHANGED <<batch, row, loaded, tries, asked, lapses, expired>>
      /\ Waiting(m)
      /\ status'[e] = IF e \in inbound[m] \X {m} THEN "pending" ELSE status[e]
  BY DEF IInv, Counted, RecordInbound, historyVars, workerVars, TypeOK
<1>2. Holders(e)' = Holders(e) /\ Early(e)' = Early(e)
  BY <1>1 DEF Holders, Holds, Early
<1>3. CASE e \in inbound[m] \X {m}
  <2>1. status[e] = "absent"
    BY <1>1, <1>3 DEF Waiting, TypeOK
  <2> QED BY <1>1, <1>2, <1>3, <2>1 DEF Created, Fresh
<1>4. CASE e \notin inbound[m] \X {m}
  BY <1>1, <1>2, <1>4 DEF Unmoved, Due, Retryable
<1> QED BY <1>3, <1>4

LEMMA LeaseMove ==
    ASSUME IInv, NEW e \in Executions, NEW x \in Executions, LeaseExpires(x)
    PROVE  Unmoved(e) \/ Lapsed(e)
<1>1. /\ TypeOK /\ UNCHANGED <<batch, row, loaded, tries, asked, status>>
      /\ status[x] = "running" /\ x \notin expired
      /\ expired' = expired \cup {x}
      /\ lapses' = [lapses EXCEPT ![x] = @ + 1]
  BY DEF IInv, LeaseExpires, workerVars
<1>2. Holders(e)' = Holders(e) /\ Early(e)' = Early(e)
  BY <1>1 DEF Holders, Holds, Early
<1>3. CASE x = e
  BY <1>1, <1>2, <1>3 DEF Lapsed, Due, Retryable, TypeOK
<1>4. CASE x # e
  BY <1>1, <1>2, <1>4 DEF Unmoved, Due, Retryable, TypeOK
<1> QED BY <1>3, <1>4

\* An execution that failed with attempts left waits again; nobody has it, or a
\* lease has run out.
LEMMA RetryMove ==
    ASSUME IInv, NEW e \in Executions, NEW x \in Executions, RetryExecution(x)
    PROVE  Unmoved(e)
<1>1. /\ TypeOK /\ UNCHANGED <<batch, row, loaded, tries, asked, lapses, expired>>
      /\ Retryable(x) /\ status' = [status EXCEPT ![x] = "pending"]
  BY DEF IInv, RetryExecution, historyVars, workerVars
<1>2. Holders(e)' = Holders(e) /\ Early(e)' = Early(e)
  BY <1>1 DEF Holders, Holds, Early
<1>3. CASE x = e
  BY <1>1, <1>2, <1>3 DEF Unmoved, Due, Retryable, TypeOK
<1>4. CASE x # e
  BY <1>1, <1>2, <1>4 DEF Unmoved, Due, Retryable, TypeOK
<1> QED BY <1>3, <1>4

LEMMA MoveStep ==
    ASSUME IInv, [Next]_vars, NEW e \in Executions PROVE Move(e)
<1> USE DEF Move
<1>1. ASSUME NEW d \in Automations, Manage(d) PROVE Move(e)
  <2>1. CASE Create(d) \/ Activate(d)
    BY <2>1, QuietMove DEF Create, Activate, executionVars, historyVars, workerVars
  <2>2. CASE Stop(d)
    <3>1. \/ status'[e] = status[e]
          \/ status[e] = "pending" /\ status'[e] = "cancelled"
      BY <2>2 DEF Stop, IInv, TypeOK
    <3>2. UNCHANGED <<batch, row, loaded, tries, asked, lapses, expired>>
      BY <2>2 DEF Stop, historyVars, workerVars
    <3>3. CASE status'[e] = status[e]
      BY <3>2, <3>3 DEF Unmoved, Holders, Holds, Early, Due, Retryable
    <3> QED BY <3>1, <3>2, <3>3, QuietMove
  <2> QED BY <1>1, <2>1, <2>2 DEF Manage
<1>2. CASE UNCHANGED vars \/ AgentActs
  BY <1>2, QuietMove DEF vars, AgentActs, executionVars, historyVars, workerVars
<1>3. ASSUME NEW m \in Messages, ReadActive(m) PROVE Move(e)
  BY <1>3, QuietMove DEF ReadActive, executionVars, historyVars, workerVars
<1>4. ASSUME NEW x \in Executions, BackoffEnds(x) PROVE Move(e)
  BY <1>4, QuietMove DEF BackoffEnds, historyVars, workerVars
<1> QED
  BY <1>1, <1>2, <1>3, <1>4, RunMove, RequestMove, EndMove, ClaimMove, CrashMove,
     RecordMove, LeaseMove, RetryMove
  DEF Next, Step

-----------------------------------------------------------------------------
(* The counts hold through each of these moves.                            *)

LEMMA HoldersStep ==
    ASSUME IInv, TypeOK', NEW e \in Executions, Move(e)
    PROVE  HoldersBounded(e)'
<1> DEFINE H == Holders(e)
           H2 == Holders(e)'
<1>1. /\ IsFiniteSet(H) /\ Cardinality(H) \in Nat
      /\ Cardinality(H) + Due(e) <= 1 + lapses[e]
      /\ lapses[e] \in Nat /\ lapses'[e] \in Nat
      /\ Due(e) \in {0, 1} /\ Due(e)' \in {0, 1}
  BY DueType, FS_CardinalityType DEF IInv, TypeOK, Counted, HoldersBounded
<1>2. ASSUME H2 \subseteq H
      PROVE  IsFiniteSet(H2) /\ Cardinality(H2) \in Nat /\ Cardinality(H2) <= Cardinality(H)
  BY <1>1, <1>2, FS_Subset, FS_CardinalityType
<1>3. CASE Unmoved(e) \/ Lapsed(e)
  BY <1>1, <1>2, <1>3 DEF Unmoved, Lapsed, HoldersBounded
<1>4. CASE Created(e)
  BY <1>1, <1>4, FS_EmptySet DEF Created, HoldersBounded
<1>5. ASSUME NEW w \in Workers, Taken(e, w) PROVE HoldersBounded(e)'
  <2>1. /\ IsFiniteSet(H2) /\ Cardinality(H2) \in Nat
        /\ Cardinality(H2) <= Cardinality(H) + 1
    <3>1. H2 = H \cup {w}
      BY <1>5 DEF Taken
    <3>2. /\ IsFiniteSet(H \cup {w})
          /\ Cardinality(H \cup {w}) = IF w \in H THEN Cardinality(H)
                                       ELSE Cardinality(H) + 1
      BY <1>1, FS_AddElement
    <3> HIDE DEF H, H2
    <3> QED BY <1>1, <3>1, <3>2
  <2>2. Due(e)' = 0 /\ Due(e) = 1 /\ lapses'[e] = lapses[e]
    BY <1>5 DEF Taken, Due, Retryable
  <2> QED BY <1>1, <2>1, <2>2 DEF HoldersBounded
<1>6. ASSUME NEW w \in Workers, Returned(e, w) PROVE HoldersBounded(e)'
  <2>1. /\ IsFiniteSet(H \ {w}) /\ Cardinality(H \ {w}) = Cardinality(H) - 1
    BY <1>1, <1>6, FS_RemoveElement DEF Returned
  <2>2. /\ IsFiniteSet(H2) /\ Cardinality(H2) \in Nat
        /\ Cardinality(H2) <= Cardinality(H) - 1
    BY <1>6, <2>1, FS_Subset, FS_CardinalityType DEF Returned
  <2> QED BY <1>1, <1>6, <2>2 DEF Returned, HoldersBounded
<1> QED BY <1>3, <1>4, <1>5, <1>6 DEF Move

LEMMA EarlyStep ==
    ASSUME IInv, TypeOK', NEW e \in Executions, Move(e)
    PROVE  EarlyBounded(e)'
<1> DEFINE H == Holders(e)
           E == Early(e)
           E2 == Early(e)'
<1>1. /\ IsFiniteSet(H) /\ Cardinality(H) \in Nat
      /\ Cardinality(H) + Due(e) <= 1 + lapses[e]
      /\ lapses[e] \in Nat /\ lapses'[e] \in Nat
      /\ tries[e] \in Nat /\ tries'[e] \in Nat /\ MaxAttempts \in Nat \ {0}
      /\ Due(e) \in {0, 1} /\ Due(e)' \in {0, 1}
      /\ EarlyBounded(e) /\ Fresh(e)
  BY AutomationAssumption, DueType, FS_CardinalityType
  DEF IInv, TypeOK, Counted, HoldersBounded
<1>2. /\ E \subseteq H /\ IsFiniteSet(E) /\ Cardinality(E) \in Nat
      /\ Cardinality(E) <= Cardinality(H)
  <2>1. E \subseteq H
    BY DEF Early, Holders, Holds
  <2> QED BY <1>1, <2>1, FS_Subset, FS_CardinalityType
<1>3. ASSUME E2 \subseteq E
      PROVE  Cardinality(E2) \in Nat /\ Cardinality(E2) <= Cardinality(E)
  BY <1>2, <1>3, FS_Subset, FS_CardinalityType
<1>4. CASE Unmoved(e)
  BY <1>1, <1>2, <1>3, <1>4 DEF Unmoved, EarlyBounded
<1>5. CASE Lapsed(e)
  BY <1>1, <1>2, <1>3, <1>5 DEF Lapsed, EarlyBounded
<1>6. CASE Created(e)
  BY <1>1, <1>6 DEF Created, EarlyBounded, Fresh
<1>7. ASSUME NEW w \in Workers, Taken(e, w) PROVE EarlyBounded(e)'
  <2>1. Due(e)' = 0 /\ Due(e) = 1
    BY <1>7 DEF Taken, Due, Retryable
  <2> QED BY <1>1, <1>2, <1>7, <2>1 DEF Taken, EarlyBounded
<1>8. ASSUME NEW w \in Workers, Returned(e, w) PROVE EarlyBounded(e)'
  <2>1. CASE w \in E
    <3>1. /\ IsFiniteSet(E \ {w}) /\ Cardinality(E \ {w}) = Cardinality(E) - 1
      BY <1>2, <2>1, FS_RemoveElement
    <3>2. Cardinality(E2) \in Nat /\ Cardinality(E2) <= Cardinality(E) - 1
      BY <1>8, <3>1, FS_Subset, FS_CardinalityType DEF Returned
    <3> QED BY <1>1, <1>2, <1>8, <3>2 DEF Returned, EarlyBounded
  <2>2. CASE w \notin E
    <3>1. Cardinality(E2) \in Nat /\ Cardinality(E2) <= Cardinality(E)
      BY <1>3, <1>8 DEF Returned
    <3> QED BY <1>1, <1>2, <1>8, <2>2, <3>1 DEF Returned, EarlyBounded
  <2> QED BY <2>1, <2>2
<1> QED BY <1>4, <1>5, <1>6, <1>7, <1>8 DEF Move

\* Before a lease has run out an execution has one holder.
LEMMA OneHolder ==
    ASSUME IInv, NEW e \in Executions, lapses[e] = 0, NEW w \in Holders(e)
    PROVE  Holders(e) = {w} /\ Due(e) = 0
<1>1. /\ IsFiniteSet(Holders(e)) /\ Cardinality(Holders(e)) \in Nat
      /\ Cardinality(Holders(e)) + Due(e) <= 1 /\ Due(e) \in {0, 1}
  BY DueType, FS_CardinalityType DEF IInv, Counted, HoldersBounded
<1>2. Cardinality(Holders(e)) # 0
  BY <1>1, FS_EmptySet
<1>3. Cardinality(Holders(e)) = 1 /\ Due(e) = 0
  BY <1>1, <1>2
<1>4. \E x : Holders(e) = {x}
  BY <1>1, <1>3, FS_Singleton
<1> QED BY <1>3, <1>4

LEMMA CountedStep ==
    ASSUME IInv, TypeOK', NEW e \in Executions, Move(e)
    PROVE  Counted(e)'
<1>1. Fresh(e) /\ Exclusive(e) /\ lapses[e] \in Nat
  BY DEF IInv, Counted, TypeOK
<1>2. Fresh(e)'
  <2>1. CASE Unmoved(e) \/ Created(e) \/ Lapsed(e)
    BY <1>1, <2>1 DEF Fresh, Unmoved, Created, Lapsed
  <2>2. CASE \E w \in Workers : Taken(e, w) \/ Returned(e, w)
    BY <2>2 DEF Fresh, Taken, Returned
  <2> QED BY <2>1, <2>2 DEF Move
<1>3. Exclusive(e)'
  <2>1. CASE Unmoved(e)
    BY <1>1, <2>1 DEF Exclusive, Unmoved
  <2>2. CASE Created(e)
    BY <1>1, <2>2 DEF Exclusive, Created
  <2>3. CASE Lapsed(e)
    BY <1>1, <2>3 DEF Exclusive, Lapsed
  <2>4. ASSUME NEW w \in Workers, Taken(e, w) PROVE Exclusive(e)'
    BY <1>1, <2>4 DEF Exclusive, Taken
  <2>5. ASSUME NEW w \in Workers, Returned(e, w) PROVE Exclusive(e)'
    <3>1. lapses[e] = 0 => Holders(e) = {w}
      BY <2>5, OneHolder DEF Returned
    <3> QED BY <1>1, <2>5, <3>1 DEF Exclusive, Returned
  <2> QED BY <2>1, <2>2, <2>3, <2>4, <2>5 DEF Move
<1> QED BY <1>2, <1>3, HoldersStep, EarlyStep DEF Counted

-----------------------------------------------------------------------------
(* What a step may write as a status.                                      *)

Says(e, st) ==
    /\ st = "succeeded" => asked[e] > 0 /\ e \in matching
    /\ st = "failed" => tries[e] >= MaxAttempts \/ e \in unusable
    /\ st = "skipped" => e \notin matching \/ handoff

LEMMA StatusStep ==
    ASSUME IInv, [Next]_vars, NEW e \in Executions
    PROVE  status'[e] = status[e] \/ Says(e, status'[e])
<1> USE AutomationAssumption
<1>1. TypeOK
  BY DEF IInv
<1>2. ASSUME NEW w \in Workers, Run(w) PROVE status'[e] = status[e] \/ Says(e, status'[e])
  <2>1. \/ status' = status
        \/ \E x \in batch[w] :
              /\ x \notin matching
              /\ status' = [status EXCEPT ![x] =
                              IF x \in unusable THEN "failed" ELSE "skipped"]
    BY <1>2 DEF Run
  <2> QED BY <1>1, <2>1 DEF Says, TypeOK
<1>3. ASSUME NEW w \in Workers, Succeed(w) \/ Conflict(w) \/ Fail(w)
      PROVE  status'[e] = status[e] \/ Says(e, status'[e])
  <2>1. WorkerKnows(w) /\ row[w] \in Executions
    BY <1>3 DEF IInv, TypeOK, WorkerKnows, Succeed, Conflict, Fail
  <2>2. CASE Succeed(w)
    BY <1>1, <2>1, <2>2 DEF Succeed, WorkerKnows, Says, TypeOK
  <2>3. CASE Conflict(w)
    BY <1>1, <2>1, <2>3 DEF Conflict, Write, Says, TypeOK
  <2>4. CASE Fail(w)
    BY <1>1, <2>1, <2>4 DEF Fail, Write, AfterError, WorkerKnows, Says, TypeOK
  <2> QED BY <1>3, <2>2, <2>3, <2>4
<1>4. ASSUME NEW w \in Workers, NEW s \in SUBSET Executions, Claim(w, s)
      PROVE  status'[e] = status[e] \/ Says(e, status'[e])
  BY <1>4 DEF Claim, Says
<1>5. ASSUME NEW m \in Messages, RecordInbound(m)
      PROVE  status'[e] = status[e] \/ Says(e, status'[e])
  BY <1>5 DEF RecordInbound, Says
<1>6. ASSUME NEW d \in Automations, Manage(d)
      PROVE  status'[e] = status[e] \/ Says(e, status'[e])
  BY <1>6 DEF Manage, Create, Activate, Stop, executionVars, Says
<1>7. ASSUME \/ UNCHANGED vars \/ AgentActs
             \/ \E m \in Messages : ReadActive(m)
             \/ \E w \in Workers : Request(w) \/ Crash(w)
             \/ \E x \in Executions : BackoffEnds(x) \/ LeaseExpires(x)
      PROVE  status'[e] = status[e]
  BY <1>7 DEF vars, AgentActs, ReadActive, Request, Crash, BackoffEnds,
     LeaseExpires,
     executionVars
<1>8. ASSUME NEW x \in Executions, RetryExecution(x)
      PROVE  status'[e] = status[e] \/ Says(e, status'[e])
  BY <1>1, <1>8 DEF RetryExecution, Says, TypeOK
<1> QED BY <1>2, <1>3, <1>4, <1>5, <1>6, <1>7, <1>8 DEF Next, Step

LEMMA TruthfulStep ==
    ASSUME IInv, TypeOK', [Next]_vars, NEW e \in Executions PROVE Truthful(e)'
<1>1. /\ TypeOK /\ Truthful(e) /\ Grown /\ MaxAttempts \in Nat
      /\ status'[e] = status[e] \/ Says(e, status'[e])
  BY StatusStep, GrownStep, AutomationAssumption DEF IInv
<1> QED
  BY <1>1 DEF Truthful, Retryable, Says, Grown, TypeOK

LEMMA Inductive == IInv /\ [Next]_vars => IInv'
<1> SUFFICES ASSUME IInv, [Next]_vars PROVE IInv'
  OBVIOUS
<1>1. TypeOK'
  BY TypeStep
<1>2. \A e \in Executions : Counted(e)' /\ Truthful(e)'
  BY <1>1, MoveStep, CountedStep, TruthfulStep
<1>3. \A w \in Workers : WorkerKnows(w)'
  BY KnowsStep
<1> QED BY <1>1, <1>2, <1>3 DEF IInv, Executions

THEOREM Invariance == Spec => []IInv
BY InitIInv, Inductive, PTL DEF Spec

-----------------------------------------------------------------------------
(* The theorems.                                                           *)

\* The row of an execution tells the truth: attempts are bounded by the maximum
\* and the leases that ran out, a success asked for a handoff, and an execution
\* that failed with attempts left has a snapshot that cannot be read; for any
\* number of workers, faults and retries.
THEOREM TrueRows == Spec => []RowsAreTrue
<1>1. IInv => RowsAreTrue
  <2> SUFFICES ASSUME IInv PROVE RowsAreTrue
    OBVIOUS
  <2>1. ASSUME NEW e \in Executions PROVE tries[e] <= MaxAttempts + lapses[e]
    <3>1. /\ IsFiniteSet(Holders(e)) /\ Early(e) \subseteq Holders(e)
          /\ tries[e] \in Nat /\ lapses[e] \in Nat /\ MaxAttempts \in Nat
          /\ EarlyBounded(e) /\ Due(e) \in {0, 1}
      BY DueType, AutomationAssumption
      DEF IInv, TypeOK, Counted, HoldersBounded, Early, Holders, Holds
    <3>2. Cardinality(Early(e)) \in Nat
      BY <3>1, FS_Subset, FS_CardinalityType
    <3> QED BY <3>1, <3>2 DEF EarlyBounded
  <2>2. SuccessIsReal /\ FailsWhenUsedUp
    BY DEF IInv, Truthful, SuccessIsReal, FailsWhenUsedUp
  <2> QED BY <2>1, <2>2 DEF IInv, RowsAreTrue, AttemptsBounded
<1> QED BY Invariance, <1>1, PTL

\* An execution is given up only when a human has the conversation, and what its
\* one worker settled stays settled until an administrator retries it.
THEOREM Outcomes == Spec => OutcomesHold
<1> DEFINE Skips == \A e \in matching :
                       status[e] # "skipped" /\ status'[e] = "skipped" => handoff
           Stays == \A e \in Executions : status[e] \in Settled /\ lapses[e] = 0
                       => /\ asked'[e] = asked[e]
                          /\ \/ status'[e] = status[e]
                             \/ Retryable(e) /\ status'[e] = "pending"
<1>1. IInv /\ [Next]_vars => [Skips]_vars /\ [Stays]_vars
  <2> SUFFICES ASSUME IInv, [Next]_vars PROVE Skips /\ Stays
    OBVIOUS
  <2>1. Skips
    <3>1. matching \subseteq Executions
      BY DEF IInv, TypeOK
    <3> QED BY <3>1, StatusStep DEF Says
  <2>2. ASSUME NEW e \in Executions, status[e] \in Settled, lapses[e] = 0
        PROVE  /\ asked'[e] = asked[e]
               /\ \/ status'[e] = status[e]
                  \/ Retryable(e) /\ status'[e] = "pending"
    <3>1. Holders(e) = {} /\ status[e] \notin {"absent", "pending", "running"}
      BY <2>2 DEF IInv, Counted, Exclusive, Settled
    <3>2. Unmoved(e)
      BY <3>1, MoveStep DEF Move, Created, Lapsed, Taken, Returned
    <3> QED BY <2>2, <3>1, <3>2 DEF Unmoved
  <2> QED BY <2>1, <2>2
<1> QED
  BY Invariance, <1>1, PTL DEF Spec, OutcomesHold, SkipIsJustified, SettledStays
===============================================================================
