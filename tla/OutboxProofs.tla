---------------------------- MODULE OutboxProofs ----------------------------
(***************************************************************************)
(* OneCopy, OneOwner, VerdictIsTrue and NoStrandedRow hold of Outbox for   *)
(* any number of rows, senders and attempts.  None of them is inductive.   *)
(* The invariant below is: it ties every request that may still arrive to  *)
(* the last claim of its row, and what a sender remembers to the row.      *)
(***************************************************************************)
EXTENDS Outbox, TLAPS

\* A sender in the middle of something has a row, and an answer to settle.
SenderLocals ==
    \A s \in Senders :
        /\ pc[s] \in {"insert", "record", "deliver", "posting", "settle", "copy"}
             => row[s] \in Attempts
        /\ pc[s] = "settle" => answer[s] # "none"

\* A claim lives while its row waits; it is the row's last one.  A request
\* that was accepted or still may be belongs to the last claim, and a row that
\* may be claimed, was never claimed or was refused has none.
RowClaims ==
    \A a \in Attempts :
        /\ token[a] # 0 => status[a] = "pending" /\ token[a] = tries[a]
        /\ status[a] = "absent" => tries[a] = 0
        /\ status[a] = "pending" /\ token[a] = 0 => tries[a] < MaxAttempts
        /\ \A q \in Requests : q[1] = a => q[2] = tries[a]
        /\ \/ status[a] = "absent"
           \/ status[a] = "pending" /\ token[a] = 0
           \/ status[a] = "failed" /\ code[a] = "refused" /\ a \notin known
           => \A q \in Requests : q[1] # a

\* A row with a provider id was accepted, and is never pending again.
RowVerdicts ==
    \A a \in Attempts :
        /\ a \in known => /\ \E q \in accepted : q[1] = a
                          /\ status[a] \in Reported /\ token[a] = 0
        /\ status[a] \in {"sent", "delivered", "read"} => a \in known

\* A sender that called the provider remembers a claim of its row, its own,
\* and what the answer says of the request is true.
SenderClaims ==
    \A s \in Senders :
        pc[s] \in {"posting", "settle"} =>
            /\ held[s] \in 1..tries[row[s]]
            /\ pc[s] = "settle" /\ answer[s] \in {"refused", "throttled"}
                 => Request(s) \notin Requests
            /\ pc[s] = "settle" /\ answer[s] \in {"ok", "invalid_response"}
                 => Request(s) \in accepted

DistinctClaims ==
    \A s, t \in Senders :
        /\ pc[s] \in {"posting", "settle"} /\ pc[t] \in {"posting", "settle"}
        /\ row[s] = row[t] /\ held[s] = held[t]
        => s = t

\* A request arrives once.
Arrivals == wire \cap accepted = {}

IInv ==
    /\ TypeOK /\ SenderLocals /\ RowClaims /\ Arrivals
    /\ RowVerdicts /\ SenderClaims /\ DistinctClaims

-----------------------------------------------------------------------------
LEMMA InitIInv == Init => IInv
BY OutboxAssumption DEF Init, IInv, TypeOK, SenderLocals, RowClaims,
   RowVerdicts, SenderClaims, DistinctClaims, Arrivals, Requests, Statuses, Codes,
   Answers, Stages
LEMMA EnqueueIInv ==
  ASSUME IInv, NEW a \in Attempts, Enqueue(a)
  PROVE  IInv'
<1> USE OutboxAssumption DEF IInv, Enqueue, rowVars, senderVars, wireVars
<1>1. TypeOK'
  BY DEF TypeOK, SenderLocals, Statuses, Codes, Answers, Stages, Reported
<1>2. SenderLocals'
  BY DEF TypeOK, SenderLocals, Stages
<1>3. RowClaims'
  BY DEF TypeOK, SenderLocals, RowClaims, RowVerdicts, SenderClaims,
     Requests, Request, Owns
<1>4. RowVerdicts'
  BY DEF TypeOK, SenderLocals, RowClaims, RowVerdicts, SenderClaims,
     Reported, Requests, Request, Owns
<1>5. SenderClaims'
  BY DEF TypeOK, SenderLocals, RowClaims, SenderClaims, Requests, Request,
     Owns
<1>6. DistinctClaims'
  BY DEF TypeOK, SenderLocals, RowClaims, SenderClaims, DistinctClaims,
     Requests, Request, Owns
<1>7. Arrivals'
  BY DEF TypeOK, RowClaims, Requests, Arrivals
<1> QED BY <1>7, <1>1, <1>2, <1>3, <1>4, <1>5, <1>6

LEMMA StartHumanReplyIInv ==
  ASSUME IInv, NEW s \in Senders, NEW a \in Attempts, StartHumanReply(s, a)
  PROVE  IInv'
<1> USE OutboxAssumption DEF IInv, StartHumanReply, rowVars, senderVars,
   wireVars
<1>1. TypeOK'
  BY DEF TypeOK, SenderLocals, Statuses, Codes, Answers, Stages, Reported
<1>2. SenderLocals'
  BY DEF TypeOK, SenderLocals, Stages
<1>3. RowClaims'
  BY DEF TypeOK, SenderLocals, RowClaims, RowVerdicts, SenderClaims,
     Requests, Request, Owns
<1>4. RowVerdicts'
  BY DEF TypeOK, SenderLocals, RowClaims, RowVerdicts, SenderClaims,
     Reported, Requests, Request, Owns
<1>5. SenderClaims'
  BY DEF TypeOK, SenderLocals, RowClaims, SenderClaims, Requests, Request,
     Owns
<1>6. DistinctClaims'
  BY DEF TypeOK, SenderLocals, RowClaims, SenderClaims, DistinctClaims,
     Requests, Request, Owns
<1>7. Arrivals'
  BY DEF TypeOK, RowClaims, Requests, Arrivals
<1> QED BY <1>7, <1>1, <1>2, <1>3, <1>4, <1>5, <1>6

LEMMA InsertHumanReplyIInv ==
  ASSUME IInv, NEW s \in Senders, InsertHumanReply(s)
  PROVE  IInv'
<1> USE OutboxAssumption DEF IInv, InsertHumanReply, rowVars, senderVars,
   wireVars
<1>1. TypeOK'
  BY DEF TypeOK, SenderLocals, Statuses, Codes, Answers, Stages, Reported
<1>2. SenderLocals'
  BY DEF TypeOK, SenderLocals, Stages
<1>3. RowClaims'
  BY DEF TypeOK, SenderLocals, RowClaims, RowVerdicts, SenderClaims,
     Requests, Request, Owns
<1>4. RowVerdicts'
  BY DEF TypeOK, SenderLocals, RowClaims, RowVerdicts, SenderClaims,
     Reported, Requests, Request, Owns
<1>5. SenderClaims'
  BY DEF TypeOK, SenderLocals, RowClaims, SenderClaims, Requests, Request,
     Owns
<1>6. DistinctClaims'
  BY DEF TypeOK, SenderLocals, RowClaims, SenderClaims, DistinctClaims,
     Requests, Request, Owns
<1>7. Arrivals'
  BY DEF TypeOK, RowClaims, Requests, Arrivals
<1> QED BY <1>7, <1>1, <1>2, <1>3, <1>4, <1>5, <1>6

LEMMA RecordHumanReplyIInv ==
  ASSUME IInv, NEW s \in Senders, RecordHumanReply(s)
  PROVE  IInv'
<1> USE OutboxAssumption DEF IInv, RecordHumanReply, rowVars, senderVars,
   wireVars
<1>1. TypeOK'
  BY DEF TypeOK, SenderLocals, Statuses, Codes, Answers, Stages, Reported
<1>2. SenderLocals'
  BY DEF TypeOK, SenderLocals, Stages
<1>3. RowClaims'
  BY DEF TypeOK, SenderLocals, RowClaims, RowVerdicts, SenderClaims,
     Requests, Request, Owns
<1>4. RowVerdicts'
  BY DEF TypeOK, SenderLocals, RowClaims, RowVerdicts, SenderClaims,
     Reported, Requests, Request, Owns
<1>5. SenderClaims'
  BY DEF TypeOK, SenderLocals, RowClaims, SenderClaims, Requests, Request,
     Owns
<1>6. DistinctClaims'
  BY DEF TypeOK, SenderLocals, RowClaims, SenderClaims, DistinctClaims,
     Requests, Request, Owns
<1>7. Arrivals'
  BY DEF TypeOK, RowClaims, Requests, Arrivals
<1> QED BY <1>7, <1>1, <1>2, <1>3, <1>4, <1>5, <1>6

LEMMA ClaimByIInv ==
  ASSUME IInv, NEW s \in Senders, NEW a \in Attempts, ClaimBy(s, a)
  PROVE  IInv'
<1> USE OutboxAssumption DEF IInv, ClaimBy, Claimable, rowVars, senderVars,
   wireVars
<1>1. TypeOK'
  BY DEF TypeOK, SenderLocals, Statuses, Codes, Answers, Stages, Reported
<1>2. SenderLocals'
  BY DEF TypeOK, SenderLocals, Stages
<1>3. RowClaims'
  BY DEF TypeOK, SenderLocals, RowClaims, RowVerdicts, SenderClaims,
     Requests, Request, Owns
<1>4. RowVerdicts'
  BY DEF TypeOK, SenderLocals, RowClaims, RowVerdicts, SenderClaims,
     Reported, Requests, Request, Owns
<1>5. SenderClaims'
  BY DEF TypeOK, SenderLocals, RowClaims, SenderClaims, Requests, Request,
     Owns
<1>6. DistinctClaims'
  <2> SUFFICES ASSUME NEW t \in Senders, NEW u \in Senders,
                      pc'[t] \in {"posting", "settle"}, pc'[u] \in {"posting", "settle"},
                      row'[t] = row'[u], held'[t] = held'[u]
               PROVE  t = u
    BY DEF DistinctClaims
  <2>1. \A v \in Senders \ {s} : pc'[v] \in {"posting", "settle"} =>
           /\ pc[v] = pc'[v] /\ row'[v] = row[v] /\ held'[v] = held[v]
           /\ row'[v] = a => held[v] \in 1..tries[a]
    BY DEF TypeOK, SenderClaims
  <2>2. row'[s] = a /\ held'[s] = tries[a] + 1
    BY DEF TypeOK
  <2>3. CASE t # s /\ u # s
    BY <2>1, <2>3 DEF DistinctClaims
  <2>4. CASE t = s \/ u = s
    BY <2>1, <2>2, <2>4 DEF TypeOK
  <2> QED BY <2>3, <2>4
<1>7. Arrivals'
  BY DEF TypeOK, RowClaims, Requests, Arrivals
<1> QED BY <1>7, <1>1, <1>2, <1>3, <1>4, <1>5, <1>6

LEMMA DeliverHumanReplyIInv ==
  ASSUME IInv, NEW s \in Senders, DeliverHumanReply(s)
  PROVE  IInv'
<1>1. row[s] \in Attempts
  BY DEF IInv, SenderLocals, DeliverHumanReply
<1>2. CASE ClaimBy(s, row[s])
  BY <1>1, <1>2, ClaimByIInv
<1>3. CASE ~ClaimBy(s, row[s])
  <2> USE <1>1, <1>3 DEF IInv, DeliverHumanReply, rowVars, senderVars, wireVars
  <2>1. TypeOK'
    BY DEF TypeOK, Stages
  <2>2. SenderLocals'
    BY DEF TypeOK, SenderLocals, Stages
  <2>3. RowClaims' /\ RowVerdicts' /\ Arrivals'
    BY DEF Arrivals, RowClaims, RowVerdicts, Requests
  <2>4. SenderClaims' /\ DistinctClaims'
    BY DEF TypeOK, SenderClaims, DistinctClaims, Requests, Request
  <2> QED BY <2>1, <2>2, <2>3, <2>4
<1> QED BY <1>2, <1>3

LEMMA ProviderAcceptsIInv ==
  ASSUME IInv, NEW q \in wire, ProviderAccepts(q)
  PROVE  IInv'
<1> USE OutboxAssumption DEF IInv, ProviderAccepts, rowVars, senderVars,
   wireVars
<1>1. TypeOK'
  BY DEF TypeOK, SenderLocals, Statuses, Codes, Answers, Stages, Reported
<1>2. SenderLocals'
  BY DEF TypeOK, SenderLocals, Stages
<1>3. RowClaims'
  BY DEF TypeOK, SenderLocals, RowClaims, RowVerdicts, SenderClaims,
     Requests, Request, Owns
<1>4. RowVerdicts'
  BY DEF TypeOK, SenderLocals, RowClaims, RowVerdicts, SenderClaims,
     Reported, Requests, Request, Owns
<1>5. SenderClaims'
  BY DEF TypeOK, SenderLocals, RowClaims, SenderClaims, Requests, Request,
     Owns
<1>6. DistinctClaims'
  BY DEF TypeOK, SenderLocals, RowClaims, SenderClaims, DistinctClaims,
     Requests, Request, Owns
<1>7. Arrivals'
  BY DEF TypeOK, RowClaims, Requests, Arrivals
<1> QED BY <1>7, <1>1, <1>2, <1>3, <1>4, <1>5, <1>6

LEMMA ProviderAnswersIInv ==
  ASSUME IInv, NEW s \in Senders, ProviderAnswers(s)
  PROVE  IInv'
<1> USE OutboxAssumption DEF IInv, ProviderAnswers, rowVars, senderVars,
   wireVars
<1>1. TypeOK'
  BY DEF TypeOK, SenderLocals, Statuses, Codes, Answers, Stages, Reported
<1>2. SenderLocals'
  BY DEF TypeOK, SenderLocals, Stages
<1>3. RowClaims'
  BY DEF TypeOK, SenderLocals, RowClaims, RowVerdicts, SenderClaims,
     Requests, Request, Owns
<1>4. RowVerdicts'
  BY DEF TypeOK, SenderLocals, RowClaims, RowVerdicts, SenderClaims,
     Reported, Requests, Request, Owns
<1>5. SenderClaims'
  <2> SUFFICES ASSUME NEW t \in Senders, pc'[t] \in {"posting", "settle"}
               PROVE  /\ held'[t] \in 1..tries'[row'[t]]
                      /\ pc'[t] = "settle" /\ answer'[t] \in {"refused", "throttled"}
                           => Request(t)' \notin Requests'
                      /\ pc'[t] = "settle" /\ answer'[t] \in {"ok", "invalid_response"}
                           => Request(t)' \in accepted'
    BY DEF SenderClaims
  <2>1. Request(t)' = Request(t) /\ Requests' \subseteq Requests /\ accepted' = accepted
    BY DEF Request, Requests
  <2>2. held'[t] \in 1..tries'[row'[t]]
    BY DEF TypeOK, SenderClaims
  <2>3. CASE t # s
    BY <2>1, <2>2, <2>3 DEF TypeOK, SenderClaims
  <2>4. CASE t = s
    <3>1. pc'[s] = "settle"
      BY DEF TypeOK
    <3>2. CASE answer' = [answer EXCEPT ![s] = "unknown"]
      BY <2>2, <2>4, <3>2 DEF TypeOK
    <3>3. CASE Request(s) \in accepted /\ \E r \in {"ok", "invalid_response"} :
                  answer' = [answer EXCEPT ![s] = r]
      BY <2>1, <2>2, <2>4, <3>3 DEF TypeOK
    <3>4. CASE /\ Request(s) \in wire /\ wire' = wire \ {Request(s)}
               /\ \E r \in {"refused", "throttled"} :
                     answer' = [answer EXCEPT ![s] = r]
      <4>1. Request(s) \notin accepted
        BY <3>4 DEF Arrivals
      <4> QED BY <2>1, <2>2, <2>4, <3>4, <4>1 DEF TypeOK, Requests
    <3> QED BY <3>2, <3>3, <3>4
  <2> QED BY <2>3, <2>4
<1>6. DistinctClaims'
  BY DEF TypeOK, SenderLocals, RowClaims, SenderClaims, DistinctClaims,
     Requests, Request, Owns
<1>7. Arrivals'
  BY DEF TypeOK, RowClaims, Requests, Arrivals
<1> QED BY <1>7, <1>1, <1>2, <1>3, <1>4, <1>5, <1>6

LEMMA SettleIInv ==
  ASSUME IInv, NEW s \in Senders, Settle(s)
  PROVE  IInv'
<1> DEFINE a == row[s]
<1> USE OutboxAssumption DEF IInv, Settle, rowVars, senderVars, wireVars
<1>1. a \in Attempts
  BY DEF SenderLocals
<1>2. TypeOK'
  BY <1>1 DEF TypeOK, SenderLocals, Statuses, Codes, Answers, Stages, Verdict,
     MarkSent, MarkFailed, ScheduleRetry
<1>3. SenderLocals'
  BY DEF TypeOK, SenderLocals, Stages
<1>4. SenderClaims' /\ DistinctClaims' /\ Arrivals'
  BY <1>1 DEF TypeOK, SenderLocals, SenderClaims, DistinctClaims, Arrivals,
     Requests, Request
<1>5. CASE ~Owns(s)
  <2>1. RowClaims' /\ RowVerdicts'
    BY <1>5 DEF RowClaims, RowVerdicts, Requests
  <2> QED BY <1>2, <1>3, <1>4, <2>1
<1>6. CASE Owns(s)
  <2>1. /\ token[a] \in 1..MaxAttempts /\ status[a] = "pending"
        /\ token[a] = tries[a] /\ a \notin known
        /\ Verdict(a, answer[s]) /\ token' = [token EXCEPT ![a] = 0]
        /\ tries' = tries /\ wire' = wire /\ accepted' = accepted
    BY <1>1, <1>6 DEF Owns, TypeOK, SenderClaims, RowClaims, RowVerdicts
  <2>2. \A q \in Requests : q[1] = a => q = Request(s)
    BY <1>1, <1>6, <2>1 DEF Owns, Request, Requests, RowClaims, TypeOK
  <2>3. \A b \in Attempts \ {a} :
           /\ status'[b] = status[b] /\ code'[b] = code[b]
           /\ token'[b] = token[b] /\ b \in known' <=> b \in known
    BY <1>1, <2>1 DEF TypeOK, Verdict, MarkSent, MarkFailed, ScheduleRetry
  <2>4. /\ token'[a] = 0
        /\ \/ /\ status'[a] = "sent" /\ a \in known'
              /\ answer[s] = "ok"
           \/ /\ status'[a] = "pending" /\ a \notin known'
              /\ answer[s] = "throttled" /\ tries[a] < MaxAttempts
           \/ /\ status'[a] = "failed" /\ a \notin known'
              /\ code'[a] = "refused" => answer[s] \in {"refused", "throttled"}
    BY <1>1, <2>1 DEF TypeOK, Verdict, MarkSent, MarkFailed, ScheduleRetry
  <2>5. /\ answer[s] \in {"refused", "throttled"} => Request(s) \notin Requests
        /\ answer[s] = "ok" => Request(s) \in accepted
    BY DEF SenderClaims
  <2>6. Requests' = Requests /\ Request(s)[1] = a
    BY <2>1 DEF Requests, Request
  <2>7. RowClaims'
    BY <1>1, <2>1, <2>2, <2>3, <2>4, <2>5, <2>6 DEF RowClaims
  <2>8. RowVerdicts'
    BY <1>1, <2>1, <2>3, <2>4, <2>5, <2>6 DEF RowVerdicts, Reported
  <2> QED BY <1>2, <1>3, <1>4, <2>7, <2>8
<1> QED BY <1>5, <1>6

LEMMA ExpireClaimsIInv ==
  ASSUME IInv, NEW s \in Senders, ExpireClaims(s)
  PROVE  IInv'
<1> USE OutboxAssumption DEF IInv, ExpireClaims, Expired, rowVars,
   senderVars, wireVars
<1>1. TypeOK'
  BY DEF TypeOK, SenderLocals, Statuses, Codes, Answers, Stages, Reported
<1>2. SenderLocals'
  BY DEF TypeOK, SenderLocals, Stages
<1>3. RowClaims'
  BY DEF TypeOK, SenderLocals, RowClaims, RowVerdicts, SenderClaims,
     Requests, Request, Owns
<1>4. RowVerdicts'
  BY DEF TypeOK, SenderLocals, RowClaims, RowVerdicts, SenderClaims,
     Reported, Requests, Request, Owns
<1>5. SenderClaims'
  BY DEF TypeOK, SenderLocals, RowClaims, SenderClaims, Requests, Request,
     Owns
<1>6. DistinctClaims'
  BY DEF TypeOK, SenderLocals, RowClaims, SenderClaims, DistinctClaims,
     Requests, Request, Owns
<1>7. Arrivals'
  BY DEF TypeOK, RowClaims, Requests, Arrivals
<1> QED BY <1>7, <1>1, <1>2, <1>3, <1>4, <1>5, <1>6

LEMMA ProviderReportsIInv ==
  ASSUME IInv, NEW s \in Senders, NEW a \in Attempts, NEW st \in Reported, ProviderReports(s, a, st)
  PROVE  IInv'
<1> USE OutboxAssumption DEF IInv, ProviderReports, rowVars, senderVars,
   wireVars
<1>1. TypeOK'
  BY DEF TypeOK, SenderLocals, Statuses, Codes, Answers, Stages, Reported
<1>2. SenderLocals'
  BY DEF TypeOK, SenderLocals, Stages
<1>3. RowClaims'
  BY DEF TypeOK, SenderLocals, RowClaims, RowVerdicts, SenderClaims,
     Reported, Requests, Request, Owns
<1>4. RowVerdicts'
  BY DEF TypeOK, SenderLocals, RowClaims, RowVerdicts, SenderClaims,
     Reported, Requests, Request, Owns
<1>5. SenderClaims'
  BY DEF TypeOK, SenderLocals, RowClaims, SenderClaims, Requests, Request,
     Owns
<1>6. DistinctClaims'
  BY DEF TypeOK, SenderLocals, RowClaims, SenderClaims, DistinctClaims,
     Requests, Request, Owns
<1>7. Arrivals'
  BY DEF TypeOK, RowClaims, Requests, Arrivals
<1> QED BY <1>7, <1>1, <1>2, <1>3, <1>4, <1>5, <1>6

LEMMA ReadForSyncIInv ==
  ASSUME IInv, NEW s \in Senders, ReadForSync(s)
  PROVE  IInv'
<1> USE OutboxAssumption DEF IInv, ReadForSync, rowVars, senderVars, wireVars
<1>1. TypeOK'
  BY DEF TypeOK, SenderLocals, Statuses, Codes, Answers, Stages, Reported
<1>2. SenderLocals'
  BY DEF TypeOK, SenderLocals, Stages
<1>3. RowClaims'
  BY DEF TypeOK, SenderLocals, RowClaims, RowVerdicts, SenderClaims,
     Requests, Request, Owns
<1>4. RowVerdicts'
  BY DEF TypeOK, SenderLocals, RowClaims, RowVerdicts, SenderClaims,
     Reported, Requests, Request, Owns
<1>5. SenderClaims'
  BY DEF TypeOK, SenderLocals, RowClaims, SenderClaims, Requests, Request,
     Owns
<1>6. DistinctClaims'
  BY DEF TypeOK, SenderLocals, RowClaims, SenderClaims, DistinctClaims,
     Requests, Request, Owns
<1>7. Arrivals'
  BY DEF TypeOK, RowClaims, Requests, Arrivals
<1> QED BY <1>7, <1>1, <1>2, <1>3, <1>4, <1>5, <1>6

LEMMA CopyToHistoryIInv ==
  ASSUME IInv, NEW s \in Senders, CopyToHistory(s)
  PROVE  IInv'
<1> USE OutboxAssumption DEF IInv, CopyToHistory, rowVars, senderVars,
   wireVars
<1>1. TypeOK'
  BY DEF TypeOK, SenderLocals, Statuses, Codes, Answers, Stages, Reported
<1>2. SenderLocals'
  BY DEF TypeOK, SenderLocals, Stages
<1>3. RowClaims'
  BY DEF TypeOK, SenderLocals, RowClaims, RowVerdicts, SenderClaims,
     Requests, Request, Owns
<1>4. RowVerdicts'
  BY DEF TypeOK, SenderLocals, RowClaims, RowVerdicts, SenderClaims,
     Reported, Requests, Request, Owns
<1>5. SenderClaims'
  BY DEF TypeOK, SenderLocals, RowClaims, SenderClaims, Requests, Request,
     Owns
<1>6. DistinctClaims'
  BY DEF TypeOK, SenderLocals, RowClaims, SenderClaims, DistinctClaims,
     Requests, Request, Owns
<1>7. Arrivals'
  BY DEF TypeOK, RowClaims, Requests, Arrivals
<1> QED BY <1>7, <1>1, <1>2, <1>3, <1>4, <1>5, <1>6

LEMMA CrashIInv ==
  ASSUME IInv, NEW s \in Senders, Crash(s)
  PROVE  IInv'
<1> USE OutboxAssumption DEF IInv, Crash, rowVars, senderVars, wireVars
<1>1. TypeOK'
  BY DEF TypeOK, SenderLocals, Statuses, Codes, Answers, Stages, Reported
<1>2. SenderLocals'
  BY DEF TypeOK, SenderLocals, Stages
<1>3. RowClaims'
  BY DEF TypeOK, SenderLocals, RowClaims, RowVerdicts, SenderClaims,
     Requests, Request, Owns
<1>4. RowVerdicts'
  BY DEF TypeOK, SenderLocals, RowClaims, RowVerdicts, SenderClaims,
     Reported, Requests, Request, Owns
<1>5. SenderClaims'
  BY DEF TypeOK, SenderLocals, RowClaims, SenderClaims, Requests, Request,
     Owns
<1>6. DistinctClaims'
  BY DEF TypeOK, SenderLocals, RowClaims, SenderClaims, DistinctClaims,
     Requests, Request, Owns
<1>7. Arrivals'
  BY DEF TypeOK, RowClaims, Requests, Arrivals
<1> QED BY <1>7, <1>1, <1>2, <1>3, <1>4, <1>5, <1>6

LEMMA BackoffEndsIInv ==
  ASSUME IInv, NEW a \in Attempts, BackoffEnds(a)
  PROVE  IInv'
<1> USE OutboxAssumption DEF IInv, BackoffEnds, rowVars, senderVars, wireVars
<1>1. TypeOK'
  BY DEF TypeOK, SenderLocals, Statuses, Codes, Answers, Stages, Reported
<1>2. SenderLocals'
  BY DEF TypeOK, SenderLocals, Stages
<1>3. RowClaims'
  BY DEF TypeOK, SenderLocals, RowClaims, RowVerdicts, SenderClaims,
     Requests, Request, Owns
<1>4. RowVerdicts'
  BY DEF TypeOK, SenderLocals, RowClaims, RowVerdicts, SenderClaims,
     Reported, Requests, Request, Owns
<1>5. SenderClaims'
  BY DEF TypeOK, SenderLocals, RowClaims, SenderClaims, Requests, Request,
     Owns
<1>6. DistinctClaims'
  BY DEF TypeOK, SenderLocals, RowClaims, SenderClaims, DistinctClaims,
     Requests, Request, Owns
<1>7. Arrivals'
  BY DEF TypeOK, RowClaims, Requests, Arrivals
<1> QED BY <1>7, <1>1, <1>2, <1>3, <1>4, <1>5, <1>6

LEMMA ClaimAgesIInv ==
  ASSUME IInv, NEW a \in Attempts, ClaimAges(a)
  PROVE  IInv'
<1> USE OutboxAssumption DEF IInv, ClaimAges, rowVars, senderVars, wireVars
<1>1. TypeOK'
  BY DEF TypeOK, SenderLocals, Statuses, Codes, Answers, Stages, Reported
<1>2. SenderLocals'
  BY DEF TypeOK, SenderLocals, Stages
<1>3. RowClaims'
  BY DEF TypeOK, SenderLocals, RowClaims, RowVerdicts, SenderClaims,
     Requests, Request, Owns
<1>4. RowVerdicts'
  BY DEF TypeOK, SenderLocals, RowClaims, RowVerdicts, SenderClaims,
     Reported, Requests, Request, Owns
<1>5. SenderClaims'
  BY DEF TypeOK, SenderLocals, RowClaims, SenderClaims, Requests, Request,
     Owns
<1>6. DistinctClaims'
  BY DEF TypeOK, SenderLocals, RowClaims, SenderClaims, DistinctClaims,
     Requests, Request, Owns
<1>7. Arrivals'
  BY DEF TypeOK, RowClaims, Requests, Arrivals
<1> QED BY <1>7, <1>1, <1>2, <1>3, <1>4, <1>5, <1>6

-----------------------------------------------------------------------------
LEMMA NextIInv == IInv /\ [Next]_vars => IInv'
<1> SUFFICES ASSUME IInv, [Next]_vars PROVE IInv'
  OBVIOUS
<1>1. CASE UNCHANGED vars
  BY <1>1 DEF vars, rowVars, senderVars, wireVars, IInv, TypeOK, SenderLocals,
     RowClaims, RowVerdicts, SenderClaims, DistinctClaims, Arrivals, Requests,
     Request
<1>2. CASE \E a \in Attempts : Enqueue(a) \/ BackoffEnds(a) \/ ClaimAges(a)
  BY <1>2, EnqueueIInv, BackoffEndsIInv, ClaimAgesIInv
<1>3. CASE \E s \in Senders, a \in Attempts : StartHumanReply(s, a) \/ Retry(s, a)
  BY <1>3, StartHumanReplyIInv, ClaimByIInv DEF Retry
<1>4. CASE \E s \in Senders, a \in Attempts, st \in Reported :
             ProviderReports(s, a, st)
  BY <1>4, ProviderReportsIInv
<1>5. CASE \E s \in Senders : SenderStep(s)
  BY <1>5, InsertHumanReplyIInv, RecordHumanReplyIInv, DeliverHumanReplyIInv,
     ProviderAnswersIInv, SettleIInv, ReadForSyncIInv, CopyToHistoryIInv
     DEF SenderStep
<1>6. CASE \E s \in Senders : ExpireClaims(s) \/ Crash(s)
  BY <1>6, ExpireClaimsIInv, CrashIInv
<1>7. CASE \E q \in wire : ProviderAccepts(q)
  BY <1>7, ProviderAcceptsIInv
<1> QED BY <1>1, <1>2, <1>3, <1>4, <1>5, <1>6, <1>7 DEF Next

THEOREM Invariance == Spec => []IInv
BY InitIInv, NextIInv, PTL DEF Spec

\* Every variable of the outbound transport keeps its type.
THEOREM TypeSafety == Spec => []TypeOK
<1>1. IInv => TypeOK
  BY DEF IInv
<1> QED BY <1>1, Invariance, PTL

\* At most one copy of every message arrives, for any number of rows, senders
\* and attempts: two requests of one row that arrived are of its last claim.
THEOREM NoDuplicateSend == Spec => []OneCopy
<1>1. IInv => OneCopy
  <2> SUFFICES ASSUME IInv, NEW q \in accepted, NEW r \in accepted, q[1] = r[1]
               PROVE  q = r
    BY DEF OneCopy
  <2>1. q[2] = tries[q[1]] /\ r[2] = tries[q[1]]
    BY DEF IInv, TypeOK, RowClaims, Requests
  <2> QED BY <2>1 DEF IInv, TypeOK
<1> QED BY <1>1, Invariance, PTL

\* No two senders own the same row at the same time.
THEOREM SingleOwner == Spec => []OneOwner
<1>1. IInv => OneOwner
  BY DEF IInv, OneOwner, Owns, DistinctClaims
<1> QED BY <1>1, Invariance, PTL

\* The stored verdict never contradicts what happened to the message.
THEOREM TrueVerdicts == Spec => []VerdictIsTrue
<1>1. IInv => VerdictIsTrue
  BY DEF IInv, VerdictIsTrue, RowClaims, RowVerdicts
<1> QED BY <1>1, Invariance, PTL

\* A waiting row can always be claimed again.
THEOREM NoRowIsStranded == Spec => []NoStrandedRow
<1>1. IInv => NoStrandedRow
  BY DEF IInv, NoStrandedRow, RowClaims
<1> QED BY <1>1, Invariance, PTL

\* A row that failed unsent keeps its verdict, and nothing more is sent for it.
THEOREM FailedStaysFailed == Spec => FailedUnsentIsFinal
<1> DEFINE Final(a) ==
      status[a] = "failed" /\ a \notin known =>
        /\ status'[a] = "failed" /\ code'[a] = code[a]
        /\ {q \in wire' : q[1] = a} \subseteq wire
<1>1. ASSUME IInv, Next, NEW a \in Attempts PROVE Final(a)
  <2> USE <1>1 DEF IInv, TypeOK, rowVars, senderVars, wireVars
  <2>1. ASSUME NEW s \in Senders, NEW b \in Attempts, ClaimBy(s, b) PROVE Final(a)
    BY <2>1 DEF ClaimBy, Claimable
  <2>2. CASE \E b \in Attempts : Enqueue(b) \/ BackoffEnds(b) \/ ClaimAges(b)
    BY <2>2 DEF Enqueue, BackoffEnds, ClaimAges
  <2>3. CASE \E s \in Senders, b \in Attempts : StartHumanReply(s, b) \/ Retry(s, b)
    BY <2>1, <2>3 DEF StartHumanReply, Retry
  <2>4. CASE \E s \in Senders, b \in Attempts, st \in Reported :
               ProviderReports(s, b, st)
    BY <2>4 DEF ProviderReports
  <2>5. ASSUME NEW s \in Senders, Settle(s) PROVE Final(a)
    <3>1. CASE ~Owns(s)
      BY <2>5, <3>1 DEF Settle
    <3>2. CASE Owns(s)
      <4>1. row[s] \in Attempts /\ status[row[s]] = "pending"
        BY <2>5, <3>2 DEF Settle, Owns, SenderLocals, RowClaims, SenderClaims
      <4> QED BY <2>5, <3>2, <4>1 DEF Settle, Verdict, MarkSent, MarkFailed,
                 ScheduleRetry
    <3> QED BY <3>1, <3>2
  <2>6. ASSUME NEW s \in Senders, DeliverHumanReply(s) PROVE Final(a)
    BY <2>1, <2>6 DEF DeliverHumanReply, SenderLocals
  <2>7. ASSUME NEW s \in Senders,
               \/ InsertHumanReply(s) \/ RecordHumanReply(s) \/ ProviderAnswers(s)
               \/ ReadForSync(s) \/ CopyToHistory(s) \/ ExpireClaims(s) \/ Crash(s)
        PROVE  Final(a)
    BY <2>7 DEF InsertHumanReply, RecordHumanReply, ProviderAnswers, ReadForSync,
       CopyToHistory, ExpireClaims, Crash, Expired, SenderLocals
  <2>8. CASE \E q \in wire : ProviderAccepts(q)
    BY <2>8 DEF ProviderAccepts
  <2> QED BY <1>1, <2>2, <2>3, <2>4, <2>5, <2>6, <2>7, <2>8 DEF Next, SenderStep
<1>2. IInv /\ [Next]_vars => [\A a \in Attempts : Final(a)]_vars
  BY <1>1
<1> QED BY <1>2, Invariance, PTL DEF Spec, FailedUnsentIsFinal

-----------------------------------------------------------------------------
(* Outbox implements AtMostOnceSend.                                       *)

told   == [a \in Attempts |-> Told(a)]
copied == [a \in Attempts |-> {q \in accepted : q[1] = a}]

LEMMA PromiseInit == Init => Promise!Init
BY DEF Init, Promise!Init, Told

\* The steps that show: what a row is told, or what arrived of it, changes.
LEMMA SubmitStep ==
  ASSUME IInv, NEW a \in Attempts, status[a] = "absent",
         status' = [status EXCEPT ![a] = "pending"],
         UNCHANGED <<code, known, accepted>>
  PROVE  Promise!Next
<1>1. told[a] = "none" /\ told' = [told EXCEPT ![a] = "open"] /\ copied' = copied
  BY DEF told, copied, Told, IInv, TypeOK
<1>2. Promise!Submit(a)
  BY <1>1 DEF Promise!Submit, told, copied
<1> QED BY <1>2 DEF Promise!Next

LEMMA AcceptStep ==
  ASSUME IInv, NEW q \in wire, ProviderAccepts(q)
  PROVE  Promise!Next
<1> DEFINE a == q[1]
<1>1. a \in Attempts /\ q \in Attempts \X (1..MaxAttempts)
  BY DEF IInv, TypeOK
<1>2. \A r \in accepted : r[1] # a
  <2> SUFFICES ASSUME NEW r \in accepted, r[1] = a PROVE FALSE
    OBVIOUS
  <2>1. r[2] = q[2] /\ r \in Attempts \X (1..MaxAttempts)
    BY <1>1 DEF IInv, TypeOK, RowClaims, Requests
  <2> QED BY <1>1, <2>1 DEF IInv, Arrivals
<1>3. told[a] \in {"open", "lost"} /\ told' = told
  BY <1>1, <1>2 DEF told, Told, IInv, TypeOK, Statuses, RowClaims, RowVerdicts,
     Requests, ProviderAccepts, rowVars
<1>4. copied[a] = {} /\ copied' = [copied EXCEPT ![a] = {q}]
  BY <1>1, <1>2 DEF copied, ProviderAccepts
<1>5. Promise!Accept(a)
  BY <1>1, <1>3, <1>4 DEF Promise!Accept, told, copied
<1> QED BY <1>1, <1>5 DEF Promise!Next

LEMMA GiveUpStep ==
  ASSUME IInv, NEW M \in SUBSET Attempts, M # {},
         \A a \in M : status[a] = "pending" /\ a \notin known,
         status' = [a \in Attempts |-> IF a \in M THEN "failed" ELSE status[a]],
         \A a \in M : code'[a] # "refused",
         \A a \in Attempts \ M : code'[a] = code[a],
         UNCHANGED <<known, accepted>>
  PROVE  Promise!Next
<1>1. /\ M \in SUBSET {a \in Attempts : told[a] = "open"}
      /\ told' = [a \in Attempts |-> IF a \in M THEN "lost" ELSE told[a]]
      /\ copied' = copied
  BY DEF told, copied, Told, IInv, TypeOK
<1>2. Promise!GiveUp
  BY <1>1 DEF Promise!GiveUp, told, copied
<1> QED BY <1>2 DEF Promise!Next

LEMMA ReportStep ==
  ASSUME IInv, NEW s \in Senders, NEW a \in Attempts, NEW st \in Reported,
         ProviderReports(s, a, st)
  PROVE  Promise!Next
<1> DEFINE v == IF st = "failed" THEN "undelivered" ELSE "sent"
<1>1. told[a] \in {"sent", "undelivered"} /\ copied' = copied
  BY DEF told, copied, Told, IInv, RowVerdicts, Reported, ProviderReports,
     wireVars
<1>2. \A b \in Attempts : Told(b)' = IF b = a THEN v ELSE Told(b)
  BY DEF Told, IInv, TypeOK, Reported, ProviderReports
<1>3. told' = [told EXCEPT ![a] = v] /\ v \in {"sent", "undelivered"}
  BY <1>2 DEF told
<1>4. Promise!Report(a)
  BY <1>1, <1>3 DEF Promise!Report, told, copied
<1> QED BY <1>4 DEF Promise!Next

LEMMA ConfirmStep ==
  ASSUME IInv, NEW a \in Attempts, status[a] = "pending", MarkSent(a),
         UNCHANGED accepted, \E q \in accepted : q[1] = a
  PROVE  Promise!Next
<1>1. told[a] = "open" /\ copied[a] # {} /\ copied' = copied
  BY DEF told, copied, Told
<1>2. \A b \in Attempts : Told(b)' = IF b = a THEN "sent" ELSE Told(b)
  BY DEF Told, MarkSent, IInv, TypeOK
<1>3. told' = [told EXCEPT ![a] = "sent"]
  BY <1>2 DEF told
<1>4. Promise!Confirm(a)
  BY <1>1, <1>3 DEF Promise!Confirm, told, copied
<1> QED BY <1>4 DEF Promise!Next

LEMMA RefuseStep ==
  ASSUME IInv, NEW a \in Attempts, status[a] = "pending", a \notin known,
         MarkFailed(a, "refused"), UNCHANGED accepted,
         \A q \in accepted : q[1] # a
  PROVE  Promise!Next
<1>1. told[a] = "open" /\ copied[a] = {} /\ copied' = copied
  BY DEF told, copied, Told
<1>2. \A b \in Attempts : Told(b)' = IF b = a THEN "refused" ELSE Told(b)
  BY DEF Told, MarkFailed, IInv, TypeOK
<1>3. told' = [told EXCEPT ![a] = "refused"]
  BY <1>2 DEF told
<1>4. Promise!Refuse(a)
  BY <1>1, <1>3 DEF Promise!Refuse, told, copied
<1> QED BY <1>4 DEF Promise!Next

LEMMA LoseStep ==
  ASSUME IInv, NEW a \in Attempts, status[a] = "pending", a \notin known,
         NEW c \in {"invalid_response", "unknown"}, MarkFailed(a, c),
         UNCHANGED accepted
  PROVE  Promise!Next
<1> DEFINE M == {a}
<1>1. M \in SUBSET Attempts /\ M # {}
  OBVIOUS
<1>2. \A b \in M : status[b] = "pending" /\ b \notin known
  OBVIOUS
<1>3. status' = [b \in Attempts |-> IF b \in M THEN "failed" ELSE status[b]]
  BY DEF MarkFailed, IInv, TypeOK
<1>4. \A b \in M : code'[b] # "refused"
  BY DEF MarkFailed, IInv, TypeOK
<1>5. \A b \in Attempts \ M : code'[b] = code[b]
  BY DEF MarkFailed, IInv, TypeOK
<1>6. UNCHANGED <<known, accepted>>
  BY DEF MarkFailed
<1> HIDE DEF M
<1> QED BY <1>1, <1>2, <1>3, <1>4, <1>5, <1>6, GiveUpStep

LEMMA RescheduleStep ==
  ASSUME IInv, NEW a \in Attempts, status[a] = "pending", ScheduleRetry(a),
         UNCHANGED accepted
  PROVE  told' = told /\ copied' = copied
<1>1. \A b \in Attempts : Told(b)' = Told(b)
  BY DEF Told, ScheduleRetry, IInv, TypeOK
<1> QED BY <1>1 DEF told, copied

LEMMA SettleStep ==
  ASSUME IInv, NEW s \in Senders, Settle(s)
  PROVE  Promise!Next \/ (told' = told /\ copied' = copied)
<1>1. CASE ~Owns(s)
  <2>1. UNCHANGED <<status, code, known, accepted>>
    BY <1>1 DEF Settle, rowVars, wireVars
  <2> QED BY <2>1 DEF told, copied, Told
<1>2. CASE Owns(s)
  <2>1. PICK a \in Attempts : a = row[s]
    BY DEF Settle, IInv, SenderLocals
  <2>2. /\ status[a] = "pending" /\ a \notin known /\ pc[s] = "settle"
        /\ Verdict(a, answer[s]) /\ UNCHANGED accepted
    BY <1>2, <2>1 DEF Settle, Owns, IInv, TypeOK, SenderLocals, RowClaims,
       RowVerdicts, SenderClaims, Reported, wireVars
  <2>3. \A q \in accepted : q[1] = a => q = Request(s)
    <3>1. held[s] = tries[a]
      BY <1>2, <2>1, <2>2 DEF Owns, IInv, TypeOK, RowClaims, SenderClaims
    <3>2. \A q \in accepted : q[1] = a => q[2] = tries[a] /\ q = <<q[1], q[2]>>
      BY DEF IInv, TypeOK, RowClaims, Requests
    <3> QED BY <2>1, <3>1, <3>2 DEF Request
  <2>4. answer[s] = "ok" => Request(s) \in accepted
    BY <1>2, <2>2 DEF IInv, SenderClaims
  <2>5. answer[s] \in {"refused", "throttled"} => Request(s) \notin accepted
    BY <1>2, <2>2 DEF IInv, SenderClaims, Requests
  <2>6. CASE answer[s] = "ok" /\ MarkSent(a)
    BY <2>1, <2>2, <2>4, <2>6, ConfirmStep DEF Request
  <2>7. CASE ScheduleRetry(a)
    BY <2>2, <2>7, RescheduleStep
  <2>8. CASE answer[s] \in {"refused", "throttled"} /\ MarkFailed(a, "refused")
    BY <2>2, <2>3, <2>5, <2>8, RefuseStep
  <2>9. CASE answer[s] \in {"invalid_response", "unknown"} /\ MarkFailed(a, answer[s])
    BY <2>2, <2>9, LoseStep
  <2> QED BY <2>2, <2>6, <2>7, <2>8, <2>9 DEF Verdict
<1> QED BY <1>1, <1>2

LEMMA PromiseNext ==
  IInv /\ [Next]_vars => [Promise!Next]_<<told, copied>>
<1> SUFFICES ASSUME IInv, [Next]_vars
             PROVE  Promise!Next \/ (told' = told /\ copied' = copied)
  OBVIOUS
<1> USE DEF rowVars, senderVars, wireVars
<1>1. ASSUME UNCHANGED <<status, code, known, accepted>>
      PROVE  told' = told /\ copied' = copied
  BY <1>1 DEF told, copied, Told
<1>2. CASE UNCHANGED vars
  BY <1>1, <1>2 DEF vars
<1>3. CASE \E a \in Attempts : Enqueue(a)
  BY <1>3, SubmitStep DEF Enqueue
<1>4. CASE \E a \in Attempts : BackoffEnds(a) \/ ClaimAges(a)
  BY <1>1, <1>4 DEF BackoffEnds, ClaimAges
<1>5. CASE \E s \in Senders, a \in Attempts : StartHumanReply(s, a) \/ Retry(s, a)
  BY <1>1, <1>5 DEF StartHumanReply, Retry, ClaimBy
<1>6. CASE \E s \in Senders, a \in Attempts, st \in Reported :
             ProviderReports(s, a, st)
  BY <1>6, ReportStep
<1>7. ASSUME NEW s \in Senders, InsertHumanReply(s)
      PROVE  Promise!Next \/ (told' = told /\ copied' = copied)
  <2>1. row[s] \in Attempts
    BY <1>7 DEF IInv, SenderLocals, InsertHumanReply
  <2> QED BY <1>1, <1>7, <2>1, SubmitStep DEF InsertHumanReply
<1>8. CASE \E s \in Senders : Settle(s)
  BY <1>8, SettleStep
<1>9. CASE \E s \in Senders :
             \/ RecordHumanReply(s) \/ DeliverHumanReply(s) \/ ProviderAnswers(s)
             \/ ReadForSync(s) \/ CopyToHistory(s) \/ Crash(s)
  BY <1>1, <1>9 DEF RecordHumanReply, DeliverHumanReply, ClaimBy,
     ProviderAnswers, ReadForSync, CopyToHistory, Crash
<1>10. ASSUME NEW s \in Senders, ExpireClaims(s) PROVE Promise!Next
  <2>1. Expired \in SUBSET Attempts /\ Expired # {}
    BY <1>10 DEF ExpireClaims, Expired
  <2>2. \A a \in Expired : status[a] = "pending" /\ a \notin known
    BY DEF Expired, IInv, RowVerdicts, Reported
  <2>3. /\ \A a \in Expired : code'[a] # "refused"
        /\ \A a \in Attempts \ Expired : code'[a] = code[a]
    BY <1>10, <2>1 DEF ExpireClaims
  <2>4. status' = [a \in Attempts |-> IF a \in Expired THEN "failed" ELSE status[a]]
    BY <1>10 DEF ExpireClaims
  <2>5. UNCHANGED <<known, accepted>>
    BY <1>10 DEF ExpireClaims
  <2> QED BY <2>1, <2>2, <2>3, <2>4, <2>5, GiveUpStep
<1>11. CASE \E q \in wire : ProviderAccepts(q)
  BY <1>11, AcceptStep
<1> QED BY <1>2, <1>3, <1>4, <1>5, <1>6, <1>7, <1>8, <1>9, <1>10, <1>11
       DEF Next, SenderStep

\* What the outbox shows of every message is what AtMostOnceSend promises.
THEOREM Implementation == Spec => ImplementsPromise
BY PromiseInit, PromiseNext, Invariance, PTL
   DEF Spec, ImplementsPromise, Promise!Spec, told, copied

\* One copy, one owner, true verdicts and no stranded row, of any rows, senders
\* and number of attempts, whoever crashes or answers late.
THEOREM SafeSends == Spec => []SendsAreSafe
<1>1. OneCopy /\ OneOwner /\ VerdictIsTrue /\ NoStrandedRow => SendsAreSafe
  BY DEF SendsAreSafe
<1> QED BY <1>1, NoDuplicateSend, SingleOwner, TrueVerdicts, NoRowIsStranded, PTL
=============================================================================
