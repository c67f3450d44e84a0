----------------------------- MODULE InboxProofs -----------------------------
(* The safety of the inbound transport for any messages, customers, workers *)
(* and maximum of attempts, and that it implements ConversationLog; then    *)
(* the theorems of ProviderStatus.                                          *)
EXTENDS Inbox, ProviderStatus, Sequences, TLAPS

\* The inductive invariant.  A worker that passed acquire_for_processing is
\* the only one on its receipt, which waits and has an attempt left; one that
\* locked the contact is the only one on the customer's conversation, and what
\* it loaded is still the count when it commits.
HasMessage == \A w \in Workers : pc[w] # "idle" => msg[w] \in Messages

ReceiptHeld ==
    \A w \in Workers : pc[w] \in Working =>
        /\ status[msg[w]] \in {"received", "failed"}
        /\ tries[msg[w]] < MaxAttempts

OneHolder ==
    \A w, v \in Workers :
        pc[w] \in Working /\ pc[v] \in Working /\ msg[w] = msg[v] => w = v

OnePerConversation ==
    \A w, v \in Workers :
        /\ pc[w] \in {"read", "finish"} /\ pc[v] \in {"read", "finish"}
        /\ CustomerOf[msg[w]] = CustomerOf[msg[v]]
        => w = v

FreshRead ==
    \A w \in Workers : pc[w] = "finish" => read[w] = count[CustomerOf[msg[w]]]

Holding == HasMessage /\ ReceiptHeld /\ OneHolder /\ OnePerConversation /\ FreshRead

IInv == TypeOK /\ Holding /\ RunOnce /\ NumberedInTurn /\ AttemptNeedsPayload

-----------------------------------------------------------------------------
LEMMA InitIInv == Init => IInv
<1> SUFFICES ASSUME Init PROVE IInv
  OBVIOUS
<1> USE InboxAssumption DEF Init
<1>1. TypeOK
  BY DEF TypeOK, Statuses, Stages
<1>2. Holding
  BY DEF Holding, HasMessage, ReceiptHeld, OneHolder, OnePerConversation,
     FreshRead, Working
<1>3. RunOnce /\ AttemptNeedsPayload
  BY DEF RunOnce, AttemptNeedsPayload
<1>4. NumberedInTurn
  BY DEF NumberedInTurn, Processed
<1> QED BY <1>1, <1>2, <1>3, <1>4 DEF IInv

\* Every step that leaves the results of the handler alone keeps the numbers.
LEMMA NumbersKept ==
    ASSUME TypeOK, NumberedInTurn, UNCHANGED <<count, sequence>>,
           \A m \in Messages : (status[m] = "processed") = (status'[m] = "processed")
    PROVE  NumberedInTurn'
<1>1. \A c \in Customers : Processed(c)' = Processed(c)
  BY DEF Processed
<1> QED BY <1>1 DEF NumberedInTurn

-----------------------------------------------------------------------------
LEMMA TypeStep == ASSUME IInv, [Next]_vars PROVE TypeOK'
<1> USE InboxAssumption
        DEF IInv, TypeOK, Holding, HasMessage, ReceiptHeld, Working, Statuses,
            Stages, receiptVars, resultVars, workerVars
<1>1. ASSUME NEW w \in Workers, NEW m \in Messages, Deliver(w, m) PROVE TypeOK'
  BY <1>1 DEF Deliver
<1>2. ASSUME NEW w \in Workers, NEW m \in Messages, Recover(w, m) PROVE TypeOK'
  BY <1>2 DEF Recover
<1>3. ASSUME NEW w \in Workers, RejectPayload(w) PROVE TypeOK'
  BY <1>3 DEF RejectPayload, Rest
<1>4. ASSUME NEW w \in Workers, Acquire(w) PROVE TypeOK'
  <2>1. CASE ~Acquirable(msg[w])
    <3>1. Rest(w) /\ UNCHANGED <<receiptVars, resultVars, crashes, channelOpen>>
      BY <1>4, <2>1 DEF Acquire
    <3> QED BY <3>1 DEF Rest
  <2>2. CASE Acquirable(msg[w])
    <3>1. PICK st \in {"raise", "contact"} : pc' = [pc EXCEPT ![w] = st]
      BY <1>4, <2>2 DEF Acquire
    <3> QED BY <1>4, <2>2, <3>1 DEF Acquire
  <2> QED BY <2>1, <2>2
<1>5. ASSUME NEW w \in Workers, LookForContact(w) PROVE TypeOK'
  BY <1>5 DEF LookForContact
<1>6. ASSUME NEW w \in Workers, LockContact(w) PROVE TypeOK'
  BY <1>6 DEF LockContact
<1>7. ASSUME NEW w \in Workers, ReadConversation(w) PROVE TypeOK'
  BY <1>7 DEF ReadConversation
<1>8. ASSUME NEW w \in Workers, Raise(w) PROVE TypeOK'
  BY <1>8 DEF Raise
<1>9. ASSUME NEW w \in Workers, Finish(w) PROVE TypeOK'
  BY <1>9 DEF Finish, Rest
<1>10. ASSUME NEW w \in Workers, RecordFailure(w) PROVE TypeOK'
  BY <1>10 DEF RecordFailure, Rest
<1>11. ASSUME NEW w \in Workers, Crash(w) PROVE TypeOK'
  BY <1>11 DEF Crash, Rest
<1>12. ASSUME NEW m \in Messages, BackoffEnds(m) PROVE TypeOK'
  BY <1>12 DEF BackoffEnds
<1>13. ASSUME UNCHANGED vars PROVE TypeOK'
  BY <1>13 DEF vars
<1>14. ASSUME NEW w \in Workers, Route(w) PROVE TypeOK'
  <2>1. CASE channelOpen
    BY <1>14, <2>1 DEF Route
  <2>2. CASE ~channelOpen
    <3>1. Rest(w) /\ UNCHANGED <<receiptVars, resultVars, crashes, channelOpen>>
      BY <1>14, <2>2 DEF Route
    <3> QED BY <3>1 DEF Rest
  <2> QED BY <2>1, <2>2
<1>15. ASSUME ChannelChanges PROVE TypeOK'
  BY <1>15 DEF ChannelChanges
<1> QED
  BY <1>1, <1>2, <1>3, <1>4, <1>5, <1>6, <1>7, <1>8, <1>9, <1>10, <1>11, <1>12,
     <1>13, <1>14, <1>15
  DEF Next, Step, Webhook

-----------------------------------------------------------------------------
LEMMA HoldingStep == ASSUME IInv, [Next]_vars PROVE Holding'
<1> USE InboxAssumption
        DEF IInv, TypeOK, Holding, HasMessage, ReceiptHeld, OneHolder,
            OnePerConversation, FreshRead, Working, Statuses, Stages,
            receiptVars, resultVars, workerVars
<1>1. ASSUME NEW w \in Workers, NEW m \in Messages, Deliver(w, m) PROVE Holding'
  BY <1>1 DEF Deliver
<1>2. ASSUME NEW w \in Workers, NEW m \in Messages, Recover(w, m) PROVE Holding'
  BY <1>2 DEF Recover, Recoverable
<1>3. ASSUME NEW w \in Workers, RejectPayload(w) PROVE Holding'
  BY <1>3 DEF RejectPayload, Rest, Locked
<1>4. ASSUME NEW w \in Workers, Acquire(w) PROVE Holding'
  BY <1>4 DEF Acquire, Rest, Acquirable, Locked
<1>5. ASSUME NEW w \in Workers, LookForContact(w) PROVE Holding'
  BY <1>5 DEF LookForContact
<1>6. ASSUME NEW w \in Workers, LockContact(w) PROVE Holding'
  BY <1>6 DEF LockContact, ContactLocked
<1>7. ASSUME NEW w \in Workers, ReadConversation(w) PROVE Holding'
  BY <1>7 DEF ReadConversation
<1>8. ASSUME NEW w \in Workers, Raise(w) PROVE Holding'
  BY <1>8 DEF Raise
<1>9. ASSUME NEW w \in Workers, Finish(w) PROVE Holding'
  BY <1>9 DEF Finish, Rest
<1>10. ASSUME NEW w \in Workers, RecordFailure(w) PROVE Holding'
  BY <1>10 DEF RecordFailure, Rest
<1>11. ASSUME NEW w \in Workers, Crash(w) PROVE Holding'
  BY <1>11 DEF Crash, Rest
<1>12. ASSUME NEW m \in Messages, BackoffEnds(m) PROVE Holding'
  BY <1>12 DEF BackoffEnds
<1>13. ASSUME UNCHANGED vars PROVE Holding'
  BY <1>13 DEF vars
<1>14. ASSUME NEW w \in Workers, Route(w) PROVE Holding'
  <2>1. CASE Rest(w) /\ ~channelOpen
    BY <1>14, <2>1 DEF Route, Rest
  <2>2. CASE channelOpen
    BY <1>14, <2>2 DEF Route
  <2> QED BY <1>14, <2>1, <2>2 DEF Route
<1>15. ASSUME ChannelChanges PROVE Holding'
  BY <1>15 DEF ChannelChanges
<1> QED
  BY <1>1, <1>2, <1>3, <1>4, <1>5, <1>6, <1>7, <1>8, <1>9, <1>10, <1>11, <1>12,
     <1>13, <1>14, <1>15
  DEF Next, Step, Webhook

-----------------------------------------------------------------------------
\* The commit of the handler appends the message to its conversation.
LEMMA FinishNumbers ==
    ASSUME IInv, NEW w \in Workers, Finish(w) PROVE NumberedInTurn'
<1> USE InboxAssumption DEF IInv, TypeOK
<1> DEFINE m == msg[w]
           cust == CustomerOf[m]
<1>1. /\ m \in Messages /\ cust \in Customers
      /\ read[w] = count[cust] /\ status[m] \in {"received", "failed"}
  BY DEF Finish, Holding, HasMessage, ReceiptHeld, FreshRead, Working
<1>2. /\ status' = [status EXCEPT ![m] = "processed"]
      /\ count' = [count EXCEPT ![cust] = count[cust] + 1]
      /\ sequence' = [sequence EXCEPT ![m] = count[cust] + 1]
  BY <1>1 DEF Finish
<1>3. \A c \in Customers :
         /\ count[c] \in Nat
         /\ Processed(c)' = IF c = cust THEN Processed(c) \cup {m} ELSE Processed(c)
         /\ m \notin Processed(c) /\ Processed(c) \subseteq Messages
  BY <1>1, <1>2 DEF Processed, Statuses
<1>4. ASSUME NEW c \in Customers PROVE
      /\ \A k \in Processed(c)' : sequence'[k] \in 1..count'[c]
      /\ \A n \in 1..count'[c] : \E k \in Processed(c)' : sequence'[k] = n
      /\ \A k, l \in Processed(c)' : sequence'[k] = sequence'[l] => k = l
  <2>1. /\ \A k \in Processed(c) : sequence[k] \in 1..count[c]
        /\ \A n \in 1..count[c] : \E k \in Processed(c) : sequence[k] = n
        /\ \A k, l \in Processed(c) : sequence[k] = sequence[l] => k = l
    BY DEF NumberedInTurn
  <2>2. \A k \in Processed(c) : sequence'[k] = sequence[k]
    BY <1>2, <1>3
  <2>3. CASE c # cust
    BY <1>2, <1>3, <2>1, <2>2, <2>3
  <2>4. CASE c = cust
    <3>1. /\ Processed(c)' = Processed(c) \cup {m} /\ count'[c] = count[c] + 1
          /\ sequence'[m] = count[c] + 1 /\ count[c] \in Nat
      BY <1>1, <1>2, <1>3, <2>4
    <3> HIDE DEF m, cust
    <3>2. \A k \in Processed(c) : sequence'[k] \in 1..count[c]
      BY <2>1, <2>2
    <3>3. \A k \in Processed(c)' : sequence'[k] \in 1..count'[c]
      BY <3>1, <3>2
    <3>4. \A n \in 1..count'[c] : \E k \in Processed(c)' : sequence'[k] = n
      BY <2>1, <2>2, <3>1
    <3>5. \A k, l \in Processed(c)' : sequence'[k] = sequence'[l] => k = l
      BY <2>1, <2>2, <3>1, <3>2
    <3> QED BY <3>3, <3>4, <3>5
  <2> QED BY <2>3, <2>4
<1> QED BY <1>4 DEF NumberedInTurn

LEMMA ResultStep ==
    ASSUME IInv,
           [Next]_vars PROVE RunOnce' /\ NumberedInTurn' /\ AttemptNeedsPayload'
<1>0. ASSUME NEW w \in Workers, Finish(w) PROVE NumberedInTurn'
  BY <1>0, FinishNumbers
<1> USE InboxAssumption
        DEF IInv, TypeOK, RunOnce, AttemptNeedsPayload, Holding, HasMessage,
            ReceiptHeld, Working, Statuses, receiptVars, resultVars, workerVars
<1>1. ASSUME NEW w \in Workers, Finish(w)
      PROVE  RunOnce' /\ NumberedInTurn' /\ AttemptNeedsPayload'
  <2>1. RunOnce'
    BY <1>1 DEF Finish
  <2>2. AttemptNeedsPayload'
    BY <1>1 DEF Finish
  <2> QED BY <1>1, <1>0, <2>1, <2>2
<1> DEFINE Kept == /\ UNCHANGED <<count, sequence, runs>>
                   /\ \A m \in Messages :
                        (status[m] = "processed") = (status'[m] = "processed")
                   /\ AttemptNeedsPayload'
<1>2. ASSUME NEW w \in Workers, NEW m \in Messages, Deliver(w, m) PROVE Kept
  BY <1>2 DEF Deliver
<1>3. ASSUME NEW w \in Workers, NEW m \in Messages, Recover(w, m) PROVE Kept
  BY <1>3 DEF Recover
<1>4. ASSUME NEW w \in Workers, RejectPayload(w) PROVE Kept
  BY <1>4 DEF RejectPayload
<1>5. ASSUME NEW w \in Workers, Acquire(w) PROVE Kept
  BY <1>5 DEF Acquire
<1>6. ASSUME NEW w \in Workers, LookForContact(w) PROVE Kept
  BY <1>6 DEF LookForContact
<1>7. ASSUME NEW w \in Workers, LockContact(w) PROVE Kept
  BY <1>7 DEF LockContact
<1>8. ASSUME NEW w \in Workers, ReadConversation(w) PROVE Kept
  BY <1>8 DEF ReadConversation
<1>9. ASSUME NEW w \in Workers, Raise(w) PROVE Kept
  BY <1>9 DEF Raise
<1>10. ASSUME NEW w \in Workers, RecordFailure(w) PROVE Kept
  BY <1>10 DEF RecordFailure
<1>11. ASSUME NEW w \in Workers, Crash(w) PROVE Kept
  BY <1>11 DEF Crash
<1>12. ASSUME NEW m \in Messages, BackoffEnds(m) PROVE Kept
  BY <1>12 DEF BackoffEnds
<1>13. ASSUME UNCHANGED vars PROVE Kept
  BY <1>13 DEF vars
<1>14. ASSUME NEW w \in Workers, Route(w) PROVE Kept
  BY <1>14 DEF Route
<1>15. ASSUME ChannelChanges PROVE Kept
  BY <1>15 DEF ChannelChanges
<1>16. Kept => RunOnce' /\ NumberedInTurn' /\ AttemptNeedsPayload'
  BY NumbersKept
<1> QED
  BY <1>1, <1>2, <1>3, <1>4, <1>5, <1>6, <1>7, <1>8, <1>9, <1>10, <1>11, <1>12,
     <1>13, <1>14, <1>15, <1>16
  DEF Next, Step, Webhook

THEOREM Invariance == Spec => []IInv
<1>1. IInv /\ [Next]_vars => IInv'
  BY TypeStep, HoldingStep, ResultStep DEF IInv
<1> QED
  BY InitIInv, <1>1, PTL DEF Spec

-----------------------------------------------------------------------------
(* The theorems.                                                           *)

\* Every variable keeps its type; in particular no receipt is attempted more
\* often than the maximum.
THEOREM TypeSafety == Spec => []TypeOK
<1>1. IInv => TypeOK
  BY DEF IInv
<1> QED BY Invariance, <1>1, PTL

\* However webhooks repeat, workers race and processes die, the handler's
\* effects are committed once for a processed message and never for another.
THEOREM HandledOnce == Spec => []RunOnce
<1>1. IInv => RunOnce
  BY DEF IInv
<1> QED BY Invariance, <1>1, PTL

\* The messages of every conversation are numbered 1, 2, 3 ... without a gap
\* or a repetition.
THEOREM Numbering == Spec => []NumberedInTurn
<1>1. IInv => NumberedInTurn
  BY DEF IInv
<1> QED BY Invariance, <1>1, PTL

\* A receipt with an attempt left has its payload.
THEOREM PayloadKept == Spec => []AttemptNeedsPayload
<1>1. IInv => AttemptNeedsPayload
  BY DEF IInv
<1> QED BY Invariance, <1>1, PTL

\* A processed receipt is never touched again, by a redelivery, by recovery or
\* by the rejection of its payload.
THEOREM ProcessedStays == Spec => ProcessedIsFinal
<1> DEFINE Kept == \A m \in Messages : status[m] = "processed" =>
                      status'[m] = "processed" /\ sequence'[m] = sequence[m]
<1>1. IInv /\ [Next]_vars => [Kept]_vars
  <2> SUFFICES ASSUME IInv, Next PROVE Kept
    BY DEF vars
  <2> USE DEF IInv, TypeOK, Holding, HasMessage, ReceiptHeld, Working,
              receiptVars, resultVars
  <2>1. ASSUME NEW w \in Workers, Step(w) PROVE Kept
    <3>1. CASE Finish(w)
      BY <3>1 DEF Finish
    <3>2. CASE RecordFailure(w)
      BY <3>2 DEF RecordFailure
    <3>3. CASE RejectPayload(w)
      BY <3>3 DEF RejectPayload
    <3>4. CASE \/ Route(w) \/ Acquire(w) \/ LookForContact(w)
               \/ LockContact(w) \/ ReadConversation(w)
      BY <3>4 DEF Route, Acquire, LookForContact, LockContact, ReadConversation
    <3> QED BY <2>1, <3>1, <3>2, <3>3, <3>4 DEF Step
  <2>2. ASSUME NEW w \in Workers, Raise(w) \/ Crash(w) PROVE Kept
    BY <2>2 DEF Raise, Crash
  <2>3. ASSUME NEW w \in Workers, NEW m \in Messages, Deliver(w, m) \/ Recover(w, m)
        PROVE  Kept
    BY <2>3 DEF Deliver, Recover
  <2>4. ASSUME NEW m \in Messages, BackoffEnds(m) PROVE Kept
    BY <2>4 DEF BackoffEnds
  <2>5. ASSUME ChannelChanges PROVE Kept
    BY <2>5 DEF ChannelChanges
  <2> QED BY <2>1, <2>2, <2>3, <2>4, <2>5 DEF Next, Webhook
<1> QED
  BY Invariance, <1>1, PTL DEF Spec, ProcessedIsFinal

\* Handlers run once, numbers have no gap and payloads are kept, for any
\* messages, customers, workers and crashes.
THEOREM HandlingInTurn == Spec => []HandledInTurn
<1>1. RunOnce /\ NumberedInTurn /\ AttemptNeedsPayload => HandledInTurn
  BY DEF HandledInTurn
<1> QED BY <1>1, HandledOnce, Numbering, PayloadKept, PTL

-----------------------------------------------------------------------------
(* Inbox implements ConversationLog.                                       *)

fates == [m \in Messages |-> Fate(m)]
logs  == [c \in Customers |-> Entries(c)]

\* A step that leaves the numbers alone and the fates of all but one message.
LEMMA LogKept ==
    ASSUME TypeOK, UNCHANGED <<count, sequence>>,
           \A m \in Messages : (status[m] = "processed") = (status'[m] = "processed")
    PROVE  logs' = logs
<1>1. \A c \in Customers : Processed(c)' = Processed(c)
  BY DEF Processed
<1> QED
  BY <1>1 DEF logs, Entries

LEMMA LogInit == Init => Log!Init
<1> SUFFICES ASSUME Init PROVE Log!Init
  OBVIOUS
<1>1. \A m \in Messages : Fate(m) = "new"
  BY DEF Init, Fate
<1>2. \A c \in Customers : Entries(c) = <<>>
  BY DEF Init, Entries
<1> QED
  BY <1>1, <1>2 DEF Log!Init

\* The commit of a handler appends its message to the conversation.
LEMMA HandleStep ==
    ASSUME IInv, NEW w \in Workers, Finish(w),
           NEW m \in Messages, m = msg[w], NEW c \in Customers, c = CustomerOf[m]
    PROVE  Log!Next
<1> USE InboxAssumption DEF IInv, TypeOK
<1>1. /\ m \in Messages /\ c \in Customers /\ read[w] = count[c]
      /\ status[m] \in {"received", "failed"} /\ tries[m] < MaxAttempts
  BY DEF Finish, Holding, HasMessage, ReceiptHeld, FreshRead, Working
<1>2. /\ status' = [status EXCEPT ![m] = "processed"]
      /\ count' = [count EXCEPT ![c] = count[c] + 1]
      /\ sequence' = [sequence EXCEPT ![m] = count[c] + 1]
      /\ tries' = [tries EXCEPT ![m] = tries[m] + 1]
  BY <1>1 DEF Finish
<1>3. fates[m] = "waiting" /\ fates' = [fates EXCEPT ![m] = "handled"]
  <2>1. status[m] \notin {"absent", "processed"} /\ tries[m] # MaxAttempts
    BY <1>1
  <2>2. Fate(m) = "waiting"
    BY <2>1 DEF Fate, Settled
  <2>3. ASSUME NEW k \in Messages, k # m PROVE Fate(k)' = Fate(k)
    <3>1. status'[k] = status[k] /\ tries'[k] = tries[k]
      BY <1>2, <2>3
    <3> QED
      BY <3>1 DEF Fate, Settled
  <2>4. Fate(m)' = "handled"
    BY <1>1, <1>2 DEF Fate
  <2> QED
    BY <2>2, <2>3, <2>4 DEF fates
<1>4. NumberedInTurn'
  BY FinishNumbers
<1>5. \A d \in Customers :
         /\ Processed(d)' = IF d = c THEN Processed(d) \cup {m} ELSE Processed(d)
         /\ m \notin Processed(d) /\ Processed(d) \subseteq Messages
  BY <1>1, <1>2 DEF Processed, Statuses
<1>6. ASSUME NEW d \in Customers, d # c PROVE logs'[d] = logs[d]
  <2> DEFINE old(i) == CHOOSE k \in Processed(d) : sequence[k] = i
             new(i) == CHOOSE k \in Processed(d)' : sequence'[k] = i
  <2>1. \A k \in Processed(d) : sequence'[k] = sequence[k]
    BY <1>2, <1>5
  <2>2. Processed(d)' = Processed(d) /\ count'[d] = count[d]
    BY <1>2, <1>5, <1>6
  <2>3. ASSUME NEW i \in 1..count[d] PROVE new(i) = old(i)
    <3>1. PICK k \in Processed(d) : sequence[k] = i
      BY DEF NumberedInTurn
    <3>2. old(i) = k
      BY <3>1 DEF NumberedInTurn
    <3>3. new(i) = k
      BY <1>4, <2>1, <2>2, <3>1 DEF NumberedInTurn
    <3> QED
      BY <3>2, <3>3
  <2>4. logs'[d] = [i \in 1..count'[d] |-> new(i)] /\ logs[d] = [i \in 1..count[d] |-> old(i)]
    BY DEF logs, Entries
  <2> HIDE DEF old, new
  <2> QED
    BY <2>2, <2>3, <2>4
<1>7. logs'[c] = Append(logs[c], m)
  <2> DEFINE n == count[c] + 1
             new == logs'[c]
  <2>1. count[c] \in Nat /\ count'[c] = n
    BY <1>1, <1>2
  <2>2. new = [i \in 1..n |-> new[i]]
    BY <1>1, <2>1 DEF logs, Entries
  <2>3. new[n] = m
    <3>1. m \in Processed(c)' /\ sequence'[m] = n
      BY <1>1, <1>2, <1>5
    <3>2. (CHOOSE k \in Processed(c)' : sequence'[k] = n) = m
      BY <1>1, <1>4, <3>1 DEF NumberedInTurn
    <3> QED
      BY <1>1, <2>1, <3>2 DEF logs, Entries
  <2>4. ASSUME NEW i \in 1..count[c] PROVE new[i] = logs[c][i]
    <3>1. PICK k \in Processed(c) : sequence[k] = i
      BY <1>1 DEF NumberedInTurn
    <3>2. k \in Processed(c)' /\ sequence'[k] = i
      BY <1>1, <1>2, <1>5, <3>1
    <3>3. (CHOOSE l \in Processed(c) : sequence[l] = i) = k
      BY <1>1, <3>1 DEF NumberedInTurn
    <3>4. (CHOOSE l \in Processed(c)' : sequence'[l] = i) = k
      BY <1>1, <1>4, <3>2 DEF NumberedInTurn
    <3>5. i \in 1..count'[c]
      BY <2>1
    <3> QED
      BY <1>1, <3>3, <3>4, <3>5 DEF logs, Entries
  <2>5. logs[c] = [i \in 1..count[c] |-> logs[c][i]]
    BY <1>1 DEF logs, Entries
  <2> HIDE DEF new
  <2>6. Len(logs[c]) = count[c]
    BY <2>1, <2>5
  <2>7. Append(logs[c], m) = [i \in 1..n |-> IF i <= count[c] THEN logs[c][i] ELSE m]
    BY <2>1, <2>6
  <2>8. \A i \in 1..n : new[i] = IF i <= count[c] THEN logs[c][i] ELSE m
    BY <2>1, <2>3, <2>4
  <2>9. new = Append(logs[c], m)
    BY <2>2, <2>7, <2>8
  <2> QED
    BY <2>9 DEF new
<1>8. logs' = [logs EXCEPT ![c] = Append(logs[c], m)]
  BY <1>1, <1>6, <1>7 DEF logs
<1>9. Log!Handle(m)
  BY <1>1, <1>3, <1>8 DEF Log!Handle, fates, logs
<1> QED
  BY <1>1, <1>9 DEF Log!Next

\* A failure gives the message up when its attempts are used up.
LEMMA FailStep ==
    ASSUME IInv, NEW m \in Messages, status[m] \in {"received", "failed"},
           status' = [status EXCEPT ![m] = "failed"],
           NEW n \in 0..MaxAttempts, tries' = [tries EXCEPT ![m] = n],
           Settled(m) => n = MaxAttempts, UNCHANGED <<count, sequence>>
    PROVE  Log!Next \/ (fates' = fates /\ logs' = logs)
<1> USE InboxAssumption DEF IInv, TypeOK
<1>1. logs' = logs
  BY LogKept
<1>2. \A k \in Messages : k # m => Fate(k)' = Fate(k)
  BY DEF Fate, Settled
<1>3. CASE Settled(m) \/ n # MaxAttempts
  <2>1. Fate(m)' = Fate(m)
    BY <1>3 DEF Fate, Settled
  <2> QED
    BY <1>1, <1>2, <2>1 DEF fates
<1>4. CASE ~Settled(m) /\ n = MaxAttempts
  <2>1. Fate(m) = "waiting" /\ Fate(m)' = "lost"
    BY <1>4 DEF Fate, Settled
  <2>2. fates[m] = "waiting" /\ fates' = [fates EXCEPT ![m] = "lost"]
    BY <1>2, <2>1 DEF fates
  <2>3. Log!GiveUp(m)
    BY <1>1, <2>2 DEF Log!GiveUp, fates, logs
  <2> QED
    BY <2>3 DEF Log!Next
<1> QED
  BY <1>3, <1>4

LEMMA ArriveStep ==
    ASSUME IInv, NEW w \in Workers, NEW m \in Messages, Deliver(w, m)
    PROVE  Log!Next \/ (fates' = fates /\ logs' = logs)
<1> USE InboxAssumption DEF IInv, TypeOK
<1>1. logs' = logs
  BY LogKept DEF Deliver, resultVars
<1>2. CASE status[m] # "absent"
  BY <1>1, <1>2 DEF Deliver, fates, Fate, Settled
<1>3. CASE status[m] = "absent"
  <2>1. status' = [status EXCEPT ![m] = "received"] /\ UNCHANGED tries
    BY <1>3 DEF Deliver
  <2>2. Fate(m) = "new" /\ Fate(m)' = "waiting"
    BY <1>3, <2>1 DEF Fate, Settled
  <2>3. \A k \in Messages : k # m => Fate(k)' = Fate(k)
    BY <2>1 DEF Fate, Settled
  <2>4. fates[m] = "new" /\ fates' = [fates EXCEPT ![m] = "waiting"]
    BY <2>2, <2>3 DEF fates
  <2>5. Log!Arrive(m)
    BY <1>1, <2>4 DEF Log!Arrive, fates, logs
  <2> QED
    BY <2>5 DEF Log!Next
<1> QED
  BY <1>2, <1>3

LEMMA LogNext ==
    IInv /\ [Next]_vars => [Log!Next]_<<fates, logs>>
<1> SUFFICES ASSUME IInv, [Next]_vars
             PROVE  Log!Next \/ (fates' = fates /\ logs' = logs)
  OBVIOUS
<1> DEFINE Shown == Log!Next \/ (fates' = fates /\ logs' = logs)
<1> USE DEF receiptVars, resultVars, workerVars
<1>1. ASSUME UNCHANGED <<status, tries, count, sequence>> PROVE Shown
  <2>1. fates' = fates
    BY <1>1 DEF fates, Fate, Settled
  <2> QED
    BY <1>1, <2>1, LogKept DEF IInv
<1>2. ASSUME NEW w \in Workers, Finish(w) PROVE Shown
  <2>1. msg[w] \in Messages /\ CustomerOf[msg[w]] \in Customers
    BY <1>2, InboxAssumption DEF Finish, IInv, Holding, HasMessage
  <2> QED
    BY <1>2, <2>1, HandleStep
<1>3. ASSUME NEW w \in Workers, RecordFailure(w) PROVE Shown
  <2>1. /\ msg[w] \in Messages /\ status[msg[w]] \in {"received", "failed"}
        /\ tries[msg[w]] \in 0..MaxAttempts /\ tries[msg[w]] < MaxAttempts
    BY <1>3 DEF RecordFailure, IInv, TypeOK, Holding, HasMessage, ReceiptHeld,
       Working
  <2>2. tries[msg[w]] + 1 \in 0..MaxAttempts /\ ~Settled(msg[w])
    BY <2>1, InboxAssumption DEF Settled
  <2> QED
    BY <1>3, <2>1, <2>2, FailStep DEF RecordFailure
<1>4. ASSUME NEW w \in Workers, RejectPayload(w) PROVE Shown
  <2>1. msg[w] \in Messages /\ MaxAttempts \in 0..MaxAttempts
    BY <1>4, InboxAssumption DEF RejectPayload, IInv, Holding, HasMessage
  <2>2. CASE status[msg[w]] \in {"received", "failed"}
    BY <1>4, <2>1, <2>2, FailStep DEF RejectPayload
  <2>3. CASE status[msg[w]] \notin {"received", "failed"}
    BY <1>1, <1>4, <2>3 DEF RejectPayload
  <2> QED
    BY <2>2, <2>3
<1>5. ASSUME NEW w \in Workers, NEW m \in Messages, Deliver(w, m) PROVE Shown
  BY <1>5, ArriveStep
<1>6. ASSUME NEW w \in Workers, NEW m \in Messages, Recover(w, m) PROVE Shown
  BY <1>1, <1>6 DEF Recover
<1>7. ASSUME NEW w \in Workers,
             \/ Route(w) \/ Acquire(w) \/ LookForContact(w) \/ LockContact(w)
             \/ ReadConversation(w) \/ Raise(w) \/ Crash(w)
      PROVE  Shown
  BY <1>1, <1>7 DEF Route, Acquire, LookForContact, LockContact, ReadConversation, Raise,
     Crash
<1>8. ASSUME NEW m \in Messages, BackoffEnds(m) PROVE Shown
  BY <1>1, <1>8 DEF BackoffEnds
<1>9. ASSUME UNCHANGED vars PROVE Shown
  BY <1>1, <1>9 DEF vars
<1>10. ASSUME ChannelChanges PROVE Shown
  BY <1>1, <1>10 DEF ChannelChanges
<1> QED
  BY <1>2, <1>3, <1>4, <1>5, <1>6, <1>7, <1>8, <1>9, <1>10 DEF Next, Step, Webhook

\* What the transport keeps of every message is what ConversationLog promises:
\* for any messages, customers, workers and crashes, conversations only grow, by
\* messages that were waiting, each appended once.
THEOREM Implementation == Spec => ImplementsLog
BY LogInit, LogNext, Invariance, PTL
   DEF Spec, ImplementsLog, Log!Spec, fates, logs

\* Whoever races, repeats or dies, a step leaves every conversation alone or
\* appends one message of that customer to one of them.
THEOREM ConversationsGrow ==
    Spec => [][\E m \in Messages :
                 \A c \in Customers :
                   logs'[c] = IF c = CustomerOf[m] THEN Append(logs[c], m)
                                                   ELSE logs[c]]_logs
<1> DEFINE Grown == \E m \in Messages :
                      \A c \in Customers :
                        logs'[c] = IF c = CustomerOf[m] THEN Append(logs[c], m)
                                                        ELSE logs[c]
<1>1. Log!Next => Grown \/ logs' = logs
  <2> SUFFICES ASSUME NEW m \in Messages, Log!Arrive(m) \/ Log!Handle(m) \/ Log!GiveUp(m)
               PROVE  Grown \/ logs' = logs
    BY DEF Log!Next
  <2>1. CASE Log!Arrive(m) \/ Log!GiveUp(m)
    BY <2>1 DEF Log!Arrive, Log!GiveUp, logs
  <2>2. CASE Log!Handle(m)
    <3>1. logs' = [logs EXCEPT ![CustomerOf[m]] = Append(logs[CustomerOf[m]], m)]
      BY <2>2 DEF Log!Handle, logs
    <3>2. DOMAIN logs = Customers
      BY DEF logs
    <3>3. \A c \in Customers :
             logs'[c] = IF c = CustomerOf[m] THEN Append(logs[c], m) ELSE logs[c]
      BY <3>1, <3>2
    <3> QED
      BY <3>3
  <2> QED
    BY <2>1, <2>2
<1>2. IInv /\ [Next]_vars => [Grown]_logs
  BY LogNext, <1>1
<1> QED
  BY Invariance, <1>2, PTL DEF Spec

-----------------------------------------------------------------------------
(* ProviderStatus: the reports about an outbound row, which the same       *)
(* webhook brings.                                                         *)

\* A handler serves a report that was emitted.
Serving == \A h \in Handlers : stage[h] = "update" => report[h] \in emitted

StatusInv == StatusTypeOK /\ Serving

\* A whole number of seconds that is not later.
LEMMA WholeSeconds ==
    ASSUME NEW x \in Nat, NEW k \in Nat \ {0}
    PROVE  (x \div k) * k \in 0..x
BY SMTT(30)

LEMMA StampTyped ==
    ASSUME NEW e \in Reports
    PROVE  Stamp(e) \in 0..MaxTime
<1>1. e.at \in Nat /\ e.at <= MaxTime /\ TicksPerSecond \in Nat \ {0} /\ MaxTime \in Nat
  BY StatusAssumption DEF Reports
<1> DEFINE s == (e.at \div TicksPerSecond) * TicksPerSecond
<1>2. s \in 0..e.at
  BY <1>1, WholeSeconds
<1> HIDE DEF s
<1>3. s \in 0..MaxTime
  BY <1>1, <1>2
<1> QED
  BY <1>3 DEF Stamp, s

LEMMA InitStatus ==
    ASSUME StatusInit
    PROVE  StatusInv
<1>1. NoRow \in Rows /\ NoReport \in Reports /\ 0 \in 0..MaxTime
  BY StatusAssumption DEF NoRow, Rows, NoReport, Reports, Reported,
     DeliveryStatuses
<1>2. /\ stage \in [Procs -> {"idle", "settle", "update", "sync", "copy"}]
      /\ \A h \in Handlers : stage[h] # "update"
  BY DEF StatusInit, Procs
<1>3. /\ report \in [Procs -> Reports] /\ snap \in [Procs -> Rows]
      /\ seen \in [Procs -> DeliveryStatuses]
  BY <1>1 DEF StatusInit, DeliveryStatuses
<1>4. /\ now \in 0..MaxTime /\ known \in BOOLEAN /\ row \in Rows
      /\ sentAt \in 0..MaxTime /\ history \in DeliveryStatuses
  BY <1>1 DEF StatusInit, DeliveryStatuses
<1>5. emitted = {} /\ flight = {} /\ heard = {}
  BY DEF StatusInit
<1> QED
  BY <1>2, <1>3, <1>4, <1>5 DEF StatusInv, StatusTypeOK, Serving

\* What the flush writes is a row, whatever the first read was.
LEMMA WrittenTyped ==
    ASSUME row \in Rows, NEW e \in Reports, NEW b
    PROVE  Written(b, e) \in Rows
<1>1. Stamp(e) \in 0..MaxTime
  BY StampTyped
<1>2. e.status \in DeliveryStatuses
  BY DEF Reports, Reported
<1> DEFINE c == IF e.status = "failed" THEN "provider" ELSE "none"
           st == IF e.status # b.status THEN e.status ELSE row.status
           at == IF Stamp(e) # b.stamp THEN Stamp(e) ELSE row.stamp
           cd == IF c # b.code THEN c ELSE row.code
<1>3. /\ row.status \in DeliveryStatuses /\ row.stamp \in 0..MaxTime
      /\ row.code \in {"none", "provider"}
  BY DEF Rows
<1>4. st \in DeliveryStatuses /\ at \in 0..MaxTime /\ cd \in {"none", "provider"}
  BY <1>1, <1>2, <1>3
<1>5. Written(b, e) = [status |-> st, stamp |-> at, code |-> cd]
  BY DEF Written
<1> HIDE DEF st, at, cd
<1> QED
  BY <1>4, <1>5 DEF Rows

LEMMA UpdateTyped ==
    ASSUME StatusInv, NEW h \in Handlers, UpdateStatus(h)
    PROVE  StatusInv'
<1> DEFINE e == report[h]
<1>0. /\ StatusTypeOK /\ Serving /\ h \in Procs /\ h # Sender
      /\ e \in emitted /\ e \in Reports /\ NoRow \in Rows
  BY StatusAssumption DEF StatusInv, StatusTypeOK, Serving, UpdateStatus, Procs,
     NoRow, Rows, DeliveryStatuses
<1>1. UNCHANGED <<now, known, sentAt, history, emitted, report, seen>>
  BY DEF UpdateStatus
<1>2. row' \in Rows
  <2>1. row' = row \/ row' = Written(Loaded(h), e)
    BY DEF UpdateStatus
  <2> QED
    BY <1>0, <2>1, WrittenTyped DEF StatusTypeOK
<1>3. heard' \subseteq emitted /\ flight' \subseteq emitted
  BY <1>0 DEF UpdateStatus, Acknowledge, StatusTypeOK
<1>4. /\ stage' \in [Procs -> {"idle", "settle", "update", "sync", "copy"}]
      /\ \A q \in Procs : stage'[q] = "update" => stage[q] = "update"
  BY <1>0 DEF UpdateStatus, Acknowledge, StatusTypeOK
<1>5. snap' \in [Procs -> Rows]
  BY <1>0 DEF UpdateStatus, StatusTypeOK
<1>6. StatusTypeOK'
  BY <1>0, <1>1, <1>2, <1>3, <1>4, <1>5 DEF StatusTypeOK
<1>7. Serving'
  BY <1>0, <1>1, <1>4 DEF Serving, Procs
<1> QED
  BY <1>6, <1>7 DEF StatusInv

LEMMA NextStatus ==
    ASSUME StatusInv, [StatusNext]_statusVars
    PROVE  StatusInv'
<1>0. /\ StatusTypeOK /\ Serving /\ now \in Nat /\ MaxTime \in Nat /\ Sender \in Procs
      /\ Handlers \subseteq Procs /\ Sender \notin Handlers /\ NoRow \in Rows
  BY StatusAssumption DEF StatusInv, StatusTypeOK, Procs, NoRow, Rows,
     DeliveryStatuses
<1>1. CASE Tick
  BY <1>0, <1>1 DEF Tick, StatusInv, StatusTypeOK, Serving, rowVars, procVars
<1>2. CASE MarkSent
  <2>1. row' \in Rows /\ sentAt' \in 0..MaxTime
    BY <1>0, <1>2 DEF MarkSent, StatusTypeOK, Rows, DeliveryStatuses
  <2>2. /\ stage' \in [Procs -> {"idle", "settle", "update", "sync", "copy"}]
        /\ \A h \in Handlers : stage'[h] = stage[h]
    BY <1>0, <1>2 DEF MarkSent, StatusTypeOK
  <2> QED
    BY <1>0, <1>2, <2>1, <2>2 DEF MarkSent, StatusInv, StatusTypeOK, Serving
<1>3. ASSUME NEW st \in Reported, Emit(st) PROVE StatusInv'
  <2>1. [status |-> st, at |-> now] \in Reports
    BY <1>0 DEF StatusTypeOK, Reports
  <2>2. /\ emitted' = emitted \cup {[status |-> st, at |-> now]}
        /\ flight' = flight \cup {[status |-> st, at |-> now]}
        /\ UNCHANGED <<now, rowVars, heard, procVars>>
    BY <1>3 DEF Emit
  <2> QED
    BY <1>0, <2>1, <2>2 DEF StatusInv, StatusTypeOK, Serving, rowVars, procVars
<1>4. ASSUME NEW h \in Handlers, UpdateStatus(h) PROVE StatusInv'
  BY <1>4, UpdateTyped
<1>5. ASSUME NEW h \in Handlers, NEW e \in flight, ReadRow(h, e) PROVE StatusInv'
  <2>1. e \in emitted /\ e \in Reports
    BY <1>0 DEF StatusTypeOK
  <2>2. /\ report' \in [Procs -> Reports] /\ snap' \in [Procs -> Rows]
        /\ stage' \in [Procs -> {"idle", "settle", "update", "sync", "copy"}]
    BY <1>0, <1>5, <2>1 DEF ReadRow, StatusTypeOK
  <2>3. \A q \in Handlers : stage'[q] = "update" => report'[q] \in emitted
    BY <1>0, <1>5, <2>1 DEF ReadRow, StatusTypeOK, Serving
  <2> QED
    BY <1>0, <1>5, <2>2, <2>3 DEF ReadRow, StatusInv, StatusTypeOK, Serving,
       rowVars
<1>6. ASSUME NEW p \in Procs, ReadForSync(p) PROVE StatusInv'
  <2>1. /\ stage' \in [Procs -> {"idle", "settle", "update", "sync", "copy"}]
        /\ seen' \in [Procs -> DeliveryStatuses]
        /\ \A q \in Procs : stage'[q] = "update" => stage[q] = "update"
    BY <1>0, <1>6 DEF ReadForSync, StatusTypeOK, Rows
  <2> QED
    BY <1>0, <1>6, <2>1 DEF ReadForSync, StatusInv, StatusTypeOK, Serving,
       rowVars
<1>7. ASSUME NEW p \in Procs, CopyToHistory(p) PROVE StatusInv'
  <2>1. /\ stage' \in [Procs -> {"idle", "settle", "update", "sync", "copy"}]
        /\ seen' \in [Procs -> DeliveryStatuses] /\ history' \in DeliveryStatuses
        /\ \A q \in Procs : stage'[q] = "update" => stage[q] = "update"
        /\ flight' \subseteq emitted
    BY <1>0, <1>7 DEF CopyToHistory, Acknowledge, StatusTypeOK, DeliveryStatuses
  <2> QED
    BY <1>0, <1>7, <2>1 DEF CopyToHistory, StatusInv, StatusTypeOK, Serving
<1>8. ASSUME NEW p \in Procs, ProcessDies(p) PROVE StatusInv'
  <2>1. /\ stage' \in [Procs -> {"idle", "settle", "update", "sync", "copy"}]
        /\ seen' \in [Procs -> DeliveryStatuses] /\ snap' \in [Procs -> Rows]
        /\ \A q \in Procs : stage'[q] = "update" => stage[q] = "update"
    BY <1>0, <1>8 DEF ProcessDies, StatusTypeOK, DeliveryStatuses
  <2> QED
    BY <1>0, <1>8, <2>1 DEF ProcessDies, StatusInv, StatusTypeOK, Serving, rowVars
<1>9. CASE UNCHANGED statusVars
  BY <1>0, <1>9 DEF statusVars, rowVars, procVars, StatusInv, StatusTypeOK, Serving
<1> QED
  BY <1>1, <1>2, <1>3, <1>4, <1>5, <1>6, <1>7, <1>8, <1>9 DEF StatusNext

\* ProviderStatus: no report, row or copy is in a state the code does not know,
\* for any number of handlers and any length of a second.
THEOREM StatusTyped == StatusSpec => []StatusTypeOK
<1>1. StatusInit => StatusInv
  BY InitStatus
<1>2. StatusInv /\ [StatusNext]_statusVars => StatusInv'
  BY NextStatus
<1>3. StatusInv => StatusTypeOK
  BY DEF StatusInv
<1> QED
  BY <1>1, <1>2, <1>3, PTL DEF StatusSpec

-----------------------------------------------------------------------------
(* One report is handled at a time: what a handler has read is the row.    *)

OneHandler == \A g, h \in Handlers : g = h

Serial ==
    /\ stage[Sender] = "settle" => ~known
    /\ ~known => row = NoRow /\ heard = {}
    /\ \A h \in Handlers : stage[h] = "update" =>
          snap[h] = NoRow \/ (known /\ snap[h] = row)

SerialInv == StatusInv /\ Serial

\* What one report does to the row: it is taken whole, or nothing changes.
LEMMA Taken ==
    ASSUME SerialInv, NEW h \in Handlers, UpdateStatus(h)
    PROVE  \/ /\ known /\ Accepts(row, report[h]) /\ row' = Written(row, report[h])
              /\ row' = [status |-> report[h].status, stamp |-> Stamp(report[h]),
                         code |-> IF report[h].status = "failed" THEN "provider"
                                  ELSE "none"]
           \/ /\ ~(known /\ Accepts(row, report[h])) /\ row' = row
<1> DEFINE e == report[h]
<1>1. known => Loaded(h) = row
  BY DEF SerialInv, Serial, UpdateStatus, Loaded
<1>2. Written(row, e) = [status |-> e.status, stamp |-> Stamp(e),
                         code |-> IF e.status = "failed" THEN "provider" ELSE "none"]
  BY DEF Written
<1>3. CASE known
  BY <1>1, <1>2, <1>3 DEF UpdateStatus
<1>4. CASE ~known
  BY <1>4 DEF UpdateStatus
<1> QED
  BY <1>3, <1>4

LEMMA NextSerial ==
    ASSUME OneHandler, SerialInv, [StatusNext]_statusVars
    PROVE  SerialInv'
<1>1. StatusInv /\ StatusInv'
  BY NextStatus DEF SerialInv
<1>2. /\ Serial /\ stage \in [Procs -> {"idle", "settle", "update", "sync", "copy"}]
      /\ snap \in [Procs -> Rows] /\ Sender \in Procs /\ Handlers \subseteq Procs
      /\ Sender \notin Handlers
  BY <1>1, StatusAssumption DEF SerialInv, StatusInv, StatusTypeOK, Procs
<1>3. ASSUME Tick PROVE Serial'
  BY <1>2, <1>3 DEF Tick, Serial, rowVars, procVars
<1>4. ASSUME MarkSent PROVE Serial'
  <2>1. /\ ~known /\ known' /\ stage'[Sender] = "sync" /\ snap' = snap
        /\ \A h \in Handlers : stage'[h] = stage[h]
    BY <1>2, <1>4 DEF MarkSent, Serial
  <2> QED
    BY <1>2, <2>1 DEF Serial
<1>5. ASSUME NEW st \in Reported, Emit(st) PROVE Serial'
  BY <1>2, <1>5 DEF Emit, Serial, rowVars, procVars
<1>6. ASSUME NEW h \in Handlers, UpdateStatus(h) PROVE Serial'
  <2>1. /\ stage'[h] # "update" /\ stage'[Sender] = stage[Sender] /\ known' = known
        /\ ~known => row' = row /\ heard' = heard
    BY <1>2, <1>6 DEF UpdateStatus, Acknowledge
  <2>2. \A g \in Handlers : stage'[g] # "update"
    BY <2>1 DEF OneHandler
  <2> QED
    BY <1>2, <2>1, <2>2 DEF Serial
<1>7. ASSUME NEW h \in Handlers, NEW e \in flight, ReadRow(h, e) PROVE Serial'
  <2>1. /\ stage'[Sender] = stage[Sender] /\ snap'[h] = row
        /\ UNCHANGED <<known, row, heard>>
    BY <1>2, <1>7 DEF ReadRow, rowVars
  <2>2. \A g \in Handlers : g = h
    BY DEF OneHandler
  <2> QED
    BY <1>2, <2>1, <2>2 DEF Serial
<1>8. ASSUME NEW p \in Procs, ReadForSync(p) \/ CopyToHistory(p) \/ ProcessDies(p)
      PROVE  Serial'
  <2>1. /\ UNCHANGED <<known, row, heard>>
        /\ stage'[Sender] = "settle" => stage[Sender] = "settle"
        /\ \A g \in Handlers : stage'[g] = "update" => stage[g] = "update" /\ snap'[g] = snap[g]
    <3>1. CASE ReadForSync(p)
      BY <1>2, <3>1 DEF ReadForSync, rowVars
    <3>2. CASE CopyToHistory(p)
      BY <1>2, <3>2 DEF CopyToHistory, Acknowledge
    <3>3. CASE ProcessDies(p)
      BY <1>2, <3>3 DEF ProcessDies, rowVars
    <3> QED
      BY <1>8, <3>1, <3>2, <3>3
  <2> QED
    BY <1>2, <2>1 DEF Serial
<1>9. ASSUME UNCHANGED statusVars PROVE Serial'
  BY <1>2, <1>9 DEF statusVars, rowVars, procVars, Serial
<1> QED
  BY <1>1, <1>3, <1>4, <1>5, <1>6, <1>7, <1>8, <1>9 DEF StatusNext, SerialInv

\* Only mark_sent and a handler change the row.
LEMMA NextRow ==
    ASSUME [StatusNext]_statusVars, row' # row
    PROVE  MarkSent \/ \E h \in Handlers : UpdateStatus(h)
BY DEF StatusNext, Tick, Emit, ReadRow, ReadForSync, CopyToHistory,
   ProcessDies, statusVars, rowVars

\* ProviderStatus: no report takes back what an earlier one reached, as long as
\* one is handled at a time, in whatever order they come and whoever dies.
THEOREM StatusNeverRegresses ==
    ASSUME OneHandler PROVE StatusSpec => NoRegression
<1>1. StatusInit => SerialInv
  <2> SUFFICES ASSUME StatusInit PROVE SerialInv
    OBVIOUS
  <2>1. Serial
    BY DEF StatusInit, Serial, Procs
  <2> QED
    BY <2>1, InitStatus DEF SerialInv
<1>2. SerialInv /\ [StatusNext]_statusVars => SerialInv'
  BY NextSerial
<1>3. SerialInv /\ [StatusNext]_statusVars => [Rank(row'.status) >= Rank(row.status)]_statusVars
  <2> SUFFICES ASSUME SerialInv, [StatusNext]_statusVars
               PROVE  Rank(row'.status) >= Rank(row.status)
    OBVIOUS
  <2>1. row.status \in DeliveryStatuses
    BY DEF SerialInv, StatusInv, StatusTypeOK, Rows
  <2>2. CASE row' = row
    BY <2>1, <2>2 DEF Rank, DeliveryStatuses
  <2>3. CASE MarkSent
    BY <2>3 DEF MarkSent, SerialInv, Serial, NoRow, Rank
  <2>4. ASSUME NEW h \in Handlers, UpdateStatus(h), row' # row
        PROVE  Rank(row'.status) >= Rank(row.status)
    BY <2>4, Taken DEF Accepts
  <2> QED
    BY <2>2, <2>3, <2>4, NextRow
<1> QED
  BY <1>1, <1>2, <1>3, PTL DEF StatusSpec, NoRegression

-----------------------------------------------------------------------------
(* Every report has a second of its own: the row shows the newest.         *)

\* The reports that were handled and are not older than the send.
Heard == {e \in heard : Stamp(e) >= sentAt}

\* Reports are told apart by their time, and their ranks do not fall.
InTime ==
    /\ \A e \in emitted : e.at <= now
    /\ \A e, f \in emitted : e.at = f.at => e = f
    /\ \A e, f \in emitted : e.at < f.at => Rank(e.status) <= Rank(f.status)

\* The row is the send, or the newest of the reports.
Shown ==
    known =>
       \/ Heard = {} /\ row.status = "sent" /\ row.stamp = sentAt
       \/ \E e \in Heard : /\ \A f \in Heard : f.at <= e.at
                           /\ row.status = e.status /\ row.stamp = e.at


LEMMA OwnSecond ==
    ASSUME TicksPerSecond = 1, NEW e \in Reports, MaxTime \in Nat
    PROVE  Stamp(e) = e.at
<1>1. e.at \in Nat
  BY DEF Reports
<1>2. (e.at \div 1) * 1 = e.at
  BY <1>1
<1> QED
  BY <1>2 DEF Stamp

\* A report has the newest's time at most, so it is the newest if it is as new.
LEMMA NewestIs ==
    ASSUME InTime, NEW E, E \subseteq emitted, emitted \subseteq Reports,
           MaxTime \in Nat,
           NEW e \in E, \A f \in E : f.at <= e.at
    PROVE  Newest(E) = e
<1>1. Newest(E) \in E /\ \A f \in E : f.at <= Newest(E).at
  BY DEF Newest
<1>2. e.at \in Nat /\ Newest(E).at \in Nat
  BY <1>1 DEF Reports
<1>3. Newest(E).at = e.at
  BY <1>1, <1>2
<1> QED
  BY <1>1, <1>3 DEF InTime

\* The newest of what was emitted: there is one, because each report is later
\* than those before it.
HasLast == emitted # {} => \E e \in emitted : \A f \in emitted : f.at <= e.at

LEMMA NextInTime ==
    ASSUME StatusInv, InTime, HasLast, [StatusNext]_statusVars
    PROVE  InTime' /\ HasLast'
<1>0. /\ emitted \subseteq Reports /\ now \in Nat /\ MaxTime \in Nat
      /\ \A e \in emitted : e.at \in Nat /\ e.status \in Reported
  BY StatusAssumption DEF StatusInv, StatusTypeOK, Reports
<1>1. CASE emitted' = emitted /\ now' \in {now, now + 1}
  BY <1>0, <1>1 DEF InTime, HasLast
<1>2. ASSUME NEW st \in Reported, Emit(st) PROVE InTime' /\ HasLast'
  <2> DEFINE r == [status |-> st, at |-> now]
  <2>1. /\ emitted' = emitted \cup {r} /\ now' = now /\ r.at = now /\ r.status = st
        /\ \A e \in emitted : e.at < now
    BY <1>2 DEF Emit
  <2> HIDE DEF r
  <2>2. ASSUME NEW e \in emitted PROVE Rank(e.status) <= Rank(st)
    <3>1. PICK l \in emitted : \A f \in emitted : f.at <= l.at
      BY DEF HasLast
    <3>2. Newest(emitted) = l
      BY <1>0, <3>1, NewestIs
    <3>3. st \in Follows(l.status)
      BY <1>2, <3>2, <2>2 DEF Emit
    <3>4. Rank(l.status) <= Rank(st) /\ l.status \in Reported /\ e.status \in Reported
      BY <1>0, <3>3 DEF Follows, Rank, Reported, DeliveryStatuses
    <3>5. Rank(e.status) <= Rank(l.status)
      <4>1. CASE e.at < l.at
        BY <4>1 DEF InTime
      <4>2. CASE e.at = l.at
        <5>1. e = l
          BY <4>2 DEF InTime
        <5> QED
          BY <5>1, <3>4 DEF Rank, Reported, DeliveryStatuses
      <4> QED
        BY <1>0, <3>1, <4>1, <4>2
    <3> QED
      BY <3>4, <3>5 DEF Rank, Reported, DeliveryStatuses
  <2>3. InTime'
    BY <1>0, <2>1, <2>2 DEF InTime
  <2>4. HasLast'
    BY <1>0, <2>1 DEF HasLast
  <2> QED
    BY <2>3, <2>4
<1>3. [StatusNext]_statusVars => \/ emitted' = emitted /\ now' \in {now, now + 1}
                     \/ \E st \in Reported : Emit(st)
  BY DEF StatusNext, Tick, MarkSent, UpdateStatus, ReadRow, ReadForSync,
     CopyToHistory,
     ProcessDies, statusVars, rowVars, procVars
<1> QED
  BY <1>1, <1>2, <1>3

NewestInv == SerialInv /\ InTime /\ HasLast /\ Shown

LEMMA UpdateShown ==
    ASSUME TicksPerSecond = 1, NewestInv,
           NEW h \in Handlers, UpdateStatus(h), known
    PROVE  Shown'
<1> DEFINE e == report[h]
<1>0. /\ e \in emitted /\ emitted \subseteq Reports /\ MaxTime \in Nat
      /\ sentAt \in Nat /\ heard \subseteq emitted
      /\ \A r \in emitted : r.at \in Nat /\ Stamp(r) = r.at /\ r.status \in Reported
  <2>1. e \in emitted /\ emitted \subseteq Reports /\ MaxTime \in Nat
        /\ sentAt \in Nat /\ heard \subseteq emitted
    BY StatusAssumption DEF NewestInv, SerialInv, StatusInv, StatusTypeOK,
       Serving, UpdateStatus
  <2>2. ASSUME NEW r \in Reports PROVE r.at \in Nat /\ r.status \in Reported
    BY DEF Reports
  <2> QED
    BY <2>1, <2>2, OwnSecond
<1>1. /\ known' = known /\ sentAt' = sentAt /\ heard' = heard \cup {e}
  BY DEF UpdateStatus
<1>2. Heard' = {r \in heard \cup {e} : r.at >= sentAt} /\ Heard = {r \in heard : r.at >= sentAt}
  <2>1. Heard' = {r \in heard \cup {e} : Stamp(r) >= sentAt}
    BY <1>1 DEF Heard, Stamp
  <2> QED
    BY <1>0, <2>1 DEF Heard
<1>3. \/ Heard = {} /\ row.status = "sent" /\ row.stamp = sentAt
      \/ \E g \in Heard : /\ \A f \in Heard : f.at <= g.at
                          /\ row.status = g.status /\ row.stamp = g.at
  BY DEF NewestInv, Shown
<1>4. CASE Accepts(row, e)
  <2>1. row'.status = e.status /\ row'.stamp = e.at
    BY <1>0, <1>4, Taken DEF NewestInv
  <2>2. e.at >= row.stamp
    BY <1>0, <1>4 DEF Accepts
  <2>3. e \in Heard' /\ \A f \in Heard' : f.at <= e.at
    BY <1>0, <1>2, <1>3, <2>2
  <2> QED
    BY <2>1, <2>3 DEF Shown
<1>5. CASE ~Accepts(row, e)
  <2>1. row' = row
    BY <1>5, Taken DEF NewestInv
  <2>2. CASE Heard = {} /\ row.status = "sent" /\ row.stamp = sentAt
    <3>1. Rank(e.status) >= Rank("sent")
      BY <1>0 DEF Rank, Reported, DeliveryStatuses
    <3>2. e.at < sentAt
      BY <1>0, <1>5, <2>2, <3>1 DEF Accepts
    <3>3. Heard' = {}
      BY <1>0, <1>2, <2>2, <3>2
    <3> QED
      BY <1>1, <2>1, <2>2, <3>3 DEF Shown
  <2>3. ASSUME NEW g \in Heard, \A f \in Heard : f.at <= g.at,
               row.status = g.status, row.stamp = g.at
        PROVE  Shown'
    <3>1. g \in emitted /\ g \in heard /\ g.at \in Nat /\ g.at >= sentAt
      BY <1>0, <1>2
    <3>2. e.at <= g.at
      <4>1. SUFFICES ASSUME e.at > g.at PROVE FALSE
        BY <1>0, <3>1
      <4>2. Rank(g.status) <= Rank(e.status)
        BY <1>0, <3>1, <4>1 DEF NewestInv, InTime
      <4>3. Rank(e.status) >= Rank(g.status)
        BY <1>0, <3>1, <4>2 DEF Rank, Reported, DeliveryStatuses
      <4> QED
        BY <1>0, <1>5, <2>3, <3>1, <4>1, <4>3 DEF Accepts
    <3>3. g \in Heard' /\ \A f \in Heard' : f.at <= g.at
      BY <1>0, <1>2, <2>3, <3>1, <3>2
    <3> QED
      BY <2>1, <2>3, <3>3 DEF Shown
  <2> QED
    BY <1>3, <2>2, <2>3
<1> QED
  BY <1>4, <1>5

LEMMA NextShown ==
    ASSUME OneHandler, TicksPerSecond = 1, NewestInv,
           [StatusNext]_statusVars
    PROVE  NewestInv'
<1>1. SerialInv'
  BY NextSerial DEF NewestInv
<1>2. InTime' /\ HasLast'
  BY NextInTime DEF NewestInv, SerialInv
<1>3. ASSUME UNCHANGED <<known, row, heard, sentAt>> PROVE Shown'
  <2>1. Heard' = Heard
    BY <1>3 DEF Heard, Stamp
  <2> QED
    BY <1>3, <2>1 DEF NewestInv, Shown
<1>4. ASSUME MarkSent PROVE Shown'
  <2>1. heard' = {}
    BY <1>4 DEF MarkSent, NewestInv, SerialInv, Serial
  <2>2. Heard' = {}
    BY <2>1 DEF Heard
  <2>3. row'.status = "sent" /\ row'.stamp = sentAt'
    BY <1>4 DEF MarkSent
  <2> QED
    BY <2>2, <2>3 DEF Shown
<1>5. ASSUME NEW h \in Handlers, UpdateStatus(h) PROVE Shown'
  <2>1. CASE known
    BY <1>5, <2>1, UpdateShown
  <2>2. CASE ~known
    BY <1>5, <2>2 DEF UpdateStatus, Shown
  <2> QED
    BY <2>1, <2>2
<1>6. [StatusNext]_statusVars => \/ UNCHANGED <<known, row, heard, sentAt>>
                     \/ MarkSent
                     \/ \E h \in Handlers : UpdateStatus(h)
  BY DEF StatusNext, Tick, Emit, ReadRow, ReadForSync, CopyToHistory,
     ProcessDies, statusVars, rowVars
<1> QED
  BY <1>1, <1>2, <1>3, <1>4, <1>5, <1>6 DEF NewestInv

LEMMA ShownIsNewest ==
    ASSUME NewestInv
    PROVE  NewestReportShows
<1>1. /\ emitted \subseteq Reports /\ heard \subseteq emitted /\ MaxTime \in Nat
      /\ heard # {} => known
  BY StatusAssumption DEF NewestInv, SerialInv, StatusInv, Serial, StatusTypeOK
<1>2. SUFFICES ASSUME Heard # {} PROVE row.status = Newest(Heard).status
  BY DEF NewestReportShows, Heard
<1>3. Heard \subseteq emitted /\ known
  BY <1>1, <1>2 DEF Heard
<1>4. PICK e \in Heard : /\ \A f \in Heard : f.at <= e.at
                         /\ row.status = e.status
  BY <1>2, <1>3 DEF NewestInv, Shown
<1> QED
  BY <1>1, <1>3, <1>4, NewestIs DEF NewestInv

\* ProviderStatus: of the handled reports that are not older than the send the row
\* shows the newest, when one is handled at a time and no two share a second.
THEOREM StatusShowsNewest ==
    ASSUME OneHandler, TicksPerSecond = 1
    PROVE  StatusSpec => []NewestReportShows
<1>1. StatusInit => NewestInv
  <2> SUFFICES ASSUME StatusInit PROVE NewestInv
    OBVIOUS
  <2>1. Serial
    BY DEF StatusInit, Serial, Procs
  <2>2. InTime /\ HasLast /\ Shown
    BY DEF StatusInit, InTime, HasLast, Shown
  <2> QED
    BY <2>1, <2>2, InitStatus DEF SerialInv, NewestInv
<1>2. NewestInv /\ [StatusNext]_statusVars => NewestInv'
  BY NextShown
<1>3. NewestInv => NewestReportShows
  BY ShownIsNewest
<1> QED
  BY <1>1, <1>2, <1>3, PTL DEF StatusSpec
=============================================================================
