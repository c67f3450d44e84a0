---------------------------- MODULE HandoffProofs ----------------------------
(***************************************************************************)
(* What the handoff guarantees, for any agents, processes and messages.    *)
(*                                                                         *)
(* RecordsAgree is not inductive: that a request commits onto an inactive  *)
(* session, and a claim onto an active one, follows from the checks that   *)
(* the process made before.  Accepted says that these checks still hold,   *)
(* and Locks and Silent say why: nobody else can write meanwhile.          *)
(*                                                                         *)
(* The second part holds the theorems of Calendar, the third those of      *)
(* CalendarHours.                                                          *)
(***************************************************************************)
EXTENDS Handoff, Calendar, Sequences, WellFoundedInduction, TLAPS

\* The stages at which a process has the conversation, and the session, to itself.
HasConversation(p) ==
    \/ pc[p] \in {"gate", "reply", "suppress", "record"}
    \/ pc[p] = "session" /\ Op(p) = "request"
    \/ pc[p] = "commit" /\ Op(p) \in {"request", "answer"}

HasSession(p) == pc[p] \in {"conversation", "commit"} /\ Op(p) # "request"

\* What is left of Accepts when the users that it looked up may be deactivated.
StillAccepts(p) ==
    /\ Op(p) = "request" => session \notin Active /\ cycle = "none"
    /\ Op(p) # "request" => session \in Active
    /\ Op(p) = "claim" => assignee \in {Nobody, By(p)}
    /\ Op(p) \in {"transfer", "release", "resolve", "return", "answer"} =>
         AssignedOrPrivileged(p)
    /\ Op(p) \in {"claim", "transfer", "resolve", "return"} => cycle # "none"
    /\ Op(p) = "answer" => session = "human_active"

Locks ==
    \A p \in Processes :
        /\ HasConversation(p) => conversationLock = p
        /\ HasSession(p) => sessionLock = p

Accepted ==
    \A p \in Processes : pc[p] = "commit" \/ HasSession(p) => StillAccepts(p)

Silent == \A p \in Processes : pc[p] = "reply" => session \notin Active

IInv == TypeOK /\ RecordsAgree /\ Locks /\ Accepted /\ Silent

-----------------------------------------------------------------------------
(* Types.                                                                  *)

LEMMA IdleType == Idle \in Requests
BY DEF Idle, Requests, Ops, SessionOps

LEMMA InitIInv == Init => IInv
BY HandoffAssumption, IdleType
   DEF Init, IInv, TypeOK, RecordsAgree, Locks, Accepted, Silent,
   HasConversation,
       HasSession, Idle, Nothing, Copies, Lifecycles, Sessions, Stages, Active

LEMMA FinishType ==
    ASSUME TypeOK, NEW p \in Processes, Finish(p)
    PROVE  /\ pc' \in [Processes -> Stages] /\ request' \in [Processes -> Requests]
           /\ copy' \in [Processes -> Copies]
           /\ conversationLock' \in Processes \cup {NoProcess}
           /\ sessionLock' \in Processes \cup {NoProcess}
           /\ shared' \subseteq Processes
BY IdleType DEF TypeOK, Finish, GoTo, Unlock, Stages, Nothing, Copies,
   Lifecycles

LEMMA TypeStep == TypeOK /\ [Next]_vars => TypeOK'
<1> SUFFICES ASSUME TypeOK, [Next]_vars PROVE TypeOK'
  OBVIOUS
<1> USE DEF conversationVars, sessionVars, lockVars, processVars
<1>1. CASE UNCHANGED vars
  BY <1>1 DEF TypeOK, vars
<1>2. ASSUME NEW p \in Processes, NEW r \in Requests, Begin(p, r) PROVE TypeOK'
  BY <1>2 DEF TypeOK, Begin, GoTo, FirstStage, Stages
<1>3. ASSUME NEW p \in Processes, Step(p) \/ Abort(p) PROVE TypeOK'
  <2>1. CASE Load(p)
    <3>1. CASE Finish(p)
      BY <2>1, <3>1, FinishType DEF TypeOK, Load
    <3>2. CASE ~Finish(p)
      BY <2>1, <3>2 DEF TypeOK, Load, GoTo, Stages, Copies, Conversation
    <3> QED BY <3>1, <3>2
  <2>2. CASE Insert(p)
    BY <2>2 DEF TypeOK, Insert, GoTo, Stages
  <2>3. CASE Upgrade(p)
    BY <2>3 DEF TypeOK, Upgrade, GoTo, Stages, Copies, Conversation
  <2>4. CASE Gate(p)
    BY <2>4 DEF TypeOK, Gate, GoTo, Stages
  <2>5. CASE CommitInbound(p)
    <3>1. Finish(p)
      BY <2>5 DEF CommitInbound, Replies
    <3>2. PICK n \in {0, 1} : /\ total' = copy[p].total + 1 + n
                              /\ rows' = rows + 1 + n
                              /\ queued' = queued + n
      BY <2>5 DEF CommitInbound, Replies
    <3> QED BY <2>5, <3>1, <3>2, FinishType
            DEF TypeOK, CommitInbound, Replies, Copies, Lifecycles
  <2>6. CASE CheckHandoff(p)
    <3>1. CASE Finish(p)
      BY <2>6, <3>1, FinishType DEF TypeOK, CheckHandoff
    <3>2. CASE ~Finish(p)
      BY <2>6, <3>2 DEF TypeOK, CheckHandoff, GoTo, Stages
    <3> QED BY <3>1, <3>2
  <2>7. CASE Transition(p)
    BY <2>7, FinishType DEF TypeOK, Transition, Target, Lifecycles
  <2>8. CASE LockConversation(p)
    BY <2>8 DEF TypeOK, LockConversation, GoTo, Stages
  <2>9. CASE LockSession(p)
    <3>1. CASE Finish(p)
      BY <2>9, <3>1, FinishType DEF TypeOK, LockSession
    <3>2. CASE ~Finish(p)
      BY <2>9, <3>2 DEF TypeOK, LockSession, GoTo, Stages
    <3> QED BY <3>1, <3>2
  <2>10. CASE CommitHandoff(p)
    <3>1. request[p].by \in Agents \cup {Nobody} /\ request[p].to \in Agents \cup {Nobody}
      BY DEF TypeOK, Requests
    <3>2. Finish(p) /\ UNCHANGED <<conversationVars, enabled>>
      BY <2>10 DEF CommitHandoff
    <3>3. /\ session' \in Sessions /\ assignee' \in Agents \cup {Nobody}
          /\ cycle' \in {"none", "requested", "activated"}
      BY <2>10, <3>1 DEF CommitHandoff, Continue, End, SetSession, Sessions,
         By, TypeOK
    <3> QED BY <3>2, <3>3, FinishType DEF TypeOK
  <2>11. CASE CommitAnswer(p)
    BY <2>11 DEF TypeOK, CommitAnswer, GoTo, Unlock, Stages
  <2>12. CASE RecordAnswer(p)
    BY <2>12, FinishType DEF TypeOK, RecordAnswer, Copies
  <2>13. CASE Abort(p)
    BY <2>13, FinishType DEF TypeOK, Abort
  <2> QED BY <1>3, <2>1, <2>2, <2>3, <2>4, <2>5, <2>6, <2>7, <2>8, <2>9, <2>10,
             <2>11, <2>12, <2>13 DEF Step, Manage
<1>5. ASSUME NEW a \in Agents, Deactivate(a) PROVE TypeOK'
  BY <1>5 DEF TypeOK, Deactivate
<1> QED BY <1>1, <1>2, <1>3, <1>5 DEF Next

-----------------------------------------------------------------------------
(* One step of one process.                                                *)

\* The process is done: it holds nothing, and the others keep what they hold.
LEMMA FinishKeepsLocks ==
    ASSUME TypeOK, Locks, NEW p \in Processes, Finish(p)
    PROVE  /\ Locks'
           /\ \A q \in Processes : HasSession(q)' \/ pc'[q] = "commit" =>
                /\ q # p /\ (HasSession(q) \/ pc[q] = "commit")
                /\ request'[q] = request[q]
           /\ \A q \in Processes : pc'[q] = "reply" => q # p /\ pc[q] = "reply"
<1>1. /\ pc' = [pc EXCEPT ![p] = "idle"] /\ pc \in [Processes -> Stages]
      /\ request' = [request EXCEPT ![p] = Idle] /\ request \in [Processes -> Requests]
  BY DEF Finish, GoTo, TypeOK
<1>2. \A q \in Processes : q # p => pc'[q] = pc[q] /\ request'[q] = request[q]
  BY <1>1
<1>3. pc'[p] = "idle"
  BY <1>1
<1>4. ~HasConversation(p)' /\ ~HasSession(p)'
  BY <1>3 DEF HasConversation, HasSession
<1>5. ASSUME NEW q \in Processes, q # p
      PROVE  (HasConversation(q)' <=> HasConversation(q)) /\ (HasSession(q)' <=> HasSession(q))
  BY <1>2, <1>5 DEF HasConversation, HasSession, Op
<1>6. Locks'
  BY <1>4, <1>5, HandoffAssumption DEF Locks, Finish, Unlock
<1> QED BY <1>2, <1>3, <1>4, <1>5, <1>6

\* Nobody else is at the commit of a handoff operation.
LEMMA CommitsAlone ==
    ASSUME TypeOK, Locks, Accepted,
           NEW p \in Processes, pc[p] = "commit", Op(p) # "answer",
           NEW q \in Processes, pc[q] = "commit" \/ HasSession(q)
    PROVE  q = p
<1>1. StillAccepts(p) /\ StillAccepts(q)
  BY DEF Accepted
<1>2. CASE Op(p) = "request"
  <2>1. conversationLock = p /\ Op(q) = "request"
    BY <1>1, <1>2 DEF Locks, HasConversation, StillAccepts
  <2>2. HasConversation(q)
    BY <2>1 DEF HasSession, HasConversation
  <2> QED BY <2>1, <2>2 DEF Locks
<1>3. CASE Op(p) # "request"
  <2>1. HasSession(p) /\ Op(q) # "request"
    BY <1>1, <1>3 DEF HasSession, StillAccepts
  <2>2. HasSession(q)
    BY <2>1 DEF HasSession
  <2> QED BY <2>1, <2>2 DEF Locks
<1> QED BY <1>2, <1>3

\* The step of a process that keeps the session and goes on to a stage.
LEMMA MoveKeeps ==
    ASSUME TypeOK, Locks, Accepted, Silent, UNCHANGED sessionVars,
           NEW p \in Processes, NEW s \in Stages, GoTo(p, s),
           \A q \in Processes : q # p => request'[q] = request[q],
           \A q \in Processes : q # p =>
              /\ conversationLock = q => conversationLock' = q
              /\ sessionLock = q => sessionLock' = q,
           HasConversation(p)' => conversationLock' = p,
           HasSession(p)' => sessionLock' = p,
           pc'[p] = "commit" \/ HasSession(p)' => StillAccepts(p)',
           s = "reply" => session \notin Active
    PROVE  Locks' /\ Accepted' /\ Silent'
<1>1. pc' = [pc EXCEPT ![p] = s] /\ pc \in [Processes -> Stages]
  BY DEF GoTo, TypeOK
<1>2. pc'[p] = s /\ \A q \in Processes : q # p => pc'[q] = pc[q]
  BY <1>1
<1>3. ASSUME NEW q \in Processes, q # p
      PROVE  /\ HasConversation(q)' <=> HasConversation(q)
             /\ HasSession(q)' <=> HasSession(q)
             /\ StillAccepts(q)' <=> StillAccepts(q)
  BY <1>2, <1>3 DEF HasConversation, HasSession, StillAccepts, Op, By,
     AssignedOrPrivileged, sessionVars
<1>4. Locks'
  BY <1>3 DEF Locks
<1>5. Accepted'
  BY <1>2, <1>3 DEF Accepted
<1>6. Silent'
  BY <1>2 DEF Silent, sessionVars
<1> QED BY <1>4, <1>5, <1>6

LEMMA FinishKeeps ==
    ASSUME TypeOK, Locks, Accepted, Silent, UNCHANGED sessionVars,
           NEW p \in Processes, Finish(p)
    PROVE  Locks' /\ Accepted' /\ Silent'
<1>1. Locks'
  BY FinishKeepsLocks
<1>2. ASSUME NEW q \in Processes, pc'[q] = "commit" \/ HasSession(q)'
      PROVE  StillAccepts(q)'
  <2>1. StillAccepts(q) /\ request'[q] = request[q]
    BY <1>2, FinishKeepsLocks DEF Accepted
  <2> QED BY <2>1 DEF StillAccepts, Op, By, AssignedOrPrivileged, sessionVars
<1>3. Silent'
  BY FinishKeepsLocks DEF Silent, sessionVars
<1> QED BY <1>1, <1>2, <1>3 DEF Accepted

\* The commit of a handoff operation writes the records so that they agree, and
\* what the other processes checked and read stays true.
LEMMA CommitKeeps ==
    ASSUME IInv, NEW p \in Processes, CommitHandoff(p)
    PROVE  RecordsAgree' /\ Locks' /\ Accepted' /\ Silent'
<1>1. pc[p] = "commit" /\ Op(p) # "answer" /\ Finish(p)
  BY DEF CommitHandoff
<1>2. StillAccepts(p)
  BY <1>1 DEF IInv, Accepted
<1>3. request[p] \in Requests
  BY DEF IInv, TypeOK
<1>4. RecordsAgree'
  BY <1>2, <1>3, HandoffAssumption
     DEF CommitHandoff, Continue, End, SetSession, RecordsAgree, StillAccepts,
     IInv,
         Active, Requests, Ops, SessionOps, Op, By
<1>5. Locks'
  BY <1>1, FinishKeepsLocks DEF IInv
<1>6. Accepted'
  BY <1>1, FinishKeepsLocks, CommitsAlone DEF IInv, Accepted
<1>7. Silent'
  <2>1. ASSUME NEW q \in Processes, pc'[q] = "reply" PROVE session' \notin Active
    <3>1. pc[q] = "reply" /\ q # p
      BY <1>1, <2>1, FinishKeepsLocks DEF IInv
    <3>2. session \notin Active /\ conversationLock = q
      BY <3>1 DEF IInv, Silent, Locks, HasConversation
    <3>3. Op(p) # "request"
      BY <1>1, <3>1, <3>2 DEF IInv, Locks, HasConversation
    <3>4. session \in Active
      BY <1>2, <3>3 DEF StillAccepts
    <3> QED BY <3>2, <3>4
  <2> QED BY <2>1 DEF Silent
<1> QED BY <1>4, <1>5, <1>6, <1>7

-----------------------------------------------------------------------------
LEMMA StepInv == IInv /\ [Next]_vars => IInv'
<1> SUFFICES ASSUME IInv, [Next]_vars PROVE IInv'
  OBVIOUS
<1>t. TypeOK /\ TypeOK'
  BY TypeStep DEF IInv
<1>h. RecordsAgree /\ Locks /\ Accepted /\ Silent
  BY DEF IInv
<1>r. ASSUME UNCHANGED sessionVars PROVE RecordsAgree'
  BY <1>h, <1>r DEF RecordsAgree, sessionVars
<1>f. ASSUME NEW p \in Processes, Finish(p), UNCHANGED sessionVars PROVE IInv'
  BY <1>f, <1>t, <1>h, <1>r, FinishKeeps DEF IInv
<1> USE DEF conversationVars, sessionVars, lockVars, processVars
<1>1. CASE UNCHANGED <<sessionVars, lockVars, pc, request>>
  BY <1>1, <1>t, <1>h, <1>r
     DEF IInv, Locks, Accepted, Silent, HasConversation, HasSession,
     StillAccepts,
         AssignedOrPrivileged, Op, By
<1>2. ASSUME NEW p \in Processes, NEW r \in Requests, Begin(p, r) PROVE IInv'
  <2> DEFINE s == FirstStage(r.op)
  <2>1. /\ UNCHANGED <<sessionVars, lockVars>> /\ GoTo(p, s) /\ s \in Stages
        /\ pc'[p] = s /\ request'[p] = r
        /\ \A q \in Processes : q # p => request'[q] = request[q]
    BY <1>2, <1>t DEF Begin, GoTo, TypeOK, FirstStage, Stages
  <2>2. ~HasConversation(p)' /\ ~HasSession(p)' /\ pc'[p] # "commit" /\ s # "reply"
    BY <2>1 DEF HasConversation, HasSession, Op, FirstStage
  <2> QED BY <1>t, <1>h, <1>r, <2>1, <2>2, MoveKeeps DEF IInv
<1>3. ASSUME NEW p \in Processes, Load(p) PROVE IInv'
  <2>1. CASE Finish(p)
    BY <1>3, <2>1, <1>f DEF Load
  <2>2. CASE ~Finish(p)
    <3>1. PICK s \in {"insert", "check", "write"} : GoTo(p, s)
      BY <1>3, <2>2 DEF Load
    <3>2. UNCHANGED <<sessionVars, lockVars, request>> /\ pc'[p] = s /\ s \in Stages
      BY <1>3, <2>2, <3>1, <1>t DEF Load, GoTo, TypeOK, Stages
    <3>3. ~HasConversation(p)' /\ ~HasSession(p)'
      BY <3>2 DEF HasConversation, HasSession
    <3> QED BY <1>t, <1>h, <1>r, <3>1, <3>2, <3>3, MoveKeeps DEF IInv
  <2> QED BY <2>1, <2>2
<1>4. ASSUME NEW p \in Processes, Insert(p) PROVE IInv'
  <2>1. /\ UNCHANGED <<sessionVars, conversationLock, sessionLock, request>>
        /\ GoTo(p, "upgrade") /\ pc'[p] = "upgrade" /\ "upgrade" \in Stages
    BY <1>4, <1>t DEF Insert, GoTo, TypeOK, Stages
  <2>2. ~HasConversation(p)' /\ ~HasSession(p)'
    BY <2>1 DEF HasConversation, HasSession
  <2> QED BY <1>t, <1>h, <1>r, <2>1, <2>2, MoveKeeps DEF IInv
<1>5. ASSUME NEW p \in Processes, Upgrade(p) PROVE IInv'
  <2>1. PICK s \in {"gate", "record"} : GoTo(p, s)
    BY <1>5 DEF Upgrade
  <2>2. /\ UNCHANGED <<sessionVars, sessionLock, request>>
        /\ conversationLock = NoProcess /\ conversationLock' = p
        /\ pc'[p] = s /\ s \in Stages
    BY <1>5, <2>1, <1>t DEF Upgrade, MayLockConversation, GoTo, TypeOK, Stages
  <2>3. ~HasSession(p)'
    BY <2>2 DEF HasSession
  <2> QED BY <1>t, <1>h, <1>r, <2>1, <2>2, <2>3, HandoffAssumption,
  MoveKeeps DEF IInv
<1>6. ASSUME NEW p \in Processes, Gate(p) PROVE IInv'
  <2>1. PICK s \in {"suppress", "reply"} :
           GoTo(p, s) /\ (s = "reply" => session \notin Active)
    BY <1>6 DEF Gate
  <2>2. UNCHANGED <<sessionVars, lockVars, request>> /\ pc'[p] = s /\ s \in Stages
    BY <1>6, <2>1, <1>t DEF Gate, GoTo, TypeOK, Stages
  <2>3. conversationLock' = p /\ ~HasSession(p)'
    BY <1>6, <1>h, <2>2 DEF Gate, HasSession, HasConversation, Locks
  <2> QED BY <1>t, <1>h, <1>r, <2>1, <2>2, <2>3, MoveKeeps DEF IInv
<1>7. ASSUME NEW p \in Processes, CommitInbound(p) PROVE IInv'
  BY <1>7, <1>f DEF CommitInbound, Replies
<1>8. ASSUME NEW p \in Processes, CheckHandoff(p) PROVE IInv'
  <2>1. CASE Finish(p)
    BY <1>8, <2>1, <1>f DEF CheckHandoff
  <2>2. CASE ~Finish(p)
    <3>1. /\ UNCHANGED <<sessionVars, lockVars, request>>
          /\ GoTo(p, "write") /\ pc'[p] = "write" /\ "write" \in Stages
      BY <1>8, <2>2, <1>t DEF CheckHandoff, GoTo, TypeOK, Stages
    <3>2. ~HasConversation(p)' /\ ~HasSession(p)'
      BY <3>1 DEF HasConversation, HasSession
    <3> QED BY <1>t, <1>h, <1>r, <3>1, <3>2, MoveKeeps DEF IInv
  <2> QED BY <2>1, <2>2
<1>9. ASSUME NEW p \in Processes, Transition(p) PROVE IInv'
  BY <1>9, <1>f DEF Transition
<1>10. ASSUME NEW p \in Processes, LockConversation(p) PROVE IInv'
  <2>1. PICK s \in {"session", "commit"} :
           GoTo(p, s) /\ (s = "commit" => Op(p) # "request")
    BY <1>10 DEF LockConversation
  <2>2. /\ UNCHANGED <<sessionVars, sessionLock, request>>
        /\ pc[p] = "conversation"
        /\ conversationLock = NoProcess /\ conversationLock' = p
        /\ pc'[p] = s /\ s \in Stages
    BY <1>10, <2>1, <1>t DEF LockConversation, MayLockConversation, GoTo,
       TypeOK, Stages
  <2>3. HasSession(p)' \/ pc'[p] = "commit" => HasSession(p)
    BY <2>1, <2>2 DEF HasSession, Op
  <2>4. HasSession(p)' \/ pc'[p] = "commit" => sessionLock' = p /\ StillAccepts(p)'
    BY <2>2, <2>3, <1>h
       DEF Locks, Accepted, StillAccepts, Op, By, AssignedOrPrivileged
  <2> QED BY <1>t, <1>h, <1>r, <2>1, <2>2, <2>4, HandoffAssumption,
  MoveKeeps DEF IInv
<1>11. ASSUME NEW p \in Processes, LockSession(p) PROVE IInv'
  <2>1. CASE Finish(p)
    BY <1>11, <2>1, <1>f DEF LockSession
  <2>2. CASE ~Finish(p)
    <3>1. PICK s \in {"conversation", "commit"} :
             GoTo(p, s) /\ (s = "conversation" <=> Op(p) = "answer")
      BY <1>11, <2>2 DEF LockSession
    <3>2. /\ UNCHANGED <<sessionVars, conversationLock, request>>
          /\ Accepts(p) /\ pc[p] = "session"
          /\ session # "none" => sessionLock = NoProcess /\ sessionLock' = p
          /\ session = "none" => sessionLock' = sessionLock
          /\ pc'[p] = s /\ s \in Stages
      BY <1>11, <2>2, <3>1, <1>t DEF LockSession, MayLockSession, GoTo, TypeOK,
         Stages
    <3>3. StillAccepts(p)'
      BY <3>2 DEF Accepts, StillAccepts, Op, By, AssignedOrPrivileged
    <3>4. HasConversation(p)' => conversationLock' = p
      BY <3>1, <3>2, <1>h DEF HasConversation, Locks, Op
    <3>5. HasSession(p)' => sessionLock' = p
      BY <3>2 DEF HasSession, Accepts, Active, Op
    <3>6. \A q \in Processes : q # p =>
              /\ conversationLock = q => conversationLock' = q
              /\ sessionLock = q => sessionLock' = q
      BY <3>2, HandoffAssumption
    <3> QED BY <1>t, <1>h, <1>r, <3>1, <3>2, <3>3, <3>4, <3>5, <3>6,
    MoveKeeps DEF IInv
  <2> QED BY <2>1, <2>2
<1>12. ASSUME NEW p \in Processes, CommitHandoff(p) PROVE IInv'
  BY <1>12, <1>t, CommitKeeps DEF IInv
<1>13. ASSUME NEW p \in Processes, CommitAnswer(p) PROVE IInv'
  <2>1. /\ UNCHANGED <<sessionVars, request>>
        /\ GoTo(p, "insert") /\ pc'[p] = "insert" /\ "insert" \in Stages
    BY <1>13, <1>t DEF CommitAnswer, GoTo, TypeOK, Stages
  <2>2. ~HasConversation(p)' /\ ~HasSession(p)'
    BY <2>1 DEF HasConversation, HasSession
  <2>3. \A q \in Processes : q # p =>
            /\ conversationLock = q => conversationLock' = q
            /\ sessionLock = q => sessionLock' = q
    BY <1>13 DEF CommitAnswer, Unlock
  <2> QED BY <1>t, <1>h, <1>r, <2>1, <2>2, <2>3, MoveKeeps DEF IInv
<1>14. ASSUME NEW p \in Processes, RecordAnswer(p) PROVE IInv'
  BY <1>14, <1>f DEF RecordAnswer
<1>15. ASSUME NEW p \in Processes, Abort(p) PROVE IInv'
  BY <1>15, <1>f DEF Abort
<1>17. ASSUME NEW a \in Agents, Deactivate(a) PROVE IInv'
  BY <1>17, <1>1 DEF Deactivate
<1>18. CASE UNCHANGED vars
  BY <1>18, <1>1 DEF vars
<1> QED BY <1>2, <1>3, <1>4, <1>5, <1>6, <1>7, <1>8, <1>9, <1>10, <1>11, <1>12,
           <1>13, <1>14, <1>15, <1>17, <1>18 DEF Next, Step, Manage

-----------------------------------------------------------------------------
(* The theorems.                                                           *)

\* The inductive invariant holds of every reachable state: whoever is about to
\* write still stands on what it checked.
THEOREM Invariance == Spec => []IInv
BY InitIInv, StepInv, PTL DEF Spec

\* Every variable keeps its type; no step writes a status or an assignee that
\* the code does not know.
THEOREM TypeSafety == Spec => []TypeOK
<1>1. IInv => TypeOK
  BY DEF IInv
<1> QED BY <1>1, Invariance, PTL

\* An active session has exactly its one open cycle, and an assignee exactly
\* when a human has it, whatever operations race (HumanHandoffService).
THEOREM Agreement == Spec => []RecordsAgree
<1>1. IInv => RecordsAgree
  BY DEF IInv
<1> QED BY <1>1, Invariance, PTL

\* No automatic reply is queued during a handoff: the conversation lock that
\* create_once took protects the unlocked read of blocks_bot.
THEOREM Silence == Spec => BotIsSilent
<1>1. IInv /\ [Next]_vars => [queued' > queued => session \notin Active]_vars
  <2> SUFFICES ASSUME IInv, Next, queued' > queued PROVE session \notin Active
    BY DEF vars, conversationVars
  <2>1. queued \in Nat
    BY DEF IInv, TypeOK
  <2>2. PICK p \in Processes : CommitInbound(p)
    BY <2>1 DEF Next, Step, Manage, Begin, Load, Insert, Upgrade, Gate,
       CheckHandoff, Transition,
       LockConversation, LockSession, CommitHandoff, CommitAnswer, RecordAnswer,
       Abort, Deactivate, conversationVars
  <2>3. pc[p] = "reply"
    BY <2>1, <2>2 DEF CommitInbound, Replies
  <2> QED BY <2>3 DEF IInv, Silent
<1> QED BY <1>1, Invariance, PTL DEF Spec, BotIsSilent

\* Only the assignee or a privileged user takes a conversation from its assignee,
\* although claims, transfers and releases race (_active, _assigned_or_privileged).
THEOREM KeptByAssignee == Spec => NoTakeover
<1>1. IInv /\ [Next]_vars =>
        [assignee # Nobody /\ assignee' # assignee =>
           \E p \in Processes :
              /\ pc[p] = "commit" /\ pc'[p] = "idle"
              /\ AssignedOrPrivileged(p)]_vars
  <2> SUFFICES ASSUME IInv, Next, assignee # Nobody, assignee' # assignee
               PROVE  \E p \in Processes :
                         /\ pc[p] = "commit" /\ pc'[p] = "idle"
                         /\ AssignedOrPrivileged(p)
    BY DEF vars, sessionVars
  <2>1. PICK p \in Processes : CommitHandoff(p)
    BY DEF Next, Step, Manage, Begin, Load, Insert, Upgrade, Gate,
       CommitInbound, CheckHandoff,
       Transition, LockConversation, LockSession, CommitAnswer, RecordAnswer,
       Abort, Deactivate, sessionVars
  <2>2. pc[p] = "commit" /\ pc'[p] = "idle"
    BY <2>1 DEF CommitHandoff, Finish, GoTo, IInv, TypeOK
  <2>3. StillAccepts(p) /\ RecordsAgree
    BY <2>2 DEF IInv, Accepted
  <2>4. AssignedOrPrivileged(p)
    BY <2>1, <2>3 DEF CommitHandoff, Continue, End, SetSession, StillAccepts,
       RecordsAgree, Active
  <2> QED BY <2>2, <2>4
<1> QED BY <1>1, Invariance, PTL DEF Spec, NoTakeover

\* When the reply of a human is accepted, a human has the conversation, and it is
\* the one who replies or a privileged user's (authorize_reply).
THEOREM AnswersAuthorized == Spec => RepliesAuthorized
<1>1. IInv /\ [Next]_vars =>
        [\A p \in Processes : pc[p] = "commit" /\ pc'[p] = "insert" =>
            session = "human_active" /\ AssignedOrPrivileged(p)]_vars
  <2> SUFFICES ASSUME IInv, Next, NEW p \in Processes,
                      pc[p] = "commit", pc'[p] = "insert"
               PROVE  session = "human_active" /\ AssignedOrPrivileged(p)
    OBVIOUS
  <2>1. StillAccepts(p) /\ pc \in [Processes -> Stages]
    BY DEF IInv, Accepted, TypeOK
  <2>2. PICK q \in Processes : Step(q) \/ Abort(q) \/ \E r \in Requests : Begin(q, r)
    BY DEF Next, Deactivate, processVars
  <2>3. \E s \in Stages : GoTo(q, s)
    BY <2>2 DEF Step, Manage, Begin, Load, Insert, Upgrade, Gate, CommitInbound,
       CheckHandoff, Transition, LockConversation, LockSession, CommitHandoff,
       CommitAnswer, RecordAnswer, Abort, Finish, FirstStage, GoTo, Stages
  <2>4. q = p
    BY <2>1, <2>3 DEF GoTo
  <2>5. CommitAnswer(p) \/ CommitHandoff(p) \/ Abort(p)
    BY <2>2, <2>4 DEF Step, Manage, Begin, Load, Insert, Upgrade, Gate,
       CommitInbound,
       CheckHandoff, Transition, LockConversation, LockSession, RecordAnswer
  <2>6. CommitAnswer(p)
    BY <2>1, <2>5 DEF CommitHandoff, Abort, Finish, GoTo
  <2> QED BY <2>1, <2>6 DEF CommitAnswer, StillAccepts
<1> QED BY <1>1, Invariance, PTL DEF Spec, RepliesAuthorized

\* A human who has a conversation is alone in it, for any agents and processes.
THEOREM InCharge == Spec => HumanIsInCharge
BY Silence, KeptByAssignee, AnswersAuthorized DEF HumanIsInCharge

-----------------------------------------------------------------------------
(* Calendar: the opening hours that a conversation is answered under.      *)

RuleKinds == Kinds \ {"calendar"}

\* The stamps of the rules of a kind: the versions of the calendar that wrote them.
stamps ==
    [c \in Calendars |-> [kind \in RuleKinds |->
        CASE kind = "weekly"    -> {weekly[c]}
          [] kind = "exception" -> {exception[c][d].at : d \in Dates}
          [] kind = "holiday"   -> {holiday[c][h].at : h \in Holidays}
          [] OTHER -> {override[o].version : o \in
                {x \in Overrides : override[x].on /\ override[x].cal = c}}]]

HasGreatest(S) == S # {} => \E x \in S : \A y \in S : y <= x

StampsBounded ==
    \A c \in Calendars : \A kind \in RuleKinds :
        /\ stamps[c][kind] \subseteq 0..cal[c].version
        /\ HasGreatest(stamps[c][kind])

\* A rule is changed with its calendar.
RulesYounger ==
    \A c \in Calendars :
        /\ \A d \in Dates : exception[c][d].version <= cal[c].version
        /\ \A h \in Holidays : holiday[c][h].version <= cal[c].version

\* An event of a rule is followed by a stamp that is as new.
Covered ==
    \A c \in Calendars : \A i \in 1..cal[c].version :
        ledger[c][i].kind # "calendar" =>
            \E x \in stamps[c][ledger[c][i].kind] : i <= x

\* Overrides of a calendar are made by different versions of it, and keep theirs
\* until they are revoked.
OverridesKnown ==
    \A o \in Overrides : override[o].on =>
        /\ override[o].born <= cal[override[o].cal].version
        /\ ~override[o].revoked => override[o].version = override[o].born
        /\ \A p \in Overrides \ {o} :
             (override[p].on /\ override[p].cal = override[o].cal)
                 => override[p].born # override[o].born

\* A key in the ledger has its receipt.
KeysKnown ==
    \A c \in Calendars : \A i \in 1..cal[c].version :
        ledger[c][i].key # NoKey => receipt[ledger[c][i].key].on

\* The two parts of AppliedOnce: a key is in one event; an answer is the receipt.
KeysApart ==
    \A c, d \in Calendars :
      \A i \in 1..Len(ledger[c]), j \in 1..Len(ledger[d]) :
        (ledger[c][i].key # NoKey /\ ledger[c][i].key = ledger[d][j].key)
            => c = d /\ i = j

AnswersKept ==
    \A r \in Callers :
        call[r].stage = "answered" =>
            receipt[call[r].key] = [on |-> TRUE, cmd |-> call[r].cmd,
                answer |-> call[r].answer]

AlreadyRead(stage) ==
    CASE stage = "weekly"    -> {}
      [] stage = "exception" -> {"weekly"}
      [] stage = "holiday"   -> {"weekly", "exception"}
      [] stage = "override"  -> {"weekly", "exception", "holiday"}
      [] OTHER               -> RuleKinds

\* What a question has read is as new as the version that it began with.
LookKnown ==
    look.stage # "idle" =>
        /\ look.version <= cal[look.cal].version
        /\ \A i \in 1..look.version :
             ledger[look.cal][i].kind \in AlreadyRead(look.stage)
                 => i <= look.seen[ledger[look.cal][i].kind]

\* What relates the tables, and the inductive invariant.
TablesInv ==
    /\ VersionsAudited /\ OneActive
    /\ StampsBounded /\ RulesYounger /\ Covered

CalInv ==
    /\ CalendarTypeOK /\ TablesInv /\ OverridesKnown
    /\ KeysKnown /\ KeysApart /\ AnswersKept /\ LookKnown

-----------------------------------------------------------------------------
(* Calendar: its operators.                                                *)

LEMMA CommandKnown ==
    ASSUME NEW cmd \in Commands
    PROVE  /\ cmd.cal \in Calendars
           /\ cmd.op = "create" => cmd.ref \in Scopes
           /\ cmd.op = "exception" => cmd.ref \in Dates
           /\ cmd.op = "holiday" => cmd.ref \in Holidays
           /\ cmd.op = "revoke" => cmd.ref \in Overrides
BY DEF Commands

LEMMA OverrideIs ==
    ASSUME CalendarTypeOK, NEW o \in Overrides, override[o].on
    PROVE  override[o] \in [on : {TRUE}, cal : Calendars, born : Stamps,
                            version : Stamps, revoked : BOOLEAN]
<1>1. override[o] \in OverrideRows
  BY DEF CalendarTypeOK
<1>2. override[o] # NoRow
  BY DEF NoRow
<1> QED
  BY <1>1, <1>2 DEF OverrideRows

\* The newest of stamps that have a greatest one.
LEMMA NewestIsGreatest ==
    ASSUME NEW S \in SUBSET Nat, HasGreatest(S), S # {}
    PROVE  Newest(S) \in S /\ \A y \in S : y <= Newest(S)
BY DEF Newest, HasGreatest

\* The rules of the four kinds.
LEMMA StampsOf ==
    ASSUME NEW c \in Calendars
    PROVE  /\ stamps[c]["weekly"] = {weekly[c]}
           /\ stamps[c]["exception"] = {exception[c][d].at : d \in Dates}
           /\ stamps[c]["holiday"] = {holiday[c][h].at : h \in Holidays}
           /\ stamps[c]["override"] =
                {override[o].version : o \in
                  {x \in Overrides : override[x].on /\ override[x].cal = c}}
BY DEF stamps, RuleKinds, Kinds

LEMMA StampsNext ==
    ASSUME NEW c \in Calendars
    PROVE  /\ stamps'[c]["weekly"] = {weekly'[c]}
           /\ stamps'[c]["exception"] = {exception'[c][d].at : d \in Dates}
           /\ stamps'[c]["holiday"] = {holiday'[c][h].at : h \in Holidays}
           /\ stamps'[c]["override"] =
                {override'[o].version : o \in
                  {x \in Overrides : override'[x].on /\ override'[x].cal = c}}
BY DEF stamps, RuleKinds, Kinds

\* Rules that stay have the stamps that they had.
LEMMA SameTable ==
    ASSUME NEW c \in Calendars
    PROVE  /\ weekly'[c] = weekly[c]
                => stamps'[c]["weekly"] = stamps[c]["weekly"]
           /\ exception'[c] = exception[c]
                => stamps'[c]["exception"] = stamps[c]["exception"]
           /\ holiday'[c] = holiday[c]
                => stamps'[c]["holiday"] = stamps[c]["holiday"]
           /\ override' = override
                => stamps'[c]["override"] = stamps[c]["override"]
<1>1. ASSUME exception'[c] = exception[c]
      PROVE  {exception'[c][d].at : d \in Dates} =
               {exception[c][d].at : d \in Dates}
  BY <1>1
<1>2. ASSUME holiday'[c] = holiday[c]
      PROVE  {holiday'[c][h].at : h \in Holidays} =
               {holiday[c][h].at : h \in Holidays}
  BY <1>2
<1>3. ASSUME override' = override
      PROVE  {override'[o].version : o \in
                {x \in Overrides : override'[x].on /\ override'[x].cal = c}}
              = {override[o].version : o \in
                  {x \in Overrides : override[x].on /\ override[x].cal = c}}
  BY <1>3
<1>4. weekly'[c] = weekly[c] => stamps'[c]["weekly"] = stamps[c]["weekly"]
  BY StampsOf, StampsNext
<1>5. exception'[c] = exception[c] => stamps'[c]["exception"] = stamps[c]["exception"]
  BY <1>1, StampsOf, StampsNext
<1>6. holiday'[c] = holiday[c] => stamps'[c]["holiday"] = stamps[c]["holiday"]
  BY <1>2, StampsOf, StampsNext
<1>7. override' = override => stamps'[c]["override"] = stamps[c]["override"]
  BY <1>3, StampsOf, StampsNext
<1> QED
  BY <1>4, <1>5, <1>6, <1>7

LEMMA RuleKindIs ==
    ASSUME NEW kind \in RuleKinds
    PROVE  kind \in {"weekly", "exception", "holiday", "override"}
BY DEF RuleKinds, Kinds

LEMMA PresentIsNewest ==
    ASSUME CalendarTypeOK, StampsBounded, NEW c \in Calendars,
           NEW kind \in RuleKinds
    PROVE  /\ Present(kind, c) \in Stamps
           /\ \A y \in stamps[c][kind] : y <= Present(kind, c)
<1>1. stamps[c][kind] \subseteq 0..cal[c].version
      /\ HasGreatest(stamps[c][kind])
  BY DEF StampsBounded
<1>2. cal[c].version \in Stamps
  BY DEF CalendarTypeOK, Rows
<1>3. stamps[c][kind] \in SUBSET Nat
  BY <1>1, <1>2 DEF Stamps
<1>4. kind = "weekly" \/ kind = "exception" \/ kind = "holiday"
      \/ kind = "override"
  BY DEF RuleKinds, Kinds
<1>5. kind # "weekly" => Present(kind, c) = Newest(stamps[c][kind])
  BY <1>4, StampsOf DEF Present
<1>6. CASE kind = "weekly"
  <2>1. Present(kind, c) = weekly[c] /\ stamps[c][kind] = {weekly[c]}
    BY <1>6, StampsOf DEF Present
  <2>2. weekly[c] \in Stamps
    BY DEF CalendarTypeOK
  <2>3. MaxVersion \in Nat
    BY CalendarAssumption
  <2>4. weekly[c] <= weekly[c]
    BY <2>2, <2>3 DEF Stamps
  <2> QED
    BY <2>1, <2>2, <2>4
<1>7. CASE kind # "weekly" /\ stamps[c][kind] = {}
  <2>1. Present(kind, c) = 0
    BY <1>5, <1>7 DEF Newest
  <2> QED
    BY <2>1, <1>2, <1>7, CalendarAssumption DEF Stamps
<1>8. CASE kind # "weekly" /\ stamps[c][kind] # {}
  <2>1. Newest(stamps[c][kind]) \in stamps[c][kind]
        /\ \A y \in stamps[c][kind] : y <= Newest(stamps[c][kind])
    BY <1>1, <1>3, <1>8, NewestIsGreatest
  <2>2. MaxVersion \in Nat
    BY CalendarAssumption
  <2> QED
    BY <2>1, <2>2, <1>1, <1>2, <1>5, <1>8 DEF Stamps
<1> QED
  BY <1>6, <1>7, <1>8

-----------------------------------------------------------------------------
(* Calendar: what a transaction does to the tables.                        *)

\* A change of kind brings its version, and touches the rules of no other.
Fresh(c, kind) ==
    /\ \A d \in Calendars : \A k2 \in RuleKinds :
         (d # c \/ k2 # kind) => stamps'[d][k2] = stamps[d][k2]
    /\ kind # "calendar" =>
         /\ Next1(c) \in stamps'[c][kind]
         /\ stamps'[c][kind] \subseteq stamps[c][kind] \cup {0, Next1(c)}

RulesTyped ==
    /\ weekly \in [Calendars -> Stamps]
    /\ exception \in [Calendars -> [Dates -> Rules]]
    /\ holiday \in [Calendars -> [Holidays -> Rules]]
    /\ override \in [Overrides -> OverrideRows]

\* One change of a calendar.
OneChange(c, row, kind, k) ==
    /\ cal[c].status # "archived" /\ cal[c].version < MaxVersion
    /\ Fits(c, row)
    /\ Writes(c, row, kind, k)
    /\ Fresh(c, kind)

LEMMA SameRules ==
    ASSUME CalendarTypeOK, UNCHANGED ruleRows
    PROVE  \A c \in Calendars : Fresh(c, "calendar")
BY DEF ruleRows, Fresh, stamps

LEMMA FreshWeekly ==
    ASSUME CalendarTypeOK, NEW c \in Calendars, Next1(c) \in Stamps,
           weekly' = [weekly EXCEPT ![c] = Next1(c)],
           UNCHANGED <<exception, holiday, override>>
    PROVE  Fresh(c, "weekly") /\ RulesTyped'
<1>1. weekly'[c] = Next1(c)
        /\ \A d \in Calendars \ {c} : weekly'[d] = weekly[d]
  BY DEF CalendarTypeOK
<1>2. \A d \in Calendars : \A k2 \in RuleKinds :
         (d # c \/ k2 # "weekly") => stamps'[d][k2] = stamps[d][k2]
  <2> SUFFICES ASSUME NEW d \in Calendars, NEW k2 \in RuleKinds,
                      d # c \/ k2 # "weekly"
               PROVE  stamps'[d][k2] = stamps[d][k2]
    OBVIOUS
  <2>1. CASE k2 = "weekly"
    <3>1. weekly'[d] = weekly[d]
      BY <1>1, <2>1
    <3> QED
      BY <2>1, <3>1, SameTable
  <2>2. CASE k2 = "exception"
    BY <2>2, SameTable
  <2>3. CASE k2 = "holiday"
    BY <2>3, SameTable
  <2>4. CASE k2 = "override"
    BY <2>4, SameTable
  <2> QED
    BY <2>1, <2>2, <2>3, <2>4, RuleKindIs
<1>3. stamps'[c]["weekly"] = {Next1(c)}
  BY <1>1, StampsOf, StampsNext, RuleKindIs
<1>4. RulesTyped'
  BY DEF RulesTyped, CalendarTypeOK
<1> QED
  BY <1>2, <1>3, <1>4 DEF Fresh

LEMMA FreshException ==
    ASSUME CalendarTypeOK, NEW c \in Calendars, Next1(c) \in Stamps,
           NEW d \in Dates, NEW v \in Stamps,
           exception' = [exception EXCEPT ![c][d] = [version |-> v,
           at |-> Next1(c)]],
           UNCHANGED <<weekly, holiday, override>>
    PROVE  Fresh(c, "exception") /\ RulesTyped'
<1>1. exception' \in [Calendars -> [Dates -> Rules]]
  BY DEF CalendarTypeOK, Rules
<1>2. /\ \A e \in Calendars \ {c} : exception'[e] = exception[e]
      /\ exception'[c][d].at = Next1(c)
      /\ \A x \in Dates \ {d} : exception'[c][x] = exception[c][x]
  BY DEF CalendarTypeOK
<1>3. \A e \in Calendars : \A k2 \in RuleKinds :
         (e # c \/ k2 # "exception") => stamps'[e][k2] = stamps[e][k2]
  BY <1>2, SameTable, RuleKindIs
<1>4. stamps'[c]["exception"] = {exception'[c][x].at : x \in Dates}
  BY StampsOf, StampsNext
<1>5. /\ Next1(c) \in stamps'[c]["exception"]
      /\ stamps'[c]["exception"] \subseteq
           stamps[c]["exception"] \cup {0, Next1(c)}
  BY <1>2, <1>4, StampsOf
<1>6. RulesTyped'
  BY <1>1 DEF RulesTyped, CalendarTypeOK
<1> QED
  BY <1>3, <1>5, <1>6 DEF Fresh

\* A holiday is given its stamp under a name, and loses it under another one.
LEMMA FreshHoliday ==
    ASSUME CalendarTypeOK, NEW c \in Calendars, Next1(c) \in Stamps,
           NEW to \in Holidays, NEW new \in [Holidays -> Rules],
           new[to].at = Next1(c),
           \A x \in Holidays \ {to} : new[x] \in {holiday[c][x], NoRule},
           holiday' = [holiday EXCEPT ![c] = new],
           UNCHANGED <<weekly, exception, override>>
    PROVE  Fresh(c, "holiday") /\ RulesTyped'
<1>1. holiday' \in [Calendars -> [Holidays -> Rules]]
  BY DEF CalendarTypeOK
<1>2. /\ \A e \in Calendars \ {c} : holiday'[e] = holiday[e]
      /\ holiday'[c] = new
  BY DEF CalendarTypeOK
<1>3. \A e \in Calendars : \A k2 \in RuleKinds :
         (e # c \/ k2 # "holiday") => stamps'[e][k2] = stamps[e][k2]
  BY <1>2, SameTable, RuleKindIs
<1>4. stamps'[c]["holiday"] = {new[x].at : x \in Holidays}
  BY <1>2, StampsNext
<1>5. \A x \in Holidays : new[x].at \in {holiday[c][x].at, 0, Next1(c)}
  BY DEF NoRule
<1>6. /\ Next1(c) \in stamps'[c]["holiday"]
      /\ stamps'[c]["holiday"] \subseteq
           stamps[c]["holiday"] \cup {0, Next1(c)}
  BY <1>4, <1>5, StampsOf
<1>7. RulesTyped'
  BY <1>1 DEF RulesTyped, CalendarTypeOK
<1> QED
  BY <1>3, <1>6, <1>7 DEF Fresh

\* An override gets a stamp: it is on, or another calendar's are untouched.
LEMMA FreshOverride ==
    ASSUME CalendarTypeOK, NEW c \in Calendars, Next1(c) \in Stamps,
           NEW o \in Overrides, NEW row \in OverrideRows,
           row.on, row.cal = c, row.version = Next1(c),
           override[o].on => override[o].cal = c,
           override' = [override EXCEPT ![o] = row],
           UNCHANGED <<weekly, exception, holiday>>
    PROVE  Fresh(c, "override") /\ RulesTyped'
<1>1. override' \in [Overrides -> OverrideRows]
  BY DEF CalendarTypeOK
<1>2. override'[o] = row
        /\ \A p \in Overrides \ {o} : override'[p] = override[p]
  BY DEF CalendarTypeOK
<1>3. \A e \in Calendars \ {c} :
         stamps'[e]["override"] = stamps[e]["override"]
  <2> SUFFICES ASSUME NEW e \in Calendars \ {c}
               PROVE  stamps'[e]["override"] = stamps[e]["override"]
    OBVIOUS
  <2>1. \A x \in Overrides : (override'[x].on /\ override'[x].cal = e)
            <=> (override[x].on /\ override[x].cal = e)
    BY <1>2
  <2>2. \A x \in Overrides : (override[x].on /\ override[x].cal = e)
            => override'[x] = override[x]
    BY <1>2
  <2>3. {x \in Overrides : override'[x].on /\ override'[x].cal = e}
          = {x \in Overrides : override[x].on /\ override[x].cal = e}
    BY <2>1
  <2> DEFINE on == {x \in Overrides : override[x].on /\ override[x].cal = e}
  <2>4. stamps'[e]["override"] = {override'[x].version : x \in on}
    BY <2>3, StampsNext
  <2>5. stamps[e]["override"] = {override[x].version : x \in on}
    BY StampsOf, StampsNext
  <2>6. \A x \in on : override'[x] = override[x]
    BY <2>2
  <2> HIDE DEF on
  <2> QED
    BY <2>4, <2>5, <2>6
<1>4. \A e \in Calendars : \A k2 \in RuleKinds :
         (e # c \/ k2 # "override") => stamps'[e][k2] = stamps[e][k2]
  <2> SUFFICES ASSUME NEW e \in Calendars, NEW k2 \in RuleKinds,
                      e # c \/ k2 # "override"
               PROVE  stamps'[e][k2] = stamps[e][k2]
    OBVIOUS
  <2>1. CASE k2 = "override"
    BY <2>1, <1>3
  <2>2. CASE k2 # "override"
    BY <2>2, SameTable, RuleKindIs
  <2> QED
    BY <2>1, <2>2
<1>5. stamps'[c]["override"] =
        {override'[x].version : x \in
           {y \in Overrides : override'[y].on /\ override'[y].cal = c}}
  BY StampsOf, StampsNext
<1>6. /\ Next1(c) \in stamps'[c]["override"]
      /\ stamps'[c]["override"] \subseteq
           stamps[c]["override"] \cup {0, Next1(c)}
  BY <1>2, <1>5, StampsOf
<1>7. RulesTyped'
  BY <1>1 DEF RulesTyped, CalendarTypeOK
<1> QED
  BY <1>4, <1>6, <1>7 DEF Fresh

-----------------------------------------------------------------------------
(* Calendar: any change keeps what relates the tables.                     *)

LEMMA NextVersion ==
    ASSUME CalendarTypeOK, NEW c \in Calendars,
           cal[c].version < MaxVersion
    PROVE  Next1(c) \in Stamps /\ cal[c].version \in Stamps
             /\ Stamps \subseteq Nat
BY CalendarAssumption DEF CalendarTypeOK, Rows, Next1, Stamps

LEMMA Written ==
    ASSUME CalendarTypeOK, NEW c \in Calendars,
           NEW row \in Rows, NEW kind \in Kinds,
           NEW k \in Keys \cup {NoKey}, cal[c].version < MaxVersion,
           Writes(c, row, kind, k)
    PROVE  /\ cal' \in [Calendars -> Rows]
           /\ ledger' \in [Calendars -> Seq(Events)]
           /\ cal'[c] = [row EXCEPT !.version = Next1(c)]
           /\ \A d \in Calendars \ {c} : /\ cal'[d] = cal[d]
                                         /\ ledger'[d] = ledger[d]
           /\ Len(ledger'[c]) = Len(ledger[c]) + 1
           /\ \A i \in 1..Len(ledger[c]) : ledger'[c][i] = ledger[c][i]
           /\ ledger'[c][Len(ledger[c]) + 1] =
                [prev |-> cal[c].version, new |-> Next1(c), kind |-> kind, key |-> k]
<1> DEFINE e == [prev |-> cal[c].version, new |-> Next1(c), kind |-> kind, key |-> k]
           new == [row EXCEPT !.version = Next1(c)]
<1>1. e \in Events /\ new \in Rows
  BY NextVersion DEF Events, Rows
<1>2. cal' = [cal EXCEPT ![c] = new]
      /\ ledger' = [ledger EXCEPT ![c] = Append(ledger[c], e)]
  BY DEF Writes
<1>3. ledger[c] \in Seq(Events)
  BY DEF CalendarTypeOK
<1> HIDE DEF e, new
<1>4. /\ Append(ledger[c], e) \in Seq(Events)
      /\ Len(Append(ledger[c], e)) = Len(ledger[c]) + 1
      /\ \A i \in 1..Len(ledger[c]) : Append(ledger[c], e)[i] = ledger[c][i]
      /\ Append(ledger[c], e)[Len(ledger[c]) + 1] = e
  BY <1>1, <1>3
<1>5. cal' \in [Calendars -> Rows] /\ cal'[c] = new
      /\ \A d \in Calendars \ {c} : cal'[d] = cal[d]
  BY <1>1, <1>2 DEF CalendarTypeOK
<1>6. /\ ledger' \in [Calendars -> Seq(Events)]
      /\ ledger'[c] = Append(ledger[c], e)
      /\ \A d \in Calendars \ {c} : ledger'[d] = ledger[d]
  BY <1>2, <1>4 DEF CalendarTypeOK
<1> QED
  BY <1>4, <1>5, <1>6 DEF e, new

LEMMA StepForm ==
    ASSUME CalendarTypeOK, NEW c \in Calendars,
           NEW row \in Rows,
           NEW kind \in Kinds, NEW k \in Keys \cup {NoKey}, OneChange(c, row,
           kind, k)
    PROVE  /\ cal' \in [Calendars -> Rows]
           /\ ledger' \in [Calendars -> Seq(Events)]
           /\ cal'[c].status = row.status
           /\ cal'[c].scope = row.scope
           /\ cal'[c].version = Next1(c)
           /\ \A d \in Calendars \ {c} : /\ cal'[d] = cal[d]
                                         /\ ledger'[d] = ledger[d]
           /\ Len(ledger'[c]) = Len(ledger[c]) + 1
           /\ \A i \in 1..Len(ledger[c]) : ledger'[c][i] = ledger[c][i]
           /\ ledger'[c][Len(ledger[c]) + 1] =
                [prev |-> cal[c].version, new |-> Next1(c), kind |-> kind, key |-> k]
<1>1. cal[c].version < MaxVersion /\ Writes(c, row, kind, k)
  BY DEF OneChange
<1> HIDE DEF OneChange
<1>2. /\ cal' \in [Calendars -> Rows]
      /\ ledger' \in [Calendars -> Seq(Events)]
      /\ cal'[c] = [row EXCEPT !.version = Next1(c)]
      /\ \A d \in Calendars \ {c} : cal'[d] = cal[d] /\ ledger'[d] = ledger[d]
      /\ Len(ledger'[c]) = Len(ledger[c]) + 1
      /\ \A i \in 1..Len(ledger[c]) : ledger'[c][i] = ledger[c][i]
      /\ ledger'[c][Len(ledger[c]) + 1] =
           [prev |-> cal[c].version, new |-> Next1(c), kind |-> kind, key |-> k]
  BY <1>1, Written
<1>3. /\ [row EXCEPT !.version = Next1(c)].status = row.status
      /\ [row EXCEPT !.version = Next1(c)].scope = row.scope
      /\ [row EXCEPT !.version = Next1(c)].version = Next1(c)
  BY DEF Rows
<1> QED
  BY <1>2, <1>3

LEMMA StepAudited ==
    ASSUME CalendarTypeOK, VersionsAudited,
           NEW c \in Calendars, NEW row \in Rows,
           NEW kind \in Kinds, NEW k \in Keys \cup {NoKey}, OneChange(c, row,
           kind, k)
    PROVE  VersionsAudited'
<1>1. Next1(c) = cal[c].version + 1 /\ cal[c].version \in Nat
  BY NextVersion DEF OneChange, Next1
<1>2. Len(ledger[c]) = cal[c].version
  BY DEF VersionsAudited
<1>3. cal'[c].version = Next1(c)
  BY StepForm
<1>4. ASSUME NEW d \in Calendars
      PROVE  /\ Len(ledger'[d]) = cal'[d].version
             /\ \A i \in 1..Len(ledger'[d]) :
                  ledger'[d][i].new = i /\ ledger'[d][i].prev = i - 1
  <2>1. CASE d # c
    <3>1. /\ \A e \in Calendars \ {c} : cal'[e] = cal[e]
          /\ \A e \in Calendars \ {c} : ledger'[e] = ledger[e]
      BY StepForm
    <3>2. cal'[d] = cal[d] /\ ledger'[d] = ledger[d]
      BY <2>1, <3>1
    <3> QED
      BY <3>2 DEF VersionsAudited
  <2>2. CASE d = c
    <3>1. Len(ledger'[c]) = cal[c].version + 1
      BY <1>2, StepForm
    <3> SUFFICES ASSUME NEW i \in 1..(cal[c].version + 1)
                 PROVE  ledger'[c][i].new = i /\ ledger'[c][i].prev = i - 1
      BY <1>1, <1>3, <2>2, <3>1
    <3>2. CASE i = cal[c].version + 1
      <4>1. ledger'[c][Len(ledger[c]) + 1] =
              [prev |-> cal[c].version, new |-> Next1(c), kind |-> kind, key |-> k]
        BY StepForm
      <4> QED
        BY <1>1, <1>2, <3>2, <4>1
    <3>3. CASE i # cal[c].version + 1
      <4>1. i \in 1..Len(ledger[c])
        BY <1>1, <1>2, <3>3
      <4>2. ledger'[c][i] = ledger[c][i]
        BY <4>1, StepForm
      <4> QED
        BY <4>1, <4>2 DEF VersionsAudited
    <3> QED
      BY <3>2, <3>3
  <2> QED
    BY <2>1, <2>2
<1> QED
  BY <1>4 DEF VersionsAudited

LEMMA StepOneActive ==
    ASSUME CalendarTypeOK, OneActive, NEW c \in Calendars,
           NEW row \in Rows,
           NEW kind \in Kinds, NEW k \in Keys \cup {NoKey}, OneChange(c, row,
           kind, k)
    PROVE  OneActive'
<1>1. /\ cal'[c].status = row.status /\ cal'[c].scope = row.scope
      /\ \A d \in Calendars \ {c} : cal'[d] = cal[d]
  BY StepForm
<1>2. row.status = "active" => \A d \in Calendars \ {c} :
            ~(cal[d].status = "active" /\ cal[d].scope = row.scope)
  BY DEF OneChange, Fits
<1> SUFFICES ASSUME NEW b \in Scopes, NEW d \in Calendars,
NEW e \in Calendars,
                    cal'[d].status = "active", cal'[d].scope = b,
                    cal'[e].status = "active", cal'[e].scope = b
             PROVE  d = e
  BY DEF OneActive, ActiveIn
<1>3. CASE d = c \/ e = c
  BY <1>1, <1>2, <1>3
<1>4. CASE d # c /\ e # c
  BY <1>1, <1>4 DEF OneActive, ActiveIn
<1> QED
  BY <1>3, <1>4

LEMMA StepStamps ==
    ASSUME CalendarTypeOK, StampsBounded, NEW c \in Calendars,
           NEW row \in Rows,
           NEW kind \in Kinds, NEW k \in Keys \cup {NoKey}, OneChange(c, row,
           kind, k)
    PROVE  StampsBounded'
<1>1. Next1(c) = cal[c].version + 1
        /\ \A d \in Calendars : cal[d].version \in Nat
  BY CalendarAssumption DEF Next1, CalendarTypeOK, Rows, Stamps
<1>2. cal'[c].version = Next1(c)
        /\ \A d \in Calendars \ {c} : cal'[d] = cal[d]
  BY StepForm
<1> SUFFICES ASSUME NEW d \in Calendars, NEW k2 \in RuleKinds
             PROVE  /\ stamps'[d][k2] \subseteq 0..cal'[d].version
                    /\ HasGreatest(stamps'[d][k2])
  BY DEF StampsBounded, HasGreatest
<1>3. stamps[d][k2] \subseteq 0..cal[d].version /\ HasGreatest(stamps[d][k2])
  BY DEF StampsBounded
<1>4. CASE d # c \/ k2 # kind
  <2>1. stamps'[d][k2] = stamps[d][k2]
    BY <1>4 DEF OneChange, Fresh
  <2>2. cal[d].version <= cal'[d].version
    BY <1>1, <1>2
  <2> QED
    BY <1>1, <1>2, <1>3, <2>1, <2>2
<1>5. CASE d = c /\ k2 = kind
  <2>1. /\ Next1(c) \in stamps'[c][k2]
        /\ stamps'[c][k2] \subseteq stamps[c][k2] \cup {0, Next1(c)}
    BY <1>5 DEF OneChange, Fresh, RuleKinds
  <2>2. \A y \in stamps'[c][k2] : y \in 0..Next1(c) /\ y <= Next1(c)
    BY <1>1, <1>3, <1>5, <2>1
  <2> QED
    BY <1>2, <1>5, <2>1, <2>2 DEF HasGreatest
<1> QED
  BY <1>4, <1>5

\* Rules get the next version at most, or one that they had.
LEMMA StepYounger ==
    ASSUME CalendarTypeOK, RulesYounger, NEW c \in Calendars,
           NEW row \in Rows,
           NEW kind \in Kinds, NEW k \in Keys \cup {NoKey}, OneChange(c, row,
           kind, k),
           RulesTyped',
           \A e \in Calendars : \A d \in Dates :
             \/ exception'[e][d] = exception[e][d]
             \/ e = c /\ exception'[e][d].version <= Next1(c),
           \A e \in Calendars : \A h \in Holidays :
             \/ holiday'[e][h] = holiday[e][h]
             \/ e = c /\ holiday'[e][h].version <= Next1(c)
    PROVE  RulesYounger'
<1>1. Next1(c) = cal[c].version + 1
        /\ \A e \in Calendars : cal[e].version \in Nat
  BY CalendarAssumption DEF Next1, CalendarTypeOK, Rows, Stamps
<1>2. cal'[c].version = Next1(c)
        /\ \A e \in Calendars \ {c} : cal'[e] = cal[e]
  BY StepForm
<1>3. \A e \in Calendars : cal[e].version <= cal'[e].version
        /\ cal'[e].version \in Nat
  BY <1>1, <1>2
<1> SUFFICES ASSUME NEW e \in Calendars
             PROVE  /\ \A d \in Dates :
                         exception'[e][d].version <= cal'[e].version
                    /\ \A h \in Holidays :
                         holiday'[e][h].version <= cal'[e].version
  BY DEF RulesYounger
<1>4. ASSUME NEW d \in Dates
      PROVE  exception'[e][d].version <= cal'[e].version
  <2>1. exception[e][d].version \in Nat
        /\ exception[e][d].version <= cal[e].version
    BY CalendarAssumption DEF CalendarTypeOK, Rules, Stamps, RulesYounger
  <2>2. CASE exception'[e][d] = exception[e][d]
    BY <1>1, <1>3, <2>1, <2>2
  <2>3. CASE e = c /\ exception'[e][d].version <= Next1(c)
    BY <1>2, <2>3
  <2> QED
    BY <2>2, <2>3
<1>5. ASSUME NEW h \in Holidays
      PROVE  holiday'[e][h].version <= cal'[e].version
  <2>1. holiday[e][h].version \in Nat /\ holiday[e][h].version <= cal[e].version
    BY CalendarAssumption DEF CalendarTypeOK, Rules, Stamps, RulesYounger
  <2>2. CASE holiday'[e][h] = holiday[e][h]
    BY <1>1, <1>3, <2>1, <2>2
  <2>3. CASE e = c /\ holiday'[e][h].version <= Next1(c)
    BY <1>2, <2>3
  <2> QED
    BY <2>2, <2>3
<1> QED
  BY <1>4, <1>5

LEMMA StepCovered ==
    ASSUME CalendarTypeOK, VersionsAudited, Covered,
           StampsBounded, NEW c \in Calendars,
           NEW row \in Rows, NEW kind \in Kinds,
           NEW k \in Keys \cup {NoKey},
           OneChange(c, row, kind, k)
    PROVE  Covered'
<1>1. /\ Next1(c) = cal[c].version + 1
      /\ \A d \in Calendars : /\ cal[d].version \in Nat
                              /\ Len(ledger[d]) = cal[d].version
  BY CalendarAssumption DEF Next1, CalendarTypeOK, Rows, Stamps, VersionsAudited
<1>2. cal'[c].version = Next1(c)
        /\ \A d \in Calendars \ {c} : cal'[d] = cal[d]
  BY StepForm
<1> SUFFICES ASSUME NEW d \in Calendars, NEW i \in 1..cal'[d].version,
                    ledger'[d][i].kind # "calendar"
             PROVE  \E x \in stamps'[d][ledger'[d][i].kind] : i <= x
  BY DEF Covered
<1>3. CASE d = c /\ i = Next1(c)
  <2>1. ledger'[c][Len(ledger[c]) + 1] =
          [prev |-> cal[c].version, new |-> Next1(c), kind |-> kind, key |-> k]
    BY StepForm
  <2>2. ledger'[c][Len(ledger[c]) + 1].kind = kind
    BY <2>1
  <2>3. ledger'[d][i].kind = kind
    BY <2>2, <1>1, <1>3
  <2>4. Next1(c) \in stamps'[c][kind]
    BY <2>3 DEF OneChange, Fresh
  <2> QED
    BY <1>1, <1>3, <2>3, <2>4
<1>4. CASE ~(d = c /\ i = Next1(c))
  <2>1. i \in 1..cal[d].version
    BY <1>1, <1>2, <1>4
  <2>2. ledger'[d][i] = ledger[d][i]
    <3>1. /\ \A e \in Calendars \ {c} : ledger'[e] = ledger[e]
          /\ \A j \in 1..Len(ledger[c]) : ledger'[c][j] = ledger[c][j]
      BY StepForm
    <3> QED
      BY <1>1, <2>1, <3>1
  <2> DEFINE k2 == ledger[d][i].kind
  <2>3. k2 \in RuleKinds
    <3>1. ledger[d] \in Seq(Events)
      BY DEF CalendarTypeOK
    <3>2. ledger[d][i] \in Events
      BY <1>1, <2>1, <3>1
    <3> QED
      BY <2>2, <3>2 DEF Events, RuleKinds
  <2>4. PICK x \in stamps[d][k2] : i <= x
    BY <2>1, <2>2 DEF Covered
  <2> HIDE DEF k2
  <2>5. x <= cal[d].version /\ x \in Nat
    BY <1>1, <2>3 DEF StampsBounded
  <2>6. CASE d # c \/ k2 # kind
    BY <2>2, <2>3, <2>4, <2>6 DEF OneChange, Fresh, k2
  <2>7. CASE d = c /\ k2 = kind
    <3>1. Next1(c) \in stamps'[c][kind]
      BY <2>3, <2>7 DEF OneChange, Fresh, RuleKinds
    <3> QED
      BY <1>1, <2>1, <2>2, <2>7, <3>1 DEF k2
  <2> QED
    BY <2>6, <2>7
<1> QED
  BY <1>3, <1>4

\* The events of other keys stay, and the new one's key had no receipt.
LEMMA StepKeys ==
    ASSUME CalendarTypeOK, VersionsAudited, KeysKnown,
           KeysApart, NEW c \in Calendars,
           NEW row \in Rows, NEW kind \in Kinds,
           NEW k \in Keys \cup {NoKey},
           OneChange(c, row, kind, k),
           k # NoKey => ~receipt[k].on /\ receipt'[k].on,
           \A j \in Keys : receipt[j].on => receipt'[j].on
    PROVE  KeysKnown' /\ KeysApart'
<1>1. /\ Next1(c) = cal[c].version + 1
      /\ \A d \in Calendars : /\ cal[d].version \in Nat
                              /\ Len(ledger[d]) = cal[d].version
  BY CalendarAssumption DEF Next1, CalendarTypeOK, Rows, Stamps, VersionsAudited
<1>2. /\ cal'[c].version = Next1(c)
      /\ \A d \in Calendars \ {c} : cal'[d] = cal[d]
      /\ Len(ledger'[c]) = Next1(c)
      /\ \A d \in Calendars \ {c} : ledger'[d] = ledger[d]
      /\ \A i \in 1..cal[c].version : ledger'[c][i] = ledger[c][i]
  <2>1. /\ cal'[c].version = Next1(c)
        /\ \A d \in Calendars \ {c} : cal'[d] = cal[d]
        /\ Len(ledger'[c]) = Len(ledger[c]) + 1
        /\ \A d \in Calendars \ {c} : ledger'[d] = ledger[d]
        /\ \A i \in 1..Len(ledger[c]) : ledger'[c][i] = ledger[c][i]
    BY StepForm
  <2> QED
    BY <1>1, <2>1
<1>3. ledger'[c][Next1(c)].key = k
  <2>1. ledger'[c][Len(ledger[c]) + 1] =
          [prev |-> cal[c].version, new |-> Next1(c), kind |-> kind, key |-> k]
    BY StepForm
  <2> QED
    BY <1>1, <2>1
<1>4. \A d \in Calendars : \A i \in 1..cal'[d].version :
         ~(d = c /\ i = Next1(c)) =>
            i \in 1..cal[d].version /\ ledger'[d][i] = ledger[d][i]
  <2> SUFFICES ASSUME NEW d \in Calendars, NEW i \in 1..cal'[d].version,
                      ~(d = c /\ i = Next1(c))
               PROVE  i \in 1..cal[d].version /\ ledger'[d][i] = ledger[d][i]
    OBVIOUS
  <2>1. CASE d = c
    BY <1>1, <1>2, <2>1
  <2>2. CASE d # c
    BY <1>2, <2>2
  <2> QED
    BY <2>1, <2>2
<1>5. \A d \in Calendars : \A i \in 1..cal[d].version :
        ledger[d][i].key \in Keys \cup {NoKey}
  <2> SUFFICES ASSUME NEW d \in Calendars, NEW i \in 1..cal[d].version
               PROVE  ledger[d][i].key \in Keys \cup {NoKey}
    OBVIOUS
  <2>1. ledger[d] \in Seq(Events)
    BY DEF CalendarTypeOK
  <2>2. ledger[d][i] \in Events
    BY <1>1, <2>1
  <2> QED
    BY <2>2 DEF Events
<1>6. \A d \in Calendars : \A i \in 1..cal[d].version :
         ledger[d][i].key # NoKey =>
            receipt[ledger[d][i].key].on /\ ledger[d][i].key # k
  BY <1>5 DEF KeysKnown
<1>7. KeysKnown'
  <2> SUFFICES ASSUME NEW d \in Calendars, NEW i \in 1..cal'[d].version,
                      ledger'[d][i].key # NoKey
               PROVE  receipt'[ledger'[d][i].key].on
    BY DEF KeysKnown
  <2>1. CASE d = c /\ i = Next1(c)
    BY <1>3, <2>1
  <2>2. CASE ~(d = c /\ i = Next1(c))
    BY <1>4, <1>5, <1>6, <2>2
  <2> QED
    BY <2>1, <2>2
<1>8. KeysApart'
  <2>1. \A d \in Calendars : Len(ledger'[d]) = cal'[d].version
    BY <1>1, <1>2
  <2> SUFFICES ASSUME NEW d \in Calendars, NEW e \in Calendars,
                      NEW i \in 1..cal'[d].version,
                      NEW j \in 1..cal'[e].version,
                      ledger'[d][i].key # NoKey,
                      ledger'[d][i].key = ledger'[e][j].key
               PROVE  d = e /\ i = j
    BY <2>1 DEF KeysApart
  <2>2. CASE d = c /\ i = Next1(c) /\ e = c /\ j = Next1(c)
    BY <2>2
  <2>3. CASE d = c /\ i = Next1(c) /\ ~(e = c /\ j = Next1(c))
    BY <1>3, <1>4, <1>6, <2>3
  <2>4. CASE ~(d = c /\ i = Next1(c)) /\ e = c /\ j = Next1(c)
    BY <1>3, <1>4, <1>6, <2>4
  <2>5. CASE ~(d = c /\ i = Next1(c)) /\ ~(e = c /\ j = Next1(c))
    <3>1. /\ i \in 1..cal[d].version /\ ledger'[d][i] = ledger[d][i]
          /\ j \in 1..cal[e].version /\ ledger'[e][j] = ledger[e][j]
      BY <1>4, <2>5
    <3> QED
      BY <1>1, <3>1 DEF KeysApart
  <2> QED
    BY <2>2, <2>3, <2>4, <2>5
<1> QED
  BY <1>7, <1>8

\* A question keeps what it has read: the events up to its version stay.
LEMMA StepLook ==
    ASSUME CalendarTypeOK, VersionsAudited, LookKnown,
           NEW c \in Calendars,
           NEW row \in Rows, NEW kind \in Kinds,
           NEW k \in Keys \cup {NoKey},
           OneChange(c, row, kind, k), UNCHANGED look
    PROVE  LookKnown'
<1>1. /\ Next1(c) = cal[c].version + 1
      /\ \A d \in Calendars : cal[d].version \in Nat
           /\ Len(ledger[d]) = cal[d].version
  BY CalendarAssumption DEF Next1, CalendarTypeOK, Rows, Stamps, VersionsAudited
<1>2. /\ cal'[c].version = Next1(c)
      /\ \A d \in Calendars \ {c} : cal'[d] = cal[d]
      /\ \A d \in Calendars \ {c} : ledger'[d] = ledger[d]
      /\ \A i \in 1..cal[c].version : ledger'[c][i] = ledger[c][i]
  <2>1. /\ cal'[c].version = Next1(c)
        /\ \A d \in Calendars \ {c} : cal'[d] = cal[d]
        /\ \A d \in Calendars \ {c} : ledger'[d] = ledger[d]
        /\ \A i \in 1..Len(ledger[c]) : ledger'[c][i] = ledger[c][i]
    BY StepForm
  <2> QED
    BY <1>1, <2>1
<1> SUFFICES ASSUME look.stage # "idle"
             PROVE  /\ look.version <= cal'[look.cal].version
                    /\ \A i \in 1..look.version :
                         ledger'[look.cal][i].kind \in AlreadyRead(look.stage)
                           => i <= look.seen[ledger'[look.cal][i].kind]
  BY DEF LookKnown, AlreadyRead, RuleKinds
<1>3. look.cal \in Calendars /\ look.version \in Nat
  BY CalendarAssumption DEF CalendarTypeOK, Looks, NoLook, Stamps
<1>4. look.version <= cal[look.cal].version
  BY DEF LookKnown
<1>5. \A i \in 1..look.version : ledger'[look.cal][i] = ledger[look.cal][i]
  BY <1>1, <1>2, <1>3, <1>4
<1>6. cal[look.cal].version <= cal'[look.cal].version
      /\ cal[look.cal].version \in Nat /\ cal'[look.cal].version \in Nat
  BY <1>1, <1>2, <1>3
<1>7. look.version <= cal'[look.cal].version
  BY <1>3, <1>4, <1>6
<1> QED
  BY <1>5, <1>7 DEF LookKnown

\* Overrides that stay are known, and the versions of their calendars only grow.
LEMMA StepOverrides ==
    ASSUME CalendarTypeOK, OverridesKnown, NEW c \in Calendars,
           NEW row \in Rows, NEW kind \in Kinds,
           NEW k \in Keys \cup {NoKey},
           OneChange(c, row, kind, k), UNCHANGED override
    PROVE  OverridesKnown'
<1>1. Next1(c) = cal[c].version + 1
        /\ \A d \in Calendars : cal[d].version \in Nat
  BY CalendarAssumption DEF Next1, CalendarTypeOK, Rows, Stamps
<1>2. cal'[c].version = Next1(c)
        /\ \A d \in Calendars \ {c} : cal'[d] = cal[d]
  BY StepForm
<1>3. \A d \in Calendars : cal[d].version <= cal'[d].version
        /\ cal'[d].version \in Nat
  BY <1>1, <1>2
<1>4. \A o \in Overrides : override[o].on =>
         override[o].cal \in Calendars /\ override[o].born \in Nat
  <2> SUFFICES ASSUME NEW o \in Overrides, override[o].on
               PROVE  override[o].cal \in Calendars /\ override[o].born \in Nat
    OBVIOUS
  <2>1. override[o] \in [on : {TRUE}, cal : Calendars, born : Stamps,
                          version : Stamps, revoked : BOOLEAN]
    BY OverrideIs
  <2>2. override[o].cal \in Calendars /\ override[o].born \in Stamps
    BY <2>1
  <2> QED
    BY <2>2, CalendarAssumption DEF Stamps
<1>5. \A o \in Overrides : override[o].on =>
         override[o].born <= cal'[override[o].cal].version
  BY <1>1, <1>3, <1>4 DEF OverridesKnown
<1> QED
  BY <1>5 DEF OverridesKnown

-----------------------------------------------------------------------------
(* Calendar: each operation is such a change.                              *)

\* A row that keeps its status and its scope fits.
LEMMA StaysFit ==
    ASSUME CalendarTypeOK, OneActive, NEW c \in Calendars
    PROVE  cal[c] \in Rows /\ Fits(c, cal[c])
<1>1. cal[c] \in Rows /\ cal[c].scope \in Scopes
  BY DEF CalendarTypeOK, Rows
<1> QED
  BY <1>1 DEF Fits, OneActive, ActiveIn

\* The rules of other calendars stay, and new ones are not older.
RulesOf(c) ==
    /\ \A e \in Calendars : \A d \in Dates :
         \/ exception'[e][d] = exception[e][d]
         \/ e = c /\ exception'[e][d].version <= Next1(c)
    /\ \A e \in Calendars : \A h \in Holidays :
         \/ holiday'[e][h] = holiday[e][h]
         \/ e = c /\ holiday'[e][h].version <= Next1(c)

LEMMA ChangeStep ==
    ASSUME CalendarTypeOK, OneActive, NEW cmd \in Commands,
           NEW k \in Keys \cup {NoKey}, Change(cmd, k)
    PROVE  /\ RulesTyped'
           /\ \E row \in Rows, kind \in Kinds :
                OneChange(cmd.cal, row, kind, k)
           /\ RulesOf(cmd.cal)
<1> DEFINE c == cmd.cal
<1>1. c \in Calendars /\ cal[c].version < MaxVersion
  BY CommandKnown DEF Change, Room
<1>2. Next1(c) \in Stamps
  BY <1>1, NextVersion
<1>3. cal[c] \in Rows /\ Fits(c, cal[c])
  BY <1>1, StaysFit
<1>4. 1 \in Stamps
  BY <1>1, CalendarAssumption DEF CalendarTypeOK, Rows, Stamps
<1>5. 1 <= Next1(c)
  BY <1>1, CalendarAssumption DEF CalendarTypeOK, Rows, Stamps, Next1
<1>6. cmd.op # "create" => cal[c].status # "archived"
  BY DEF Change, Passes, Mutable
<1>7. CASE CreateCalendar(cmd, k)
  <2> DEFINE row == [Absent EXCEPT !.status = "draft", !.scope = cmd.ref]
  <2>1. cmd.op = "create" /\ cmd.ref \in Scopes /\ cal[c].status = "absent"
    BY <1>7, CommandKnown DEF CreateCalendar, Change, Unique
  <2>2. row \in Rows /\ row.status = "draft"
    <3>1. 0 \in Stamps /\ "draft" \in Statuses /\ "absent" \in Statuses
      BY CalendarAssumption DEF Stamps, Statuses
    <3>2. Absent \in Rows
      BY <3>1 DEF Absent, Rows, Scopes
    <3> QED
      BY <2>1, <3>1, <3>2 DEF Rows
  <2>3. Writes(c, row, "calendar", k) /\ UNCHANGED ruleRows
    BY <1>7 DEF CreateCalendar
  <2> HIDE DEF row
  <2>4. Fits(c, row) /\ Fresh(c, "calendar")
    BY <1>1, <2>2, <2>3, SameRules DEF Fits
  <2>5. RulesTyped'
    BY <2>3 DEF ruleRows, RulesTyped, CalendarTypeOK
  <2>6. RulesOf(c)
    BY <2>3 DEF ruleRows, RulesOf
  <2> QED
    BY <1>1, <2>1, <2>2, <2>3, <2>4, <2>5, <2>6 DEF OneChange, Kinds
<1>8. CASE ReplaceWeeklySchedule(cmd, k)
  <2>1. Fresh(c, "weekly") /\ RulesTyped'
    BY <1>1, <1>2, <1>8, FreshWeekly DEF ReplaceWeeklySchedule
  <2>2. OneChange(c, cal[c], "weekly", k)
    BY <1>1, <1>3, <1>6, <1>8, <2>1 DEF ReplaceWeeklySchedule, OneChange
  <2>3. RulesOf(c)
    BY <1>8 DEF ReplaceWeeklySchedule, RulesOf
  <2> QED
    BY <1>3, <2>1, <2>2, <2>3 DEF Kinds
<1>9. CASE CreateDateException(cmd, k)
  <2>1. cmd.ref \in Dates
    BY <1>9, CommandKnown DEF CreateDateException
  <2>2. Fresh(c, "exception") /\ RulesTyped'
    BY <1>1, <1>2, <1>4, <1>9, <2>1, FreshException DEF CreateDateException
  <2>3. OneChange(c, cal[c], "exception", k)
    BY <1>1, <1>3, <1>6, <1>9, <2>2 DEF CreateDateException, OneChange
  <2>4. RulesOf(c)
    BY <1>5, <1>1, <1>9, <2>1 DEF CreateDateException, RulesOf, CalendarTypeOK
  <2> QED
    BY <1>3, <2>2, <2>3, <2>4 DEF Kinds
<1>10. CASE CreateHoliday(cmd, k)
  <2> DEFINE new == [holiday[c] EXCEPT ![cmd.ref] =
                       [version |-> 1, at |-> Next1(c)]]
  <2>1. cmd.ref \in Holidays
    BY <1>10, CommandKnown DEF CreateHoliday
  <2>2. holiday[c] \in [Holidays -> Rules]
          /\ [version |-> 1, at |-> Next1(c)] \in Rules
    BY <1>1, <1>2, <1>4 DEF CalendarTypeOK, Rules
  <2>3. /\ new \in [Holidays -> Rules] /\ new[cmd.ref].at = Next1(c)
        /\ \A x \in Holidays \ {cmd.ref} : new[x] \in {holiday[c][x], NoRule}
    BY <2>1, <2>2
  <2>4. holiday' = [holiday EXCEPT ![c] = new]
    BY <1>10 DEF CreateHoliday
  <2>5. RulesOf(c)
    BY <1>5, <1>1, <1>10, <2>1, <2>2, <2>4 DEF CreateHoliday, RulesOf,
       CalendarTypeOK
  <2> HIDE DEF new
  <2>6. UNCHANGED <<weekly, exception, override>>
    BY <1>10 DEF CreateHoliday
  <2>7. Fresh(c, "holiday") /\ RulesTyped'
    BY <1>1, <1>2, <2>1, <2>3, <2>4, <2>6, FreshHoliday
  <2>8. OneChange(c, cal[c], "holiday", k)
    BY <1>1, <1>3, <1>6, <1>10, <2>7 DEF CreateHoliday, OneChange
  <2> QED
    BY <1>3, <2>7, <2>8, <2>5 DEF Kinds
<1>11. CASE CreateOverride(cmd, k)
  <2> DEFINE new == [on |-> TRUE, cal |-> c, born |-> Next1(c),
                     version |-> Next1(c), revoked |-> FALSE]
  <2>1. PICK o \in Overrides :
           ~override[o].on /\ override' = [override EXCEPT ![o] = new]
    BY <1>11 DEF CreateOverride
  <2>2. new \in OverrideRows /\ new.on /\ new.cal = c
          /\ new.version = Next1(c)
    BY <1>1, <1>2 DEF OverrideRows
  <2> HIDE DEF new
  <2>3. Fresh(c, "override") /\ RulesTyped'
    BY <1>1, <1>2, <1>11, <2>1, <2>2, FreshOverride DEF CreateOverride
  <2>4. OneChange(c, cal[c], "override", k)
    BY <1>1, <1>3, <1>6, <1>11, <2>3 DEF CreateOverride, OneChange
  <2>5. RulesOf(c)
    BY <1>11 DEF CreateOverride, RulesOf
  <2> QED
    BY <1>3, <2>3, <2>4, <2>5 DEF Kinds
<1>12. CASE RevokeOverride(cmd, k)
  <2> DEFINE o == cmd.ref
             new == [override[o] EXCEPT !.revoked = TRUE, !.version = Next1(c)]
  <2>1. o \in Overrides /\ override[o].on /\ override[o].cal = c
    BY <1>12, CommandKnown DEF RevokeOverride, Change, Passes
  <2>2. override[o] \in [on : {TRUE}, cal : Calendars, born : Stamps,
                         version : Stamps, revoked : BOOLEAN]
    BY <2>1, OverrideIs
  <2>3. new \in OverrideRows /\ new.on /\ new.cal = c
          /\ new.version = Next1(c)
    BY <1>2, <2>1, <2>2 DEF OverrideRows
  <2>4. override' = [override EXCEPT ![o] = new]
    BY <1>12, <2>1, <2>2 DEF RevokeOverride, CalendarTypeOK
  <2> HIDE DEF new, o
  <2>5. Fresh(c, "override") /\ RulesTyped'
    BY <1>1, <1>2, <1>12, <2>1, <2>3, <2>4, FreshOverride DEF RevokeOverride
  <2>6. OneChange(c, cal[c], "override", k)
    BY <1>1, <1>3, <1>6, <1>12, <2>5 DEF RevokeOverride, OneChange
  <2>7. RulesOf(c)
    BY <1>12 DEF RevokeOverride, RulesOf
  <2> QED
    BY <1>3, <2>5, <2>6, <2>7 DEF Kinds
<1> QED
  BY <1>7, <1>8, <1>9, <1>10, <1>11, <1>12 DEF Change

LEMMA UpdateCalendarStep ==
    ASSUME CalendarTypeOK, OneActive, NEW c \in Calendars, NEW b \in Scopes,
           UpdateCalendar(c, b)
    PROVE  /\ RulesTyped'
           /\ \E row \in Rows : OneChange(c, row, "calendar", NoKey)
           /\ RulesOf(c)
<1> DEFINE row == [cal[c] EXCEPT !.scope = b]
<1>1. row \in Rows
  BY DEF CalendarTypeOK, Rows
<1>2. /\ Mutable(c) /\ Room(c) /\ Fits(c, row)
      /\ Writes(c, row, "calendar", NoKey)
      /\ UNCHANGED ruleRows
  BY DEF UpdateCalendar
<1> HIDE DEF row
<1>3. Fresh(c, "calendar") /\ RulesTyped'
  BY <1>2, SameRules DEF ruleRows, RulesTyped, CalendarTypeOK
<1>4. RulesOf(c)
  BY <1>2 DEF ruleRows, RulesOf
<1>5. OneChange(c, row, "calendar", NoKey)
  BY <1>2, <1>3 DEF OneChange, Mutable, Room
<1> QED
  BY <1>4, <1>1, <1>3, <1>5

LEMMA TransitionStep ==
    ASSUME CalendarTypeOK, OneActive, NEW c \in Calendars, NEW to \in Statuses,
           TransitionCalendar(c, to)
    PROVE  /\ RulesTyped'
           /\ \E row \in Rows : OneChange(c, row, "calendar", NoKey)
           /\ RulesOf(c)
<1> DEFINE row == [cal[c] EXCEPT !.status = to]
<1>1. row \in Rows
  BY DEF CalendarTypeOK, Rows
<1>2. /\ to \in NextStatuses(cal[c].status) /\ Room(c) /\ Fits(c, row)
      /\ Writes(c, row, "calendar", NoKey)
      /\ UNCHANGED ruleRows
  BY DEF TransitionCalendar
<1> HIDE DEF row
<1>3. Fresh(c, "calendar") /\ RulesTyped'
  BY <1>2, SameRules DEF ruleRows, RulesTyped, CalendarTypeOK
<1>4. RulesOf(c)
  BY <1>2 DEF ruleRows, RulesOf
<1>5. cal[c].status # "archived"
  BY <1>2 DEF NextStatuses
<1>6. OneChange(c, row, "calendar", NoKey)
  BY <1>2, <1>3, <1>5 DEF OneChange, Room
<1> QED
  BY <1>4, <1>1, <1>3, <1>6

\* A rule has fewer versions than its calendar, whose version it was changed with.
LEMMA UpdateExceptionStep ==
    ASSUME CalendarTypeOK, OneActive, RulesYounger,
           NEW c \in Calendars, NEW d \in Dates,
           UpdateDateException(c, d)
    PROVE  /\ RulesTyped'
           /\ \E row \in Rows : OneChange(c, row, "exception", NoKey)
           /\ RulesOf(c)
<1>1. /\ Mutable(c) /\ cal[c].version < MaxVersion
      /\ exception' = [exception EXCEPT ![c][d] =
                         [version |-> exception[c][d].version + 1, at |-> Next1(c)]]
      /\ Writes(c, cal[c], "exception", NoKey)
      /\ UNCHANGED <<weekly, holiday, override>>
  BY DEF UpdateDateException, Room
<1>2. Next1(c) \in Stamps
  BY <1>1, NextVersion
<1>3. /\ exception[c][d].version \in Nat /\ cal[c].version \in Nat
      /\ exception[c][d].version <= cal[c].version
      /\ Next1(c) = cal[c].version + 1
  BY CalendarAssumption DEF CalendarTypeOK, Rows, Rules, Stamps, RulesYounger,
     Next1
<1>4. exception[c][d].version + 1 \in Stamps
      /\ exception[c][d].version + 1 <= Next1(c)
  BY <1>3, <1>1, CalendarAssumption DEF Stamps
<1>5. RulesOf(c)
  BY <1>1, <1>4 DEF RulesOf, CalendarTypeOK
<1>6. Fresh(c, "exception") /\ RulesTyped'
  BY <1>1, <1>2, <1>4, FreshException
<1>7. OneChange(c, cal[c], "exception", NoKey)
  BY <1>1, <1>6, StaysFit DEF OneChange, Mutable
<1> QED
  BY <1>6, <1>7, <1>5, StaysFit

LEMMA UpdateHolidayStep ==
    ASSUME CalendarTypeOK, OneActive, RulesYounger,
           NEW c \in Calendars,
           NEW h \in Holidays, NEW to \in Holidays, UpdateHoliday(c, h, to)
    PROVE  /\ RulesTyped'
           /\ \E row \in Rows : OneChange(c, row, "holiday", NoKey)
           /\ RulesOf(c)
<1> DEFINE new == [x \in Holidays |->
                     CASE x = to -> [version |-> holiday[c][h].version + 1,
                                     at |-> Next1(c)]
                       [] x = h /\ x # to -> NoRule
                       [] OTHER -> holiday[c][x]]
<1>1. /\ Mutable(c) /\ cal[c].version < MaxVersion
      /\ holiday' = [holiday EXCEPT ![c] = new]
      /\ Writes(c, cal[c], "holiday", NoKey)
      /\ UNCHANGED <<weekly, exception, override>>
  BY DEF UpdateHoliday, Room
<1>2. Next1(c) \in Stamps
  BY <1>1, NextVersion
<1>3. /\ holiday[c][h].version \in Nat /\ cal[c].version \in Nat
      /\ holiday[c][h].version <= cal[c].version
      /\ Next1(c) = cal[c].version + 1
  BY CalendarAssumption DEF CalendarTypeOK, Rows, Rules, Stamps, RulesYounger,
     Next1
<1>4. /\ holiday[c][h].version + 1 \in Stamps /\ 0 \in Stamps
      /\ holiday[c][h].version + 1 <= Next1(c) /\ 0 <= Next1(c)
  BY <1>3, <1>1, CalendarAssumption DEF Stamps
<1>5. \A x \in Holidays : holiday[c][x] \in Rules
  BY DEF CalendarTypeOK
<1>6. /\ [version |-> holiday[c][h].version + 1, at |-> Next1(c)] \in Rules
      /\ NoRule \in Rules
  BY <1>2, <1>4 DEF Rules, NoRule
<1>7. new[to].at = Next1(c)
  OBVIOUS
<1>8. \A x \in Holidays \ {to} : new[x] \in {holiday[c][x], NoRule}
  OBVIOUS
<1>9. new \in [Holidays -> Rules]
  BY <1>5, <1>6
<1>10. \A x \in Holidays :
         new[x] = holiday[c][x] \/ new[x].version <= Next1(c)
  BY <1>4 DEF NoRule
<1> HIDE DEF new
<1>11. RulesOf(c)
  BY <1>1, <1>10 DEF RulesOf, CalendarTypeOK
<1>12. Fresh(c, "holiday") /\ RulesTyped'
  BY <1>1, <1>2, <1>7, <1>8, <1>9, FreshHoliday
<1>13. OneChange(c, cal[c], "holiday", NoKey)
  BY <1>1, <1>12, StaysFit DEF OneChange, Mutable
<1> QED
  BY <1>12, <1>13, <1>11, StaysFit

-----------------------------------------------------------------------------
(* Calendar: the invariant is kept.                                        *)

\* What remains to be known of the overrides after a change.
LEMMA ChangeOverrides ==
    ASSUME CalendarTypeOK, OverridesKnown,
           NEW cmd \in Commands,
           NEW k \in Keys \cup {NoKey}, NEW row \in Rows,
           NEW kind \in Kinds,
           Change(cmd, k), OneChange(cmd.cal, row, kind, k)
    PROVE  OverridesKnown'
<1> DEFINE c == cmd.cal
<1>1. c \in Calendars
  BY CommandKnown
<1>2. Next1(c) = cal[c].version + 1
        /\ \A d \in Calendars : cal[d].version \in Nat
  BY <1>1, CalendarAssumption DEF Next1, CalendarTypeOK, Rows, Stamps
<1>3. cal'[c].version = Next1(c)
        /\ \A d \in Calendars \ {c} : cal'[d] = cal[d]
  BY <1>1, StepForm
<1>4. \A d \in Calendars : cal[d].version <= cal'[d].version
        /\ cal'[d].version \in Nat
  BY <1>2, <1>3
<1>5. ASSUME NEW o \in Overrides, override[o].on
      PROVE  /\ override[o].cal \in Calendars /\ override[o].born \in Nat
             /\ override[o].born <= cal[override[o].cal].version
             /\ override[o].born <= cal'[override[o].cal].version
  <2>1. override[o] \in [on : {TRUE}, cal : Calendars, born : Stamps,
                         version : Stamps, revoked : BOOLEAN]
    BY <1>5, OverrideIs
  <2>2. override[o].cal \in Calendars /\ override[o].born \in Nat
    <3>1. override[o].cal \in Calendars /\ override[o].born \in Stamps
      BY <2>1
    <3> QED
      BY <3>1, CalendarAssumption DEF Stamps
  <2>3. override[o].born <= cal[override[o].cal].version
    BY <1>5 DEF OverridesKnown
  <2> QED
    BY <1>2, <1>4, <2>2, <2>3
<1>6. CASE UNCHANGED override
  BY <1>1, <1>6, StepOverrides
<1>7. CASE CreateOverride(cmd, k)
  <2> DEFINE new == [on |-> TRUE, cal |-> c, born |-> Next1(c),
                     version |-> Next1(c), revoked |-> FALSE]
  <2>1. PICK o \in Overrides :
           ~override[o].on /\ override' = [override EXCEPT ![o] = new]
    BY <1>7 DEF CreateOverride
  <2>2. override'[o] = new
          /\ \A p \in Overrides \ {o} : override'[p] = override[p]
    BY <2>1 DEF CalendarTypeOK
  <2>3. \A p \in Overrides : (override[p].on /\ override[p].cal = c)
            => override[p].born # Next1(c)
    BY <1>1, <1>2, <1>5
  <2>4. ASSUME NEW p \in Overrides, override'[p].on
        PROVE  /\ override'[p].born <= cal'[override'[p].cal].version
               /\ ~override'[p].revoked
                    => override'[p].version = override'[p].born
               /\ \A q \in Overrides \ {p} :
                    (override'[q].on /\ override'[q].cal = override'[p].cal)
                        => override'[q].born # override'[p].born
    <3>1. CASE p = o
      <4>1. \A q \in Overrides \ {p} :
               (override'[q].on /\ override'[q].cal = c)
                 => override'[q].born # Next1(c)
        BY <2>2, <2>3, <3>1
      <4>2. Next1(c) <= cal'[c].version
        BY <1>1, <1>3, <1>4
      <4> QED
        BY <2>2, <3>1, <4>1, <4>2
    <3>2. CASE p # o
      <4>1. override'[p] = override[p] /\ override[p].on
        BY <2>2, <2>4, <3>2
      <4>2. \A q \in Overrides \ {p} :
               (override[q].on /\ override[q].cal = override[p].cal)
                   => override[q].born # override[p].born
        BY <4>1 DEF OverridesKnown
      <4>3. override'[o].cal = override[p].cal
              => override'[o].born # override[p].born
        BY <2>2, <2>3, <4>1
      <4>4. \A q \in Overrides \ {p} :
               (override'[q].on /\ override'[q].cal = override[p].cal)
                   => override'[q].born # override[p].born
        BY <2>2, <4>2, <4>3
      <4>5. override[p].born <= cal'[override[p].cal].version
        BY <1>5, <4>1
      <4>6. ~override[p].revoked => override[p].version = override[p].born
        BY <4>1 DEF OverridesKnown
      <4> QED
        BY <4>1, <4>4, <4>5, <4>6
    <3> QED
      BY <3>1, <3>2
  <2> QED
    BY <2>4 DEF OverridesKnown
<1>8. CASE RevokeOverride(cmd, k)
  <2> DEFINE o == cmd.ref
             new == [override[o] EXCEPT !.revoked = TRUE, !.version = Next1(c)]
  <2>1. o \in Overrides /\ override[o].on /\ override[o].cal = c
    BY <1>8, CommandKnown DEF RevokeOverride, Change, Passes
  <2>2. override[o] \in [on : {TRUE}, cal : Calendars, born : Stamps,
                         version : Stamps, revoked : BOOLEAN]
    BY <2>1, OverrideIs
  <2>3. override' = [override EXCEPT ![o] = new]
    BY <1>8, <2>1, <2>2 DEF RevokeOverride, CalendarTypeOK
  <2>4. new.on /\ new.cal = c /\ new.born = override[o].born /\ new.revoked
    BY <2>1, <2>2
  <2>5. override'[o] = new
          /\ \A p \in Overrides \ {o} : override'[p] = override[p]
    BY <2>1, <2>3 DEF CalendarTypeOK
  <2> HIDE DEF new, o
  <2>6. \A p \in Overrides :
           /\ override'[p].on <=> override[p].on
           /\ override[p].on => /\ override'[p].cal = override[p].cal
                                /\ override'[p].born = override[p].born
           /\ ~override'[p].revoked => override'[p] = override[p]
    BY <2>1, <2>4, <2>5
  <2>7. ASSUME NEW p \in Overrides, override'[p].on
        PROVE  /\ override'[p].born <= cal'[override'[p].cal].version
               /\ ~override'[p].revoked
                    => override'[p].version = override'[p].born
               /\ \A q \in Overrides \ {p} :
                    (override'[q].on /\ override'[q].cal = override'[p].cal)
                        => override'[q].born # override'[p].born
    <3>1. /\ override[p].on /\ override'[p].cal = override[p].cal
          /\ override'[p].born = override[p].born
      BY <2>6, <2>7
    <3>2. override[p].born <= cal'[override[p].cal].version
      BY <1>5, <3>1
    <3>3. ~override'[p].revoked => override'[p].version = override'[p].born
      BY <2>6, <3>1 DEF OverridesKnown
    <3>4. \A q \in Overrides \ {p} :
             (override[q].on /\ override[q].cal = override[p].cal)
                 => override[q].born # override[p].born
      BY <3>1 DEF OverridesKnown
    <3>5. \A q \in Overrides \ {p} :
             (override'[q].on /\ override'[q].cal = override[p].cal)
                 => override'[q].born # override[p].born
      BY <2>6, <3>4
    <3> QED
      BY <3>1, <3>2, <3>3, <3>5
  <2> QED
    BY <2>7 DEF OverridesKnown
<1>9. \/ UNCHANGED override
      \/ CreateOverride(cmd, k) \/ RevokeOverride(cmd, k)
  BY DEF Change, CreateCalendar, ReplaceWeeklySchedule,
     CreateDateException,
     CreateHoliday, ruleRows
<1> QED
  BY <1>6, <1>7, <1>8, <1>9

LEMMA StepTables ==
    ASSUME CalendarTypeOK, TablesInv, NEW c \in Calendars,
           NEW row \in Rows,
           NEW kind \in Kinds, NEW k \in Keys \cup {NoKey},
           OneChange(c, row, kind, k), RulesTyped', RulesOf(c)
    PROVE  TablesInv'
<1>1. VersionsAudited' /\ OneActive'
  BY StepAudited, StepOneActive DEF TablesInv
<1>2. StampsBounded' /\ Covered'
  BY StepStamps, StepCovered DEF TablesInv
<1>3. RulesYounger'
  BY StepYounger DEF TablesInv, RulesOf
<1> QED
  BY <1>1, <1>2, <1>3 DEF TablesInv

\* The operations without a key.
LEMMA LockedStep ==
    ASSUME CalInv, Locked
    PROVE  CalInv'
<1> DEFINE Stepped ==
      \E c \in Calendars, row \in Rows, kind \in Kinds :
         /\ OneChange(c, row, kind, NoKey) /\ RulesTyped' /\ RulesOf(c)
         /\ OverridesKnown'
<1>1. Stepped
  <2>1. ASSUME NEW cmd \in Commands, ApplyUnkeyed(cmd)
        PROVE  Stepped
    <3>1. Change(cmd, NoKey) /\ cmd.cal \in Calendars
      BY <2>1, CommandKnown DEF ApplyUnkeyed
    <3>2. RulesTyped' /\ RulesOf(cmd.cal)
          /\ \E row \in Rows, kind \in Kinds :
               OneChange(cmd.cal, row, kind, NoKey)
      BY <3>1, ChangeStep DEF CalInv, TablesInv
    <3>3. PICK row \in Rows, kind \in Kinds :
                 OneChange(cmd.cal, row, kind, NoKey)
      BY <3>2
    <3>4. OverridesKnown'
      BY <3>1, <3>3, ChangeOverrides DEF CalInv
    <3> QED
      BY <3>1, <3>2, <3>3, <3>4
  <2>2. ASSUME NEW c \in Calendars, NEW row \in Rows, NEW kind \in Kinds,
               OneChange(c, row, kind, NoKey), RulesTyped', RulesOf(c),
                 UNCHANGED override
        PROVE  Stepped
    <3>1. OverridesKnown'
      BY <2>2, StepOverrides DEF CalInv
    <3> QED
      BY <2>2, <3>1
  <2>3. ASSUME NEW c \in Calendars, NEW b \in Scopes, UpdateCalendar(c, b)
        PROVE  Stepped
    <3>1. UNCHANGED override
      BY <2>3 DEF UpdateCalendar, ruleRows
    <3>2. PICK row \in Rows : OneChange(c, row, "calendar", NoKey)
      BY <2>3, UpdateCalendarStep DEF CalInv, TablesInv
    <3>3. RulesTyped' /\ RulesOf(c)
      BY <2>3, UpdateCalendarStep DEF CalInv, TablesInv
    <3> QED
      BY <2>2, <3>1, <3>2, <3>3 DEF Kinds
  <2>4. ASSUME NEW c \in Calendars, NEW to \in Statuses, TransitionCalendar(c, to)
        PROVE  Stepped
    <3>1. UNCHANGED override
      BY <2>4 DEF TransitionCalendar, ruleRows
    <3>2. PICK row \in Rows : OneChange(c, row, "calendar", NoKey)
      BY <2>4, TransitionStep DEF CalInv, TablesInv
    <3>3. RulesTyped' /\ RulesOf(c)
      BY <2>4, TransitionStep DEF CalInv, TablesInv
    <3> QED
      BY <2>2, <3>1, <3>2, <3>3 DEF Kinds
  <2>5. ASSUME NEW c \in Calendars, NEW d \in Dates, UpdateDateException(c, d)
        PROVE  Stepped
    <3>1. UNCHANGED override
      BY <2>5 DEF UpdateDateException
    <3>2. PICK row \in Rows : OneChange(c, row, "exception", NoKey)
      BY <2>5, UpdateExceptionStep DEF CalInv, TablesInv
    <3>3. RulesTyped' /\ RulesOf(c)
      BY <2>5, UpdateExceptionStep DEF CalInv, TablesInv
    <3> QED
      BY <2>2, <3>1, <3>2, <3>3 DEF Kinds
  <2>6. ASSUME NEW c \in Calendars, NEW h \in Holidays, NEW to \in Holidays,
               UpdateHoliday(c, h, to)
        PROVE  Stepped
    <3>1. UNCHANGED override
      BY <2>6 DEF UpdateHoliday
    <3>2. PICK row \in Rows : OneChange(c, row, "holiday", NoKey)
      BY <2>6, UpdateHolidayStep DEF CalInv, TablesInv
    <3>3. RulesTyped' /\ RulesOf(c)
      BY <2>6, UpdateHolidayStep DEF CalInv, TablesInv
    <3> QED
      BY <2>2, <3>1, <3>2, <3>3 DEF Kinds
  <2> QED
    BY <2>1, <2>3, <2>4, <2>5, <2>6 DEF Locked
<1>2. PICK c \in Calendars, row \in Rows, kind \in Kinds :
         /\ OneChange(c, row, kind, NoKey) /\ RulesTyped' /\ RulesOf(c)
         /\ OverridesKnown'
  BY <1>1
<1>3. UNCHANGED <<receipt, call, look>>
  BY DEF Locked, ApplyUnkeyed, UpdateCalendar, TransitionCalendar,
     UpdateDateException,
     UpdateHoliday
<1>4. CalendarTypeOK'
  <2>1. cal' \in [Calendars -> Rows]
          /\ ledger' \in [Calendars -> Seq(Events)]
    BY <1>2, StepForm DEF CalInv
  <2> QED
    BY <1>2, <1>3, <2>1 DEF CalInv, CalendarTypeOK, RulesTyped
<1>5. TablesInv'
  BY <1>2, StepTables DEF CalInv
<1>6. KeysKnown' /\ KeysApart'
  BY <1>2, <1>3, StepKeys DEF CalInv, TablesInv
<1>7. LookKnown'
  BY <1>2, <1>3, StepLook DEF CalInv, TablesInv
<1>8. AnswersKept'
  BY <1>3 DEF CalInv, AnswersKept
<1> QED
  BY <1>2, <1>4, <1>5, <1>6, <1>7, <1>8 DEF CalInv

-----------------------------------------------------------------------------
(* Calendar: requests with a key.                                          *)

LEMMA CallIs ==
    ASSUME CalendarTypeOK, NEW r \in Callers
    PROVE  /\ call[r].stage \in {"admitted", "answered"} =>
                call[r].cmd \in Commands /\ call[r].key \in Keys
           /\ call[r].stage = "answered" => call[r].answer \in Stamps
BY DEF CalendarTypeOK, Calls, NoCall

LEMMA AnswerTyped ==
    ASSUME NEW cmd \in Commands, NEW k \in Keys, NEW answer \in Stamps
    PROVE  /\ Answer(cmd, k, answer) \in Calls
           /\ Answer(cmd, k, answer).stage = "answered" =>
                /\ answer # Refused
                /\ Answer(cmd, k, answer).cmd = cmd
                /\ Answer(cmd, k, answer).key = k
                /\ Answer(cmd, k, answer).answer = answer
<1>1. CASE answer = Refused
  BY <1>1 DEF Answer, Calls, NoCall
<1>2. CASE answer # Refused
  BY <1>2 DEF Answer, Calls
<1> QED
  BY <1>1, <1>2

\* A stored answer is that of the receipt.
LEMMA StoredTyped ==
    ASSUME CalendarTypeOK, NEW cmd \in Commands,
           NEW k \in Keys
    PROVE  /\ Stored(k, cmd) \in Stamps
           /\ Stored(k, cmd) # Refused =>
                receipt[k] = [on |-> TRUE, cmd |-> cmd, answer |-> Stored(k, cmd)]
<1>1. 0 \in Stamps
  BY CalendarAssumption DEF Stamps
<1>2. CASE receipt[k].on /\ receipt[k].cmd = cmd
  <2>1. receipt[k] \in [on : {TRUE}, cmd : Commands, answer : Stamps]
    <3>1. receipt[k] \in Receipts
      BY DEF CalendarTypeOK
    <3>2. receipt[k] # NoReceipt
      BY <1>2 DEF NoReceipt
    <3> QED
      BY <3>1, <3>2 DEF Receipts
  <2>2. Stored(k, cmd) = receipt[k].answer
    BY <1>2 DEF Stored
  <2> QED
    BY <1>2, <2>1, <2>2
<1>3. CASE ~(receipt[k].on /\ receipt[k].cmd = cmd)
  BY <1>1, <1>3 DEF Stored, Refused
<1> QED
  BY <1>2, <1>3

\* Steps of a request that leave the tables alone, and tell what is stored.
LEMMA QuietCall ==
    ASSUME CalInv, UNCHANGED <<calendarRows, look>>, NEW r \in Callers,
           NEW new \in Calls,
           call' = [call EXCEPT ![r] = new],
           new.stage = "answered" =>
             receipt[new.key] =
               [on |-> TRUE, cmd |-> new.cmd, answer |-> new.answer]
    PROVE  CalInv'
<1>1. /\ cal' = cal /\ weekly' = weekly /\ exception' = exception
      /\ holiday' = holiday /\ override' = override /\ ledger' = ledger
      /\ receipt' = receipt /\ look' = look
  BY DEF calendarRows, ruleRows
<1>2. call' \in [Callers -> Calls]
  BY DEF CalInv, CalendarTypeOK
<1>3. CalendarTypeOK'
  BY <1>1, <1>2 DEF CalInv, CalendarTypeOK
<1>4. AnswersKept'
  BY <1>1 DEF CalInv, CalendarTypeOK, AnswersKept
<1>5. stamps' = stamps
  BY <1>1 DEF stamps
<1>6. TablesInv'
  BY <1>1, <1>5 DEF CalInv, TablesInv, VersionsAudited, OneActive, ActiveIn,
     StampsBounded, RulesYounger, Covered, HasGreatest
<1>7. OverridesKnown' /\ KeysKnown' /\ KeysApart' /\ LookKnown'
  BY <1>1 DEF CalInv, OverridesKnown, KeysKnown, KeysApart, LookKnown,
     AlreadyRead, RuleKinds
<1> QED
  BY <1>3, <1>4, <1>6, <1>7 DEF CalInv

LEMMA ArriveKeeps ==
    ASSUME CalInv, NEW r \in Callers,
           NEW cmd \in Commands, NEW k \in Keys,
           Arrive(r, cmd, k)
    PROVE  CalInv'
<1> DEFINE stored == Answer(cmd, k, Stored(k, cmd))
           admitted == [stage |-> "admitted", cmd |-> cmd, key |-> k]
           new == IF receipt[k].on THEN stored ELSE admitted
<1>1. CalendarTypeOK
  BY DEF CalInv
<1>2. Stored(k, cmd) \in Stamps
  BY <1>1, StoredTyped
<1>3. stored \in Calls
  BY <1>2, AnswerTyped
<1>4. stored.stage = "answered" =>
        /\ stored.cmd = cmd /\ stored.key = k
        /\ stored.answer = Stored(k, cmd)
        /\ Stored(k, cmd) # Refused
  BY <1>2, AnswerTyped
<1>5. stored.stage = "answered" =>
         receipt[stored.key] =
           [on |-> TRUE, cmd |-> stored.cmd, answer |-> stored.answer]
  BY <1>1, <1>4, StoredTyped
<1>6. admitted \in Calls /\ admitted.stage # "answered"
  BY DEF Calls
<1>7. call' = [call EXCEPT ![r] = new] /\ UNCHANGED <<calendarRows, look>>
  BY DEF Arrive
<1> HIDE DEF stored, admitted
<1>8. new \in Calls
  BY <1>3, <1>6
<1>9. new.stage = "answered" =>
        receipt[new.key] = [on |-> TRUE, cmd |-> new.cmd, answer |-> new.answer]
  BY <1>5, <1>6
<1> HIDE DEF new
<1> QED
  BY <1>7, <1>8, <1>9, QuietCall

LEMMA AnsweredKeeps ==
    ASSUME CalInv, NEW r \in Callers, call[r].stage = "admitted",
           NEW answer \in Stamps, Answered(r, answer), UNCHANGED <<calendarRows,
           look>>,
           answer # Refused =>
             receipt[call[r].key] =
               [on |-> TRUE, cmd |-> call[r].cmd, answer |-> answer]
    PROVE  CalInv'
<1> DEFINE new == Answer(call[r].cmd, call[r].key, answer)
<1>1. CalendarTypeOK
  BY DEF CalInv
<1>2. call[r].cmd \in Commands /\ call[r].key \in Keys
  BY <1>1, CallIs
<1>3. /\ new \in Calls
      /\ new.stage = "answered" =>
           /\ answer # Refused /\ new.cmd = call[r].cmd
           /\ new.key = call[r].key /\ new.answer = answer
  BY <1>2, AnswerTyped
<1>4. call' = [call EXCEPT ![r] = new]
  BY DEF Answered
<1>5. new.stage = "answered" =>
        receipt[new.key] = [on |-> TRUE, cmd |-> new.cmd, answer |-> new.answer]
  BY <1>3
<1> HIDE DEF new
<1> QED
  BY <1>3, <1>4, <1>5, QuietCall

LEMMA CollideKeeps ==
    ASSUME CalInv, NEW r \in Callers, Collide(r)
    PROVE  CalInv'
<1>1. call[r].cmd \in Commands /\ call[r].key \in Keys
  BY CallIs DEF CalInv, Collide
<1>2. /\ Stored(call[r].key, call[r].cmd) \in Stamps
      /\ Stored(call[r].key, call[r].cmd) # Refused =>
           receipt[call[r].key] =
             [on |-> TRUE, cmd |-> call[r].cmd,
              answer |-> Stored(call[r].key, call[r].cmd)]
  BY <1>1, StoredTyped DEF CalInv
<1> QED
  BY <1>2, AnsweredKeeps DEF Collide

LEMMA RefuseKeeps ==
    ASSUME CalInv, NEW r \in Callers, Refuse(r)
    PROVE  CalInv'
<1>1. Refused \in Stamps
  BY CalendarAssumption DEF Refused, Stamps
<1> QED
  BY <1>1, AnsweredKeeps DEF Refuse

LEMMA LeaveKeeps ==
    ASSUME CalInv, NEW r \in Callers, Leave(r)
    PROVE  CalInv'
<1>1. NoCall \in Calls /\ NoCall.stage # "answered"
  BY DEF Calls, NoCall
<1> QED
  BY <1>1, QuietCall DEF Leave

LEMMA ApplyKeeps ==
    ASSUME CalInv, NEW r \in Callers, Apply(r)
    PROVE  CalInv'
<1> DEFINE cmd == call[r].cmd
           k == call[r].key
           c == cmd.cal
           done == [on |-> TRUE, cmd |-> cmd, answer |-> Next1(c)]
           told == Answer(cmd, k, Next1(c))
<1>1. CalendarTypeOK /\ TablesInv /\ OneActive
  BY DEF CalInv, TablesInv
<1>2. /\ cmd \in Commands /\ k \in Keys /\ c \in Calendars /\ k # NoKey
      /\ k \in Keys \cup {NoKey}
  BY <1>1, CallIs, CommandKnown, CalendarAssumption DEF Apply
<1>3. /\ Change(cmd, k)
      /\ receipt' = [receipt EXCEPT ![k] = done]
      /\ call' = [call EXCEPT ![r] = told]
      /\ UNCHANGED look
  BY DEF Apply, Answered
<1> HIDE DEF cmd, k
<1>4. /\ RulesTyped' /\ RulesOf(c)
      /\ \E row \in Rows, kind \in Kinds : OneChange(c, row, kind, k)
  BY <1>1, <1>2, <1>3, ChangeStep
<1>5. PICK row \in Rows, kind \in Kinds : OneChange(c, row, kind, k)
  BY <1>4
<1>6. ~receipt[k].on
  BY <1>2, <1>3 DEF Change, Unique
<1>7. Next1(c) \in Stamps /\ Next1(c) # Refused
  <2>1. cal[c].version < MaxVersion
    BY <1>5 DEF OneChange
  <2> QED
    BY <1>1, <1>2, <2>1, NextVersion DEF Next1, Refused
<1>8. done \in Receipts
  BY <1>2, <1>7 DEF Receipts
<1>9. /\ told \in Calls
      /\ told.stage = "answered" =>
           told.cmd = cmd /\ told.key = k /\ told.answer = Next1(c)
  BY <1>2, <1>7, AnswerTyped
<1>10. done.on /\ done = [on |-> TRUE, cmd |-> cmd, answer |-> Next1(c)]
  OBVIOUS
<1> HIDE DEF done, told, c
<1>11. /\ receipt' \in [Keys -> Receipts] /\ receipt'[k] = done
       /\ \A j \in Keys \ {k} : receipt'[j] = receipt[j]
  BY <1>1, <1>2, <1>3, <1>8 DEF CalendarTypeOK
<1>12. /\ call' \in [Callers -> Calls] /\ call'[r] = told
       /\ \A q \in Callers \ {r} : call'[q] = call[q]
  BY <1>1, <1>3, <1>9 DEF CalendarTypeOK
<1>13. CalendarTypeOK'
  <2>1. cal' \in [Calendars -> Rows]
          /\ ledger' \in [Calendars -> Seq(Events)]
    BY <1>1, <1>2, <1>5, StepForm DEF c
  <2> QED
    BY <1>1, <1>3, <1>4, <1>11, <1>12, <2>1 DEF CalendarTypeOK, RulesTyped
<1>14. TablesInv'
  BY <1>1, <1>2, <1>4, <1>5, StepTables
<1>15. OverridesKnown'
  BY <1>1, <1>2, <1>3, <1>5, ChangeOverrides DEF CalInv, c
<1>16. KeysKnown' /\ KeysApart'
  <2>1. receipt'[k].on /\ \A j \in Keys : receipt[j].on => receipt'[j].on
    BY <1>2, <1>10, <1>11
  <2> QED
    BY <1>1, <1>2, <1>5, <1>6, <2>1, StepKeys DEF CalInv, TablesInv
<1>17. LookKnown'
  BY <1>1, <1>2, <1>3, <1>5, StepLook DEF CalInv, TablesInv
<1>18. AnswersKept'
  <2> SUFFICES ASSUME NEW q \in Callers, call'[q].stage = "answered"
               PROVE  receipt'[call'[q].key] =
                        [on |-> TRUE, cmd |-> call'[q].cmd,
                         answer |-> call'[q].answer]
    BY DEF AnswersKept
  <2>1. CASE q = r
    BY <1>2, <1>9, <1>10, <1>11, <1>12, <2>1
  <2>2. CASE q # r
    <3>1. call'[q] = call[q] /\ call[q].key \in Keys
      BY <1>1, <1>12, <2>2, CallIs
    <3>2. receipt[call[q].key] =
            [on |-> TRUE, cmd |-> call[q].cmd, answer |-> call[q].answer]
      BY <3>1 DEF CalInv, AnswersKept
    <3>3. call[q].key # k
      BY <1>6, <3>2
    <3> QED
      BY <1>11, <3>1, <3>2, <3>3
  <2> QED
    BY <2>1, <2>2
<1> QED
  BY <1>13, <1>14, <1>15, <1>16, <1>17, <1>18 DEF CalInv

-----------------------------------------------------------------------------
(* Calendar: questions about the hours.                                    *)

LookRows == [stage : LookStages, cal : Calendars, version : Stamps,
             seen : [{"weekly", "exception", "holiday", "override"} -> Stamps]]

LEMMA QuietLook ==
    ASSUME CalInv, UNCHANGED <<calendarRows, call>>, look' \in Looks, LookKnown'
    PROVE  CalInv'
<1>1. /\ cal' = cal /\ weekly' = weekly /\ exception' = exception
      /\ holiday' = holiday /\ override' = override /\ ledger' = ledger
      /\ receipt' = receipt /\ call' = call
  BY DEF calendarRows, ruleRows
<1>2. CalendarTypeOK' /\ AnswersKept'
  BY <1>1 DEF CalInv, CalendarTypeOK, AnswersKept
<1>3. stamps' = stamps
  BY <1>1 DEF stamps
<1>4. TablesInv'
  BY <1>1, <1>3 DEF CalInv, TablesInv, VersionsAudited, OneActive, ActiveIn,
     StampsBounded, RulesYounger, Covered, HasGreatest
<1>5. OverridesKnown' /\ KeysKnown' /\ KeysApart'
  BY <1>1 DEF CalInv, OverridesKnown, KeysKnown, KeysApart
<1> QED
  BY <1>2, <1>4, <1>5 DEF CalInv

LEMMA StartLookKeeps ==
    ASSUME CalInv, NEW b \in Scopes, StartLook(b)
    PROVE  CalInv'
<1>1. PICK c \in Applicable(b) :
         look' = [stage |-> "weekly", cal |-> c, version |-> cal[c].version,
                  seen |-> [s \in Kinds \ {"calendar"} |-> 0]]
  BY DEF StartLook
<1>2. c \in Calendars
  BY DEF Applicable, ActiveIn
<1>3. cal[c].version \in Stamps /\ 0 \in Stamps
        /\ cal[c].version <= cal[c].version
  BY <1>2, CalendarAssumption DEF CalInv, CalendarTypeOK, Rows, Stamps
<1>4. Kinds \ {"calendar"} = {"weekly", "exception", "holiday", "override"}
  BY DEF Kinds
<1>5. [s \in Kinds \ {"calendar"} |-> 0]
        \in [{"weekly", "exception", "holiday", "override"} -> Stamps]
  BY <1>3, <1>4
<1>6. look' \in Looks
  BY <1>1, <1>2, <1>3, <1>5 DEF Looks, LookStages
<1>7. UNCHANGED <<calendarRows, call>> /\ cal' = cal
  BY DEF StartLook, calendarRows
<1>8. LookKnown'
  BY <1>1, <1>3, <1>7 DEF LookKnown, AlreadyRead
<1> QED
  BY <1>6, <1>7, <1>8, QuietLook

LEMMA ReadRulesKeeps ==
    ASSUME CalInv, ReadRules
    PROVE  CalInv'
<1> DEFINE kind == look.stage
           c == look.cal
           present == Present(kind, c)
<1>1. CalendarTypeOK /\ TablesInv /\ VersionsAudited /\ StampsBounded /\ Covered
  BY DEF CalInv, TablesInv
<1>2. kind \in {"weekly", "exception", "holiday", "override"}
  BY DEF ReadRules, LookStages
<1>3. look \in LookRows
  BY <1>1, <1>2 DEF CalendarTypeOK, Looks, NoLook, LookRows
<1>4. /\ c \in Calendars /\ look.version \in Stamps
      /\ look.seen \in [{"weekly", "exception", "holiday", "override"} -> Stamps]
  BY <1>3 DEF LookRows
<1>5. kind \in RuleKinds
  BY <1>2 DEF RuleKinds, Kinds
<1>6. present \in Stamps /\ \A y \in stamps[c][kind] : y <= present
  BY <1>1, <1>4, <1>5, PresentIsNewest
<1>7. /\ After(kind) \in LookStages
      /\ AlreadyRead(After(kind)) \subseteq AlreadyRead(kind) \cup {kind}
  BY <1>2 DEF After, LookStages, AlreadyRead, RuleKinds, Kinds
<1>8. /\ look' = [look EXCEPT !.stage = After(kind), !.seen[kind] = present]
      /\ UNCHANGED <<calendarRows, call>>
  BY DEF ReadRules
<1> HIDE DEF present, kind
<1>9. /\ look'.stage = After(kind) /\ look'.cal = c
      /\ look'.version = look.version
      /\ look'.seen = [look.seen EXCEPT ![kind] = present]
      /\ look' \in LookRows
  BY <1>2, <1>3, <1>4, <1>6, <1>7, <1>8 DEF LookRows
<1>10. look' \in Looks
  BY <1>9 DEF LookRows, Looks
<1>11. cal' = cal /\ ledger' = ledger
  BY <1>8 DEF calendarRows
<1>12. look.stage # "idle"
  BY <1>2 DEF kind
<1>13. look.version <= cal[c].version
  BY <1>12 DEF CalInv, LookKnown
<1>14. ASSUME NEW i \in 1..look.version,
              ledger[c][i].kind \in AlreadyRead(After(kind))
       PROVE  i <= look'.seen[ledger[c][i].kind]
  <2> DEFINE k2 == ledger[c][i].kind
  <2>1. i \in 1..cal[c].version /\ i \in Nat
    BY <1>1, <1>4, <1>13, CalendarAssumption DEF CalendarTypeOK, Rows, Stamps
  <2>2. k2 \in {"weekly", "exception", "holiday", "override"}
    BY <1>7, <1>2, <1>14 DEF AlreadyRead, RuleKinds, Kinds
  <2>3. CASE k2 = kind
    <3>1. PICK x \in stamps[c][k2] : i <= x
      BY <1>1, <1>4, <2>1, <2>2 DEF Covered
    <3>2. x <= present /\ x \in Nat /\ present \in Nat
      <4>1. x \in 0..cal[c].version
        BY <1>1, <1>4, <1>5, <2>3, <3>1 DEF StampsBounded
      <4> QED
        BY <1>6, <2>3, <3>1, <4>1, CalendarAssumption DEF Stamps
    <3>3. look'.seen[k2] = present
      BY <1>2, <1>4, <1>9, <2>3
    <3> QED
      BY <2>1, <3>1, <3>2, <3>3
  <2>4. CASE k2 # kind
    <3>1. k2 \in AlreadyRead(look.stage)
      BY <1>7, <1>14, <2>4 DEF kind
    <3>2. i <= look.seen[k2]
      BY <1>12, <3>1 DEF CalInv, LookKnown
    <3>3. look'.seen[k2] = look.seen[k2]
      BY <1>4, <1>9, <2>2, <2>4
    <3> QED
      BY <3>2, <3>3
  <2> QED
    BY <2>3, <2>4
<1>15. LookKnown'
  BY <1>9, <1>11, <1>13, <1>14 DEF LookKnown
<1> QED
  BY <1>8, <1>10, <1>15, QuietLook

LEMMA EndLookKeeps ==
    ASSUME CalInv, EndLook
    PROVE  CalInv'
<1>1. look' \in Looks /\ LookKnown' /\ UNCHANGED <<calendarRows, call>>
  BY DEF EndLook, Looks, NoLook, LookKnown
<1> QED
  BY <1>1, QuietLook

-----------------------------------------------------------------------------
(* Calendar: its theorems.                                                 *)

LEMMA InitCalInv == CalendarInit => CalInv
<1> SUFFICES ASSUME CalendarInit PROVE CalInv
  OBVIOUS
<1>1. 0 \in Stamps /\ 0 \in Nat
  BY CalendarAssumption DEF Stamps
<1>2. CalendarTypeOK
  <2>1. cal \in [Calendars -> Rows]
    BY <1>1 DEF CalendarInit, Absent, Rows, Statuses, Scopes
  <2>2. /\ weekly \in [Calendars -> Stamps]
        /\ exception \in [Calendars -> [Dates -> Rules]]
        /\ holiday \in [Calendars -> [Holidays -> Rules]]
    BY <1>1 DEF CalendarInit, NoRule, Rules
  <2>3. override \in [Overrides -> OverrideRows]
          /\ receipt \in [Keys -> Receipts]
    BY DEF CalendarInit, OverrideRows, Receipts
  <2>4. ledger \in [Calendars -> Seq(Events)]
    BY DEF CalendarInit
  <2>5. call \in [Callers -> Calls] /\ look \in Looks
    BY DEF CalendarInit, Calls, Looks
  <2> QED
    BY <2>1, <2>2, <2>3, <2>4, <2>5 DEF CalendarTypeOK
<1>3. \A c \in Calendars : cal[c] = Absent /\ cal[c].version = 0
        /\ ledger[c] = << >>
  BY DEF CalendarInit, Absent
<1>4. VersionsAudited /\ OneActive /\ Covered
  BY <1>3 DEF VersionsAudited, OneActive, ActiveIn, Absent, Covered
<1>5. RulesYounger
  BY <1>3 DEF CalendarInit, NoRule, RulesYounger
<1>6. StampsBounded
  <2> SUFFICES ASSUME NEW c \in Calendars, NEW kind \in RuleKinds
               PROVE  stamps[c][kind] \subseteq {0}
    BY <1>3 DEF StampsBounded, HasGreatest
  <2>1. CASE kind = "weekly"
    BY <2>1, StampsOf DEF CalendarInit
  <2>2. CASE kind = "exception"
    BY <2>2, StampsOf DEF CalendarInit, NoRule
  <2>3. CASE kind = "holiday"
    BY <2>3, StampsOf DEF CalendarInit, NoRule
  <2>4. CASE kind = "override"
    BY <2>4, StampsOf DEF CalendarInit, NoRow
  <2> QED
    BY <2>1, <2>2, <2>3, <2>4, RuleKindIs
<1>7. OverridesKnown /\ KeysKnown /\ KeysApart
  BY <1>3 DEF OverridesKnown, KeysKnown, KeysApart, CalendarInit, NoRow
<1>8. AnswersKept /\ LookKnown
  BY DEF CalendarInit, AnswersKept, LookKnown, NoCall, NoLook
<1> QED
  BY <1>2, <1>4, <1>5, <1>6, <1>7, <1>8 DEF CalInv, TablesInv

LEMMA NextCalInv == CalInv /\ [CalendarNext]_calendarVars => CalInv'
<1> SUFFICES ASSUME CalInv, [CalendarNext]_calendarVars PROVE CalInv'
  OBVIOUS
<1>1. CASE Locked
  BY <1>1, LockedStep
<1>2. CASE Keyed
  BY <1>2, ArriveKeeps, ApplyKeeps, CollideKeeps, RefuseKeeps,
     LeaveKeeps DEF Keyed
<1>3. CASE Look
  BY <1>3, StartLookKeeps, ReadRulesKeeps, EndLookKeeps DEF Look
<1>4. CASE UNCHANGED calendarVars
  <2>1. UNCHANGED <<calendarRows, call>> /\ look' = look /\ cal' = cal
          /\ ledger' = ledger
    BY <1>4 DEF calendarVars, calendarRows
  <2>2. look' \in Looks /\ LookKnown'
    BY <2>1 DEF CalInv, CalendarTypeOK, LookKnown, AlreadyRead, RuleKinds
  <2> QED
    BY <2>1, <2>2, QuietLook
<1> QED
  BY <1>1, <1>2, <1>3, <1>4 DEF CalendarNext

\* Calendar: what holds of its tables, its requests and its questions, whoever
\* changes what.
THEOREM CalInvariance == CalendarSpec => []CalInv
<1>1. CalendarInit => CalInv
  BY InitCalInv
<1>2. CalInv /\ [CalendarNext]_calendarVars => CalInv'
  BY NextCalInv
<1> QED
  BY <1>1, <1>2, PTL DEF CalendarSpec

LEMMA CalInvAgrees == CalInv => CalendarsAgree
<1> SUFFICES ASSUME CalInv PROVE CalendarsAgree
  OBVIOUS
<1>1. ASSUME NEW o \in Overrides, NEW p \in Overrides,
             override[o].on, override[p].on, o # p,
             override[o].cal = override[p].cal,
             ~override[o].revoked, ~override[p].revoked
      PROVE  /\ override[o].version # override[p].version
             /\ (override[o].version < override[p].version)
                  <=> (override[o].born < override[p].born)
  <2>1. override[o].version = override[o].born
        /\ override[p].version = override[p].born
    BY <1>1 DEF CalInv, OverridesKnown
  <2>2. override[p].born # override[o].born
    BY <1>1 DEF CalInv, OverridesKnown
  <2> QED
    BY <2>1, <2>2
<1>2. LastOverrideWins
  BY <1>1 DEF LastOverrideWins
<1> QED
  BY <1>2 DEF CalInv, TablesInv, CalendarsAgree

LEMMA CalInvAnswers == CalInv => AnswersHold
<1> SUFFICES ASSUME CalInv PROVE AnswersHold
  OBVIOUS
<1>1. AppliedOnce
  BY DEF CalInv, KeysApart, AnswersKept, AppliedOnce
<1>2. ASSUME look.stage = "resolved", NEW i \in 1..look.version,
             ledger[look.cal][i].kind # "calendar"
      PROVE  look.seen[ledger[look.cal][i].kind] >= i
  <2>1. look \in LookRows
    BY <1>2 DEF CalInv, CalendarTypeOK, Looks, NoLook, LookRows
  <2>2. look.version <= cal[look.cal].version /\ look.cal \in Calendars
        /\ look.version \in Stamps
    BY <1>2, <2>1 DEF CalInv, LookKnown, LookRows
  <2>3. cal[look.cal].version \in Stamps /\ ledger[look.cal] \in Seq(Events)
        /\ Len(ledger[look.cal]) = cal[look.cal].version
    BY <2>2 DEF CalInv, TablesInv, CalendarTypeOK, Rows, VersionsAudited
  <2>4. i \in 1..Len(ledger[look.cal])
    BY <2>2, <2>3, CalendarAssumption DEF Stamps
  <2>5. ledger[look.cal][i] \in Events
    BY <2>3, <2>4
  <2>6. ledger[look.cal][i].kind \in RuleKinds
    BY <1>2, <2>5 DEF Events, RuleKinds
  <2>7. ledger[look.cal][i].kind \in AlreadyRead(look.stage)
    BY <1>2, <2>6 DEF AlreadyRead
  <2>8. i <= look.seen[ledger[look.cal][i].kind]
    BY <1>2, <2>7 DEF CalInv, LookKnown
  <2>9. look.seen[ledger[look.cal][i].kind] \in Stamps
    BY <2>1, <2>6, RuleKindIs DEF LookRows
  <2> QED
    BY <2>8, <2>9, CalendarAssumption DEF Stamps
<1>3. AnswerIsNoOlder
  BY <1>2 DEF AnswerIsNoOlder
<1> QED
  BY <1>1, <1>3 DEF AnswersHold

\* Calendar: one active calendar for a scope, one audit event for every version,
\* and the override that was made last wins.
THEOREM CalAgreement == CalendarSpec => []CalendarsAgree
<1>1. CalendarSpec => []CalInv
  BY CalInvariance
<1>2. CalInv => CalendarsAgree
  BY CalInvAgrees
<1> QED
  BY <1>1, <1>2, PTL

\* Calendar: a key is applied once and every copy gets its answer; hours that are
\* given out contain every change up to the version that is named with them.
THEOREM CalAnswers == CalendarSpec => []AnswersHold
<1>1. CalendarSpec => []CalInv
  BY CalInvariance
<1>2. CalInv => AnswersHold
  BY CalInvAnswers
<1> QED
  BY <1>1, <1>2, PTL

-----------------------------------------------------------------------------
(* Calendar: archived calendars.                                           *)

\* Nothing of a calendar changes.
Settled(d) ==
    /\ cal'[d] = cal[d] /\ weekly'[d] = weekly[d]
    /\ exception'[d] = exception[d] /\ holiday'[d] = holiday[d]
    /\ \A o \in Overrides : override[o].on /\ override[o].cal = d
                                => override'[o] = override[o]

LEMMA ChangeSettles ==
    ASSUME CalendarTypeOK, NEW cmd \in Commands, NEW k, Change(cmd, k),
           NEW d \in Calendars, cal[d].status = "archived"
    PROVE  Settled(d)
<1>1. cmd.cal # d
  BY DEF Change, Passes, Unique, Mutable
<1>2. cmd.cal \in Calendars
  BY CommandKnown
<1>3. ASSUME NEW row, NEW kind, Writes(cmd.cal, row, kind, k)
      PROVE  cal'[d] = cal[d]
  BY <1>1, <1>2, <1>3 DEF Writes, CalendarTypeOK
<1>4. CASE CreateCalendar(cmd, k)
  <2>1. cal'[d] = cal[d] /\ UNCHANGED ruleRows
    BY <1>3, <1>4 DEF CreateCalendar
  <2> QED
    BY <2>1 DEF ruleRows, Settled
<1>5. CASE ReplaceWeeklySchedule(cmd, k)
  <2>1. cal'[d] = cal[d]
    BY <1>3, <1>5 DEF ReplaceWeeklySchedule
  <2> QED
    BY <1>1, <1>2, <1>5, <2>1 DEF ReplaceWeeklySchedule, Settled, CalendarTypeOK
<1>6. CASE CreateDateException(cmd, k)
  <2>1. cal'[d] = cal[d]
    BY <1>3, <1>6 DEF CreateDateException
  <2> QED
    BY <1>1, <1>2, <1>6, <2>1 DEF CreateDateException, Settled, CalendarTypeOK
<1>7. CASE CreateHoliday(cmd, k)
  <2>1. cal'[d] = cal[d]
    BY <1>3, <1>7 DEF CreateHoliday
  <2> QED
    BY <1>1, <1>2, <1>7, <2>1 DEF CreateHoliday, Settled, CalendarTypeOK
<1>8. CASE CreateOverride(cmd, k)
  <2>1. cal'[d] = cal[d]
    BY <1>3, <1>8 DEF CreateOverride
  <2>2. PICK o \in Overrides :
           /\ ~override[o].on
           /\ override' = [override EXCEPT ![o] =
                [on |-> TRUE, cal |-> cmd.cal, born |-> Next1(cmd.cal),
                 version |-> Next1(cmd.cal), revoked |-> FALSE]]
    BY <1>8 DEF CreateOverride
  <2>3. \A p \in Overrides : override[p].on => override'[p] = override[p]
    BY <2>2 DEF CalendarTypeOK
  <2> QED
    BY <1>8, <2>1, <2>3 DEF CreateOverride, Settled
<1>9. CASE RevokeOverride(cmd, k)
  <2>1. cal'[d] = cal[d]
    BY <1>3, <1>9 DEF RevokeOverride
  <2>2. override[cmd.ref].cal = cmd.cal
    BY <1>9 DEF RevokeOverride, Change, Passes
  <2>3. \A p \in Overrides \ {cmd.ref} : override'[p] = override[p]
    BY <1>9 DEF RevokeOverride, CalendarTypeOK
  <2> QED
    BY <1>1, <1>9, <2>1, <2>2, <2>3 DEF RevokeOverride, Settled
<1> QED
  BY <1>4, <1>5, <1>6, <1>7, <1>8, <1>9 DEF Change

LEMMA LockedSettles ==
    ASSUME CalendarTypeOK, Locked, NEW d \in Calendars, cal[d].status = "archived"
    PROVE  Settled(d)
<1>1. ASSUME NEW cmd \in Commands, ApplyUnkeyed(cmd)
      PROVE  Settled(d)
  BY <1>1, ChangeSettles DEF ApplyUnkeyed
<1>2. ASSUME NEW c \in Calendars, NEW row, NEW kind, NEW k, c # d,
             Writes(c, row, kind, k)
      PROVE  cal'[d] = cal[d]
  BY <1>2 DEF Writes, CalendarTypeOK
<1>3. ASSUME NEW c \in Calendars, NEW b \in Scopes, UpdateCalendar(c, b)
      PROVE  Settled(d)
  <2>1. c # d
    BY <1>3 DEF UpdateCalendar, Mutable
  <2>2. cal'[d] = cal[d] /\ UNCHANGED ruleRows
    BY <1>2, <1>3, <2>1 DEF UpdateCalendar
  <2> QED
    BY <2>2 DEF ruleRows, Settled
<1>4. ASSUME NEW c \in Calendars, NEW to \in Statuses, TransitionCalendar(c, to)
      PROVE  Settled(d)
  <2>1. c # d
    BY <1>4 DEF TransitionCalendar, NextStatuses
  <2>2. cal'[d] = cal[d] /\ UNCHANGED ruleRows
    BY <1>2, <1>4, <2>1 DEF TransitionCalendar
  <2> QED
    BY <2>2 DEF ruleRows, Settled
<1>5. ASSUME NEW c \in Calendars, NEW x \in Dates, UpdateDateException(c, x)
      PROVE  Settled(d)
  <2>1. c # d
    BY <1>5 DEF UpdateDateException, Mutable
  <2>2. cal'[d] = cal[d]
    BY <1>2, <1>5, <2>1 DEF UpdateDateException
  <2>3. exception'[d] = exception[d] /\ UNCHANGED <<weekly, holiday, override>>
    BY <1>5, <2>1 DEF UpdateDateException, CalendarTypeOK
  <2> QED
    BY <2>2, <2>3 DEF Settled
<1>6. ASSUME NEW c \in Calendars, NEW h \in Holidays, NEW to \in Holidays,
             UpdateHoliday(c, h, to)
      PROVE  Settled(d)
  <2>1. c # d
    BY <1>6 DEF UpdateHoliday, Mutable
  <2>2. cal'[d] = cal[d]
    BY <1>2, <1>6, <2>1 DEF UpdateHoliday
  <2>3. holiday'[d] = holiday[d] /\ UNCHANGED <<weekly, exception, override>>
    BY <1>6, <2>1 DEF UpdateHoliday, CalendarTypeOK
  <2> QED
    BY <2>2, <2>3 DEF Settled
<1> QED
  BY <1>1, <1>3, <1>4, <1>5, <1>6 DEF Locked

LEMMA NextSettles ==
    ASSUME CalInv, [CalendarNext]_calendarVars, NEW d \in Calendars,
           cal[d].status = "archived"
    PROVE  Settled(d)
<1>1. CalendarTypeOK
  BY DEF CalInv
<1>2. ASSUME UNCHANGED calendarRows
      PROVE  Settled(d)
  BY <1>2 DEF calendarRows, ruleRows, Settled
<1>3. CASE Locked
  BY <1>1, <1>3, LockedSettles
<1>4. ASSUME NEW r \in Callers, Apply(r)
      PROVE  Settled(d)
  <2>1. call[r].cmd \in Commands /\ Change(call[r].cmd, call[r].key)
    BY <1>1, <1>4, CallIs DEF Apply
  <2> QED
    BY <1>1, <2>1, ChangeSettles
<1>5. CASE Keyed
  BY <1>2, <1>4, <1>5 DEF Keyed, Arrive, Collide, Refuse, Leave
<1>6. CASE Look
  BY <1>2, <1>6 DEF Look, StartLook, ReadRules, EndLook
<1>7. CASE UNCHANGED calendarVars
  BY <1>2, <1>7 DEF calendarVars
<1> QED
  BY <1>3, <1>5, <1>6, <1>7 DEF CalendarNext

\* Calendar: an archived calendar is never changed again, and its rules neither,
\* whatever request read it before it was archived.
THEOREM CalArchived == CalendarSpec => ArchivedIsTerminal
<1>1. CalendarSpec => []CalInv
  BY CalInvariance
<1>2. CalInv /\ [CalendarNext]_calendarVars =>
        [\A c \in Calendars : cal[c].status = "archived" =>
            /\ cal'[c] = cal[c] /\ weekly'[c] = weekly[c]
            /\ exception'[c] = exception[c] /\ holiday'[c] = holiday[c]
            /\ \A o \in Overrides : override[o].on /\ override[o].cal = c
                                        => override'[o] = override[o]]_calendarVars
  BY NextSettles DEF Settled
<1> QED
  BY <1>1, <1>2, PTL DEF CalendarSpec, ArchivedIsTerminal

-----------------------------------------------------------------------------
(* CalendarHours: the next change that a calendar gives out is the first   *)
(* there is, and the window of rules that the service reads is enough.     *)

\* The least element of a set of instants is what Least gives.
LEMMA LeastNatural ==
    ASSUME NEW S \in SUBSET Nat, S # {}
    PROVE  Least(S) \in S /\ \A y \in S : Least(S) <= y
<1> DEFINE Less == {p \in Nat \X Nat : p[1] < p[2]}
<1>1. Less = OpToRel(<, Nat)
  BY DEF OpToRel
<1>2. IsWellFoundedOn(Less, Nat)
  BY <1>1, NatLessThanWellFounded
<1> HIDE DEF Less
<1>3. PICK x \in S : \A y \in S : ~(<<y, x>> \in Less)
  BY <1>2, WFMin
<1>4. \A y \in S : ~(y < x)
  BY <1>3 DEF Less
<1>5. \A y \in S : x <= y
  BY <1>4
<1> QED
  BY <1>5 DEF Least

-----------------------------------------------------------------------------
(* Clocks.                                                                 *)

LEMMA LocalParts ==
    ASSUME NEW z \in Offsets, NEW t \in Int
    PROVE  /\ Offset(z, t) \in Int /\ Local(z, t) \in Int
           /\ DateOf(Local(z, t)) \in Int /\ MinuteOf(Local(z, t)) \in 0..(Day - 1)
           /\ WeekdayOf(DateOf(Local(z, t))) \in 0..(Week - 1)
           /\ Local(z, t) = DateOf(Local(z, t)) * Day + MinuteOf(Local(z, t))
<1>1. Offset(z, t) \in Int /\ Local(z, t) \in Int
  BY DEF Offsets, Offset, Local
<1>2. ASSUME NEW l \in Int
      PROVE  /\ l \div Day \in Int /\ l % Day \in 0..(Day - 1)
             /\ l = (l \div Day) * Day + (l % Day)
  BY HoursAssumption
<1>3. ASSUME NEW l \in Int
      PROVE  l % Week \in 0..(Week - 1)
  BY HoursAssumption
<1> QED
  BY <1>1, <1>2, <1>3 DEF DateOf, MinuteOf, WeekdayOf

\* Dates do not go back.
LEMMA DatesGrow ==
    ASSUME NEW z \in Offsets, DatesAdvance(z),
           NEW t \in Int, NEW u \in Int, t <= u
    PROVE  DateOf(Local(z, t)) <= DateOf(Local(z, u))
<1>1. ASSUME NEW l \in Int, NEW k \in Int, l <= k
      PROVE  l \div Day <= k \div Day /\ l \div Day \in Int /\ k \div Day \in Int
  BY <1>1, HoursAssumption
<1>2. z.before \in Int /\ z.after \in Int /\ z.jump \in Int
  BY DEF Offsets
<1>3. CASE u < z.jump \/ z.jump <= t
  <2>1. Local(z, t) <= Local(z, u) /\ Local(z, t) \in Int /\ Local(z, u) \in Int
    BY <1>2, <1>3 DEF Local, Offset
  <2> QED
    BY <1>1, <2>1 DEF DateOf
<1>4. CASE t < z.jump /\ z.jump <= u
  <2>1. /\ Local(z, t) <= z.jump - 1 + z.before
        /\ z.jump + z.after <= Local(z, u)
        /\ Local(z, t) \in Int /\ Local(z, u) \in Int
    BY <1>2, <1>4 DEF Local, Offset
  <2>2. /\ Local(z, t) \div Day <= (z.jump - 1 + z.before) \div Day
        /\ (z.jump + z.after) \div Day <= Local(z, u) \div Day
        /\ Local(z, t) \div Day \in Int /\ Local(z, u) \div Day \in Int
        /\ (z.jump - 1 + z.before) \div Day \in Int
        /\ (z.jump + z.after) \div Day \in Int
    BY <1>1, <1>2, <2>1
  <2> QED
    BY <2>2 DEF DatesAdvance, DateOf
<1> QED
  BY <1>2, <1>3, <1>4

\* A minute later, unless the clock moves, is the next minute of the same date,
\* or midnight.
LEMMA NextMinute ==
    ASSUME NEW z \in Offsets, NEW u \in Int, ~ClockMoves(z, u)
    PROVE  \/ MinuteOf(Local(z, u)) = 0
           \/ /\ MinuteOf(Local(z, u)) = MinuteOf(Local(z, u - 1)) + 1
              /\ DateOf(Local(z, u)) = DateOf(Local(z, u - 1))
<1>1. Local(z, u) = Local(z, u - 1) + 1 /\ Local(z, u - 1) \in Int
  BY DEF Local, Offset, Offsets, ClockMoves
<1>2. ASSUME NEW l \in Int
      PROVE  \/ (l + 1) % Day = 0
             \/ (l + 1) % Day = (l % Day) + 1 /\ (l + 1) \div Day = l \div Day
  BY HoursAssumption
<1> QED
  BY <1>1, <1>2 DEF DateOf, MinuteOf

-----------------------------------------------------------------------------
(* Rules.                                                                  *)

\* An interval that a rule of the date d has.
Near(rules, d, i) ==
    \/ i \in rules.weekly[WeekdayOf(d)]
    \/ \E e \in rules.exceptions : e.date = d /\ i \in e.intervals
    \/ \E h \in rules.holidays : h.date = d /\ i \in h.intervals

LEMMA BoundaryForm ==
    ASSUME NEW rules, NEW d, NEW m
    PROVE  m \in Boundaries(rules, d) <=>
             m = 0 \/ \E i : Near(rules, d, i) /\ (m = i.start \/ m = i.end)
<1> DEFINE E == UNION {e.intervals : e \in {x \in rules.exceptions : x.date = d}}
           H == UNION {h.intervals : h \in {x \in rules.holidays : x.date = d}}
           I == rules.weekly[WeekdayOf(d)] \cup E \cup H
<1>1. \A i : i \in E <=> \E e \in rules.exceptions : e.date = d /\ i \in e.intervals
  OBVIOUS
<1>2. \A i : i \in H <=> \E h \in rules.holidays : h.date = d /\ i \in h.intervals
  OBVIOUS
<1>3. Boundaries(rules, d) = {0} \cup {i.start : i \in I} \cup {i.end : i \in I}
  BY DEF Boundaries
<1>4. \A i : i \in I <=> i \in rules.weekly[WeekdayOf(d)] \/ i \in E \/ i \in H
  OBVIOUS
<1> HIDE DEF E, H, I
<1>5. \A i : i \in I <=> Near(rules, d, i)
  BY <1>1, <1>2, <1>4 DEF Near
<1> QED
  BY <1>3, <1>5

\* The answer depends on the date, on the overrides in force and on the
\* intervals of the date that contain the minute.
LEMMA SameHours ==
    ASSUME NEW rules, NEW z, NEW t, NEW u,
           DateOf(Local(z, t)) = DateOf(Local(z, u)),
           \A o \in rules.overrides : InForce(o, t) <=> InForce(o, u),
           \A i : Near(rules, DateOf(Local(z, t)), i) =>
                    (Contains(i, MinuteOf(Local(z, t)))
                       <=> Contains(i, MinuteOf(Local(z, u))))
    PROVE  Open(rules, z, t) = Open(rules, z, u)
<1> DEFINE d == DateOf(Local(z, t))
           forced(v) == {o \in rules.overrides : InForce(o, v)}
           days == {x \in rules.exceptions : x.date = d}
           says(m) == {ExceptionSays(e, m) : e \in days} \ {"nothing"}
           usual(m) == /\ ~\E h \in rules.holidays : h.date = d /\ Closes(h, m)
                       /\ \E i \in rules.weekly[WeekdayOf(d)] : Contains(i, m)
           M == MinuteOf(Local(z, t))
           N == MinuteOf(Local(z, u))
<1>1. forced(t) = forced(u)
  OBVIOUS
<1>2. \A e \in days : ExceptionSays(e, M) = ExceptionSays(e, N)
  <2> SUFFICES ASSUME NEW e \in days
               PROVE  ExceptionSays(e, M) = ExceptionSays(e, N)
    OBVIOUS
  <2>1. \A i \in e.intervals : Near(rules, d, i)
    BY DEF Near
  <2>2. \A i \in e.intervals : Contains(i, M) <=> Contains(i, N)
    BY <2>1
  <2> QED
    BY <2>2 DEF ExceptionSays
<1>3. says(M) = says(N)
  BY <1>2
<1>4. \A h \in rules.holidays : h.date = d => (Closes(h, M) <=> Closes(h, N))
  <2> SUFFICES ASSUME NEW h \in rules.holidays, h.date = d
               PROVE  Closes(h, M) <=> Closes(h, N)
    OBVIOUS
  <2>1. \A i \in h.intervals : Near(rules, d, i)
    BY DEF Near
  <2>2. \A i \in h.intervals : Contains(i, M) <=> Contains(i, N)
    BY <2>1
  <2> QED
    BY <2>2 DEF Closes
<1>5. usual(M) <=> usual(N)
  <2>1. \A i \in rules.weekly[WeekdayOf(d)] : Near(rules, d, i)
    BY DEF Near
  <2>2. \A i \in rules.weekly[WeekdayOf(d)] : Contains(i, M) <=> Contains(i, N)
    BY <2>1
  <2> QED
    BY <1>4, <2>2
<1>6. Open(rules, z, t) = CASE forced(t) # {} -> OverrideOpens(forced(t))
                            [] forced(t) = {} /\ says(M) # {} -> "open" \in says(M)
                            [] OTHER -> usual(M)
  BY DEF Open
<1>7. Open(rules, z, u) = CASE forced(u) # {} -> OverrideOpens(forced(u))
                            [] forced(u) = {} /\ says(N) # {} -> "open" \in says(N)
                            [] OTHER -> usual(N)
  BY DEF Open
<1>8. usual(M) = usual(N)
  BY <1>5
<1> HIDE DEF forced, says, usual, M, N
<1> QED
  BY <1>1, <1>3, <1>8, <1>6, <1>7

\* What makes an instant a candidate.
LEMMA CandidateForm ==
    ASSUME NEW rules, NEW z, NEW t, NEW u
    PROVE  u \in Candidates(rules, z, t) <=>
             /\ t < u /\ u <= t + Horizon * Day
             /\ \/ \E o \in rules.overrides : u = o.start \/ u = o.end
                \/ \E n \in 0..Horizon :
                     LET d == DateOf(Local(z, t)) + n
                     IN  \E m \in Boundaries(rules, d) :
                           u \in LocalizeStrict(z, d * Day + m)
<1> DEFINE today == DateOf(Local(z, t))
           later == {o.start : o \in rules.overrides} \cup {o.end : o \in rules.overrides}
           local == UNION {UNION {LocalizeStrict(z, (today + n) * Day + m) :
                                    m \in Boundaries(rules, today + n)} :
                             n \in 0..Horizon}
<1>1. u \in later <=> \E o \in rules.overrides : u = o.start \/ u = o.end
  OBVIOUS
<1>2. u \in local <=> \E n \in 0..Horizon : \E m \in Boundaries(rules, today + n) :
                        u \in LocalizeStrict(z, (today + n) * Day + m)
  OBVIOUS
<1>3. Candidates(rules, z, t) = {v \in later \cup local : t < v /\ v <= t + Horizon * Day}
  BY DEF Candidates
<1> HIDE DEF later, local
<1> QED
  BY <1>1, <1>2, <1>3

LEMMA CandidatesAreInstants ==
    ASSUME NEW rules \in RuleSets, NEW z \in Offsets, NEW t \in Nat
    PROVE  /\ Horizon * Day \in Nat
           /\ \A u \in Candidates(rules, z, t) :
                u \in (t + 1)..(t + Horizon * Day)
<1>1. Horizon * Day \in Nat
  BY HoursAssumption
<1> SUFFICES ASSUME NEW u \in Candidates(rules, z, t)
             PROVE  u \in (t + 1)..(t + Horizon * Day)
  BY <1>1
<1>2. /\ t < u /\ u <= t + Horizon * Day
      /\ \/ \E o \in rules.overrides : u = o.start \/ u = o.end
         \/ \E n \in 0..Horizon :
              LET d == DateOf(Local(z, t)) + n
              IN  \E m \in Boundaries(rules, d) : u \in LocalizeStrict(z, d * Day + m)
  BY CandidateForm
<1>3. ASSUME NEW o \in rules.overrides, u = o.start \/ u = o.end
      PROVE  u \in Int
  <2>1. o \in OverrideRules
    BY DEF RuleSets
  <2> QED
    BY <1>3, <2>1 DEF OverrideRules
<1>4. ASSUME NEW n \in 0..Horizon,
             NEW m \in Boundaries(rules, DateOf(Local(z, t)) + n),
             u \in LocalizeStrict(z, (DateOf(Local(z, t)) + n) * Day + m)
      PROVE  u \in Int
  <2> DEFINE d == DateOf(Local(z, t)) + n
  <2>1. d \in Int
    BY LocalParts
  <2>2. WeekdayOf(d) \in 0..(Week - 1)
    BY <2>1, HoursAssumption DEF WeekdayOf
  <2>3. rules.weekly[WeekdayOf(d)] \in SUBSET Intervals
    BY <2>2 DEF RuleSets
  <2>4. \A i : Near(rules, d, i) => i \in Intervals
    BY <2>3 DEF Near, RuleSets, ExceptionRules, HolidayRules
  <2>5. m \in Int
    BY <2>4, BoundaryForm DEF Intervals
  <2>6. d * Day \in Int
    BY <2>1, HoursAssumption
  <2>7. z.before \in Int /\ z.after \in Int
    BY DEF Offsets
  <2>8. ASSUME NEW l, u \in LocalizeStrict(z, l)
        PROVE  u = l - z.before \/ u = l - z.after
    BY <2>8 DEF LocalizeStrict
  <2>9. u = (d * Day + m) - z.before \/ u = (d * Day + m) - z.after
    BY <1>4, <2>8
  <2> HIDE DEF d
  <2> QED
    BY <2>5, <2>6, <2>7, <2>9
<1>5. u \in Int
  BY <1>2, <1>3, <1>4
<1> QED
  BY <1>1, <1>2, <1>5

-----------------------------------------------------------------------------
(* A change that is not found is one that the clock makes, or one past the *)
(* last date.                                                              *)

LEMMA ForcedChanges ==
    ASSUME NEW o \in OverrideRules, NEW u \in Nat,
           ~(InForce(o, u - 1) <=> InForce(o, u))
    PROVE  u = o.start \/ u = o.end
<1>1. o.start \in Int /\ o.end \in Int
  BY DEF OverrideRules
<1> QED
  BY <1>1 DEF InForce, Never

LEMMA ChangeIsCandidate ==
    ASSUME NEW rules \in RuleSets, NEW z \in Offsets, DatesAdvance(z),
           NEW t \in Nat, NEW u \in Nat, t < u, u <= t + Horizon * Day,
           Open(rules, z, u - 1) # Open(rules, z, u),
           ~ClockMoves(z, u), DateOf(Local(z, u)) <= LastDate(z, t)
    PROVE  u \in Candidates(rules, z, t)
<1> DEFINE d == DateOf(Local(z, u))
           m == MinuteOf(Local(z, u))
           n == d - DateOf(Local(z, t))
<1>1. CASE \E o \in rules.overrides : ~(InForce(o, u - 1) <=> InForce(o, u))
  <2>1. PICK o \in rules.overrides : ~(InForce(o, u - 1) <=> InForce(o, u))
    BY <1>1
  <2>2. o \in OverrideRules
    BY DEF RuleSets
  <2>3. u = o.start \/ u = o.end
    BY <2>1, <2>2, ForcedChanges
  <2> QED
    BY <2>3, CandidateForm
<1>2. CASE \A o \in rules.overrides : InForce(o, u - 1) <=> InForce(o, u)
  <2>1. /\ d \in Int /\ m \in 0..(Day - 1) /\ Local(z, u) = d * Day + m
        /\ WeekdayOf(d) \in 0..(Week - 1) /\ DateOf(Local(z, t)) \in Int
    BY LocalParts
  <2>2. n \in 0..Horizon /\ DateOf(Local(z, t)) + n = d
    <3>1. DateOf(Local(z, t)) <= d
      BY DatesGrow
    <3>2. d <= DateOf(Local(z, t)) + Horizon
      BY DEF LastDate
    <3> HIDE DEF d
    <3> QED
      BY <2>1, <3>1, <3>2, HoursAssumption
  <2>3. m \in Boundaries(rules, d)
    <3>1. CASE m = 0
      BY <3>1, BoundaryForm
    <3>2. CASE m # 0
      <4>1. /\ m = MinuteOf(Local(z, u - 1)) + 1
            /\ d = DateOf(Local(z, u - 1))
        BY <3>2, NextMinute
      <4>2. PICK i : /\ Near(rules, d, i)
                     /\ ~(Contains(i, MinuteOf(Local(z, u - 1))) <=> Contains(i, m))
        BY <1>2, <4>1, SameHours
      <4>3. rules.weekly[WeekdayOf(d)] \in SUBSET Intervals
        BY <2>1 DEF RuleSets
      <4>4. i \in Intervals
        BY <4>2, <4>3 DEF Near, RuleSets, ExceptionRules, HolidayRules
      <4>5. i.start \in Int /\ i.end \in Int
        BY <4>4 DEF Intervals
      <4>6. MinuteOf(Local(z, u - 1)) \in Int
        BY <4>1, <2>1, LocalParts
      <4>7. m = i.start \/ m = i.end
        BY <4>1, <4>2, <4>5, <4>6 DEF Contains
      <4> QED
        BY <4>2, <4>7, BoundaryForm
    <3> QED
      BY <3>1, <3>2
  <2>4. u \in LocalizeStrict(z, d * Day + m)
    <3>1. u = Local(z, u) - z.before \/ u = Local(z, u) - z.after
      BY DEF Local, Offset, Offsets
    <3> QED
      BY <2>1, <3>1 DEF LocalizeStrict
  <2> HIDE DEF d, m, n
  <2> QED
    BY <2>2, <2>3, <2>4, CandidateForm
<1> QED
  BY <1>1, <1>2

LEMMA FirstFound ==
    ASSUME NEW rules \in RuleSets, NEW z \in Offsets, DatesAdvance(z),
           NEW t \in Nat
    PROVE  LET next  == NextChange(rules, z, t)
               first == FirstChange(rules, z, t)
           IN  \/ next = first
               \/ /\ first # Never /\ (next = Never \/ first < next)
                  /\ \/ ClockMoves(z, first)
                     \/ DateOf(Local(z, first)) > LastDate(z, t)
<1> DEFINE last == t + Horizon * Day
           F == {u \in (t + 1)..last : Open(rules, z, u) # Open(rules, z, t)}
           N == {u \in Candidates(rules, z, t) :
                   Open(rules, z, u) # Open(rules, z, t)}
           m == Least(F)
<1>1. last \in Nat /\ N \subseteq F /\ F \subseteq Nat
  <2>1. last \in Nat
    BY CandidatesAreInstants
  <2>2. Candidates(rules, z, t) \subseteq (t + 1)..last
    BY CandidatesAreInstants
  <2> HIDE DEF last
  <2> QED
    BY <2>1, <2>2
<1>2. NextChange(rules, z, t) = Least(N) /\ FirstChange(rules, z, t) = m
  BY DEF NextChange, FirstChange
<1>3. CASE F = {}
  <2>1. N = {}
    BY <1>1, <1>3
  <2> QED
    BY <1>2, <1>3, <2>1 DEF Least
<1>4. CASE F # {}
  <2>1. m \in F /\ \A y \in F : m <= y
    BY <1>1, <1>4, LeastNatural
  <2>2. m \in Nat /\ m # Never
    BY <1>1, <2>1 DEF Never
  <2>3. N # {} => Least(N) \in N /\ \A y \in N : Least(N) <= y
    BY <1>1, LeastNatural
  <2>4. CASE m \in N
    <3>1. Least(N) \in F /\ Least(N) <= m /\ m <= Least(N)
      BY <1>1, <2>1, <2>3, <2>4
    <3>2. Least(N) = m
      <4>1. Least(N) \in Nat
        BY <1>1, <3>1
      <4> HIDE DEF m, N, F
      <4> QED
        BY <2>2, <3>1, <4>1
    <3> QED
      BY <1>2, <3>2
  <2>5. CASE m \notin N
    <3>1. Least(N) = Never \/ m < Least(N)
      <4>1. CASE N = {}
        BY <4>1 DEF Least
      <4>2. CASE N # {}
        <5>1. Least(N) \in N /\ Least(N) \in Nat /\ m <= Least(N)
          BY <1>1, <2>1, <2>3, <4>2
        <5>2. Least(N) # m
          BY <2>5, <5>1
        <5> HIDE DEF m, N, F
        <5> QED
          BY <2>2, <5>1, <5>2
      <4> QED
        BY <4>1, <4>2
    <3>2. ASSUME ~ClockMoves(z, m), ~(DateOf(Local(z, m)) > LastDate(z, t))
          PROVE  FALSE
      <4>1. m \in (t + 1)..last /\ Open(rules, z, m) # Open(rules, z, t)
        BY <2>1
      <4>2. m - 1 = t \/ m - 1 \in (t + 1)..last
        <5> HIDE DEF m, last
        <5> QED
          BY <4>1, <2>2, <1>1
      <4>3. Open(rules, z, m - 1) = Open(rules, z, t)
        <5>1. m - 1 \notin F
          <6> HIDE DEF m, F
          <6> QED
            BY <2>1, <2>2
        <5> HIDE DEF m, last
        <5> QED
          BY <4>2, <5>1
      <4>4. DateOf(Local(z, m)) <= LastDate(z, t)
        <5>1. DateOf(Local(z, m)) \in Int /\ DateOf(Local(z, t)) \in Int
          <6> HIDE DEF m
          <6> QED
            BY <2>2, LocalParts
        <5> HIDE DEF m
        <5> QED
          BY <3>2, <5>1, HoursAssumption DEF LastDate
      <4>5. t < m /\ m <= last
        <5> HIDE DEF m, last
        <5> QED
          BY <4>1, <1>1
      <4>6. m \in Candidates(rules, z, t)
        <5> HIDE DEF m
        <5> QED
          BY <2>2, <3>2, <4>1, <4>3, <4>4, <4>5, ChangeIsCandidate
      <4> HIDE DEF m
      <4> QED
        BY <2>5, <4>1, <4>6
    <3> HIDE DEF m, N, F
    <3> QED
      BY <1>2, <2>2, <3>1, <3>2
  <2> QED
    BY <2>4, <2>5
<1> QED
  BY <1>3, <1>4

-----------------------------------------------------------------------------
(* The window of rules.                                                    *)

\* Within the horizon, what the service has read gives the answer.
LEMMA WindowOpens ==
    ASSUME NEW rules \in RuleSets, NEW z \in Offsets, DatesAdvance(z),
           NEW t \in Nat, NEW u \in Nat, t <= u, u <= t + Horizon * Day,
           DateOf(Local(z, u)) <= LastDate(z, t)
    PROVE  Open(Window(rules, z, t), z, u) = Open(rules, z, u)
<1> DEFINE seen == Window(rules, z, t)
           d == DateOf(Local(z, u))
<1>1. d \in Int /\ DateOf(Local(z, t)) <= d /\ d <= DateOf(Local(z, t)) + Horizon
  BY LocalParts, DatesGrow DEF LastDate
<1>2. seen.weekly = rules.weekly
  BY DEF Window, RuleSets
<1>3. {e \in seen.exceptions : e.date = d} = {e \in rules.exceptions : e.date = d}
  <2>1. seen.exceptions = {e \in rules.exceptions :
                             /\ DateOf(Local(z, t)) <= e.date
                             /\ e.date <= DateOf(Local(z, t)) + Horizon}
    BY DEF Window, RuleSets
  <2> HIDE DEF d, seen
  <2> QED
    BY <1>1, <2>1
<1>4. \A h : h \in seen.holidays /\ h.date = d <=> h \in rules.holidays /\ h.date = d
  <2>1. seen.holidays = {h \in rules.holidays :
                           /\ DateOf(Local(z, t)) <= h.date
                           /\ h.date <= DateOf(Local(z, t)) + Horizon}
    BY DEF Window, RuleSets
  <2> HIDE DEF d, seen
  <2> QED
    BY <1>1, <2>1
<1>5. {o \in seen.overrides : InForce(o, u)} = {o \in rules.overrides : InForce(o, u)}
  <2>1. seen.overrides = {o \in rules.overrides :
                            /\ o.start <= t + Horizon * Day
                            /\ o.end = Never \/ o.end > t}
    BY DEF Window, RuleSets
  <2>2. ASSUME NEW o \in rules.overrides, InForce(o, u)
        PROVE  /\ o.start <= t + Horizon * Day
               /\ o.end = Never \/ o.end > t
    <3>1. o.start \in Int /\ o.end \in Int
      BY DEF RuleSets, OverrideRules
    <3>2. Horizon * Day \in Nat
      BY HoursAssumption
    <3> QED
      BY <2>2, <3>1, <3>2 DEF InForce
  <2> HIDE DEF seen
  <2> QED
    BY <2>1, <2>2
<1> DEFINE minute == MinuteOf(Local(z, u))
           forced(r) == {o \in r.overrides : InForce(o, u)}
           says(r) == {ExceptionSays(e, minute) :
                         e \in {x \in r.exceptions : x.date = d}} \ {"nothing"}
           usual(r) == /\ ~\E h \in r.holidays : h.date = d /\ Closes(h, minute)
                       /\ \E i \in r.weekly[WeekdayOf(d)] : Contains(i, minute)
<1>6. ASSUME NEW r
      PROVE  Open(r, z, u) = CASE forced(r) # {} -> OverrideOpens(forced(r))
                               [] forced(r) = {} /\ says(r) # {} -> "open" \in says(r)
                               [] OTHER -> usual(r)
  BY DEF Open
<1> HIDE DEF seen
<1>7. forced(seen) = forced(rules) /\ says(seen) = says(rules)
  BY <1>3, <1>5
<1>8. usual(seen) = usual(rules)
  BY <1>2, <1>4
<1> HIDE DEF forced, says, usual
<1>9. /\ Open(seen, z, u) = CASE forced(seen) # {} -> OverrideOpens(forced(seen))
                              [] forced(seen) = {} /\ says(seen) # {} -> "open" \in says(seen)
                              [] OTHER -> usual(seen)
      /\ Open(rules, z, u) = CASE forced(rules) # {} -> OverrideOpens(forced(rules))
                               [] forced(rules) = {} /\ says(rules) # {} -> "open" \in says(rules)
                               [] OTHER -> usual(rules)
  BY <1>6
<1>10. Open(seen, z, u) = Open(rules, z, u)
  BY <1>7, <1>8, <1>9
<1> QED
  BY <1>10 DEF seen

\* Within the horizon, what the service has read has every candidate.
LEMMA WindowCandidates ==
    ASSUME NEW rules \in RuleSets, NEW z \in Offsets, NEW t \in Nat
    PROVE  Candidates(Window(rules, z, t), z, t) = Candidates(rules, z, t)
<1> DEFINE seen == Window(rules, z, t)
           today == DateOf(Local(z, t))
           last == t + Horizon * Day
<1>1. today \in Int /\ last \in Nat
  BY LocalParts, HoursAssumption
<1>2. seen.weekly = rules.weekly
  BY DEF Window, RuleSets
<1>3. /\ seen.exceptions = {e \in rules.exceptions :
                              today <= e.date /\ e.date <= today + Horizon}
      /\ seen.holidays = {h \in rules.holidays :
                            today <= h.date /\ h.date <= today + Horizon}
      /\ seen.overrides = {o \in rules.overrides :
                             o.start <= last /\ (o.end = Never \/ o.end > t)}
  BY DEF Window, RuleSets
<1> HIDE DEF seen, last
<1>4. ASSUME NEW n \in 0..Horizon
      PROVE  \A m : m \in Boundaries(seen, today + n)
                      <=> m \in Boundaries(rules, today + n)
  <2> DEFINE d == today + n
  <2>1. today <= d /\ d <= today + Horizon
    <3> HIDE DEF today
    <3> QED
      BY <1>1, HoursAssumption
  <2> HIDE DEF today, d
  <2>2. \A i : Near(seen, d, i) <=> Near(rules, d, i)
    BY <1>2, <1>3, <2>1 DEF Near
  <2>3. \A m : m \in Boundaries(seen, d) <=> m \in Boundaries(rules, d)
    BY <2>2, BoundaryForm
  <2> QED
    BY <2>3 DEF d
<1>5. ASSUME NEW u, t < u, u <= last
      PROVE  (\E o \in seen.overrides : u = o.start \/ u = o.end)
               <=> \E o \in rules.overrides : u = o.start \/ u = o.end
  <2> SUFFICES ASSUME NEW o \in rules.overrides, u = o.start \/ u = o.end
               PROVE  o \in seen.overrides
    BY <1>3
  <2>1. /\ o.start \in Int /\ o.end \in Int
        /\ o.end = Never \/ o.start < o.end
    BY DEF RuleSets, OverrideRules
  <2>2. o.start <= last /\ (o.end = Never \/ o.end > t)
    BY <1>1, <1>5, <2>1 DEF Never
  <2> QED
    BY <1>3, <2>2
<1>6. \A u : u \in Candidates(seen, z, t) <=> u \in Candidates(rules, z, t)
  <2> SUFFICES ASSUME NEW u
               PROVE  u \in Candidates(seen, z, t) <=> u \in Candidates(rules, z, t)
    OBVIOUS
  <2> DEFINE byClock(r) == \E n \in 0..Horizon :
                             \E m \in Boundaries(r, today + n) :
                               u \in LocalizeStrict(z, (today + n) * Day + m)
             byRule(r) == \E o \in r.overrides : u = o.start \/ u = o.end
  <2>1. ASSUME NEW r
        PROVE  u \in Candidates(r, z, t) <=>
                 t < u /\ u <= last /\ (byRule(r) \/ byClock(r))
    BY CandidateForm DEF last
  <2>2. byClock(seen) <=> byClock(rules)
    BY <1>4
  <2>3. t < u /\ u <= last => (byRule(seen) <=> byRule(rules))
    BY <1>5
  <2> HIDE DEF byClock, byRule
  <2> QED
    BY <2>1, <2>2, <2>3
<1>7. Candidates(seen, z, t) = Candidates(rules, z, t)
  BY <1>6
<1> QED
  BY <1>7 DEF seen

-----------------------------------------------------------------------------
\* The resolver gives out the first change there is, of all the rules in the
\* tables, but for one that the clock itself makes or one past the last date:
\* the two parts of HoursAreRight, for any cases.
LEMMA ResolverIsRight == NextChangeIsFirst /\ WindowSuffices
<1>1. NextChangeIsFirst
  BY FirstFound, HoursAssumption DEF NextChangeIsFirst
<1>2. WindowSuffices
  <2> SUFFICES ASSUME NEW c \in Cases
               PROVE  LET seen == Window(c.rules, c.zone, c.now)
                      IN  /\ Open(seen, c.zone, c.now) = Open(c.rules, c.zone, c.now)
                          /\ DateOf(Local(c.zone, c.now + Horizon * Day))
                                  <= LastDate(c.zone, c.now) =>
                               NextChange(seen, c.zone, c.now)
                                 = NextChange(c.rules, c.zone, c.now)
    BY DEF WindowSuffices
  <2> DEFINE rules == c.rules
             z == c.zone
             t == c.now
             seen == Window(rules, z, t)
             last == t + Horizon * Day
  <2>1. rules \in RuleSets /\ z \in Offsets /\ DatesAdvance(z) /\ t \in Nat
    BY HoursAssumption
  <2> HIDE DEF rules, z, t
  <2>2. Horizon * Day \in Nat
    BY HoursAssumption
  <2>3. DateOf(Local(z, t)) \in Int /\ DateOf(Local(z, last)) \in Int
    BY <2>1, <2>2, LocalParts
  <2>4. Open(seen, z, t) = Open(rules, z, t)
    <3>1. DateOf(Local(z, t)) <= LastDate(z, t)
      BY <2>3, HoursAssumption DEF LastDate
    <3>2. t <= t + Horizon * Day
      BY <2>1, <2>2
    <3> QED
      BY <2>1, <3>1, <3>2, WindowOpens
  <2>5. ASSUME DateOf(Local(z, last)) <= LastDate(z, t)
        PROVE  NextChange(seen, z, t) = NextChange(rules, z, t)
    <3>1. Candidates(seen, z, t) = Candidates(rules, z, t)
      BY <2>1, WindowCandidates
    <3>2. ASSUME NEW u \in Candidates(rules, z, t)
          PROVE  Open(seen, z, u) = Open(rules, z, u)
      <4>1. u \in Nat /\ t <= u /\ u <= last
        BY <2>1, <2>2, CandidatesAreInstants
      <4>2. DateOf(Local(z, u)) <= DateOf(Local(z, last))
        BY <2>1, <2>2, <4>1, DatesGrow
      <4>3. DateOf(Local(z, u)) \in Int /\ LastDate(z, t) \in Int
        BY <2>1, <2>3, <4>1, LocalParts, HoursAssumption DEF LastDate
      <4>4. DateOf(Local(z, u)) <= LastDate(z, t)
        BY <2>3, <2>5, <4>2, <4>3
      <4> QED
        BY <2>1, <4>1, <4>4, WindowOpens
    <3> HIDE DEF seen
    <3>3. {u \in Candidates(seen, z, t) : Open(seen, z, u) # Open(seen, z, t)}
            = {u \in Candidates(rules, z, t) : Open(rules, z, u) # Open(rules, z, t)}
      BY <2>4, <3>1, <3>2
    <3> QED
      BY <3>3 DEF NextChange
  <2> QED
    BY <2>4, <2>5 DEF rules, z, t
<1> QED
  BY <1>1, <1>2

\* So whoever asks is told when the hours change next, whatever the rules are.
THEOREM HoursRight == CalendarSpec => []HoursAreRight
<1>1. HoursAreRight
  BY ResolverIsRight DEF HoursAreRight
<1> QED
  BY <1>1, PTL
=============================================================================
