----------------------------- MODULE UsersProofs -----------------------------
(* That users are added only within the plan of the moment, that a changed  *)
(* password ends the tokens given for the old one, and that an organization *)
(* keeps an owner, for any number of people, requests, tokens and plans;    *)
(* then the theorems of Billing.                                            *)
EXTENDS Users, Billing, FiniteSetTheorems, TLAPS

\* The inductive invariant.  Only finitely many people are ever active, though
\* People may be infinite.
Finite == IsFiniteSet(Active)

UserKnown(u) == user[u].status # "absent" => user[u].version >= 1

\* A token that no overlap has touched is not ahead of its user, and behind when
\* the password is another one.
TokenKnown(t) ==
    /\ user[t.of].status # "absent"
    /\ ~t.raced => /\ t.version <= user[t.of].version
                   /\ ~t.current => t.version < user[t.of].version

\* Users are not deleted: what a request has loaded is still there.
CallKnown(p) ==
    call[p].stage \in {"loaded", "verified"} =>
        call[p].on \in People /\ user[call[p].on].status # "absent"

\* One request has counted, and what it has found still holds.
OneCounts ==
    \A p, q \in Processes :
        call[p].stage = "counted" /\ call[q].stage = "counted" => p = q

CountedKnown(p) ==
    call[p].stage = "counted" =>
        call[p].on \in People /\ user[call[p].on].status = "absent" /\ HasRoom

IInv ==
    /\ TypeOK /\ Finite /\ OneCounts
    /\ \A u \in People : UserKnown(u)
    /\ \A t \in tokens : TokenKnown(t)
    /\ \A p \in Processes : CallKnown(p) /\ CountedKnown(p)

-----------------------------------------------------------------------------
LEMMA Constants ==
    /\ Absent \in Row /\ Idle \in Call /\ AskedRoles \subseteq Roles
    /\ Limits \subseteq Nat /\ MaxVersion \in Nat \ {0}
BY UsersAssumption DEF Absent, Row, Idle, Call, Roles

LEMMA InitIInv == Init => IInv
<1> SUFFICES ASSUME Init PROVE IInv
  OBVIOUS
<1> USE Constants DEF Init
<1>1. TypeOK
  BY DEF TypeOK
<1>2. Active = {}
  BY DEF Active, Absent
<1>3. Finite
  BY <1>2, FS_EmptySet DEF Finite
<1>4. OneCounts
  BY DEF OneCounts, Idle
<1>5. \A u \in People : UserKnown(u)
  BY DEF UserKnown, Absent
<1>6. \A p \in Processes : CallKnown(p) /\ CountedKnown(p)
  BY DEF CallKnown, CountedKnown, Idle
<1> QED BY <1>1, <1>3, <1>4, <1>5, <1>6 DEF IInv

-----------------------------------------------------------------------------
(* What a step may do to the rows.                                         *)

\* A new user, when there is room.
Adds(u) ==
    /\ user[u].status = "absent" /\ HasRoom
    /\ \E row \in Row : /\ row.status = "active" /\ row.version = 1
                       /\ user' = [user EXCEPT ![u] = row]
    /\ UNCHANGED <<limit, tokens>>

\* A writer of the row that it has loaded.  It activates nobody; the version
\* stays, or is the loaded one plus one and the tokens are marked.
Writes(p) ==
    /\ call[p].stage = "loaded" /\ call[p].on \in People
    /\ \E row \in Row :
          /\ user' = [user EXCEPT ![call[p].on] = row]
          /\ row.status # "absent"
          /\ row.status = "active" => user[call[p].on].status = "active"
          /\ \/ /\ row.version = NextVersion(p)
                /\ \E changed \in BOOLEAN : tokens' = Marked(p, changed)
             \/ row.version = user[call[p].on].version /\ UNCHANGED tokens

\* Everything else, which leaves the rows.
Leaves ==
    /\ UNCHANGED user
    /\ \/ UNCHANGED tokens
       \/ \E t \in tokens : Expire(t)
       \/ \E p \in Processes : IssueToken(p)

LEMMA Loaded ==
    ASSUME IInv, NEW p \in Processes, call[p].stage \in {"loaded", "verified"}
    PROVE  /\ call[p] \in Call /\ call[p].on \in People /\ call[p].seen \in Row
           /\ user[call[p].on] \in Row /\ user[call[p].on].status # "absent"
           /\ user[call[p].on].version >= 1
BY DEF IInv, TypeOK, CallKnown, UserKnown, Call

LEMMA WriteKinds ==
    ASSUME IInv, NEW p \in Processes,
           Deactivate(p) \/ AssignRole(p) \/ ChangePassword(p) \/ Promote(p)
    PROVE  Writes(p)
<1> DEFINE u == call[p].on
           old == user[u]
<1>1. call[p].stage = "loaded"
  BY DEF Deactivate, AssignRole, ChangePassword, Promote
<1>2. /\ u \in People /\ call[p] \in Call /\ call[p].seen \in Row
      /\ old \in Row /\ old.status # "absent" /\ user \in [People -> Row]
  BY <1>1, Loaded DEF IInv, TypeOK
<1>3. NextVersion(p) <= MaxVersion => NextVersion(p) \in 0..MaxVersion
  BY <1>2, Constants DEF NextVersion, Row
<1>4. CASE Deactivate(p)
  <2> DEFINE row == [old EXCEPT !.status = "inactive", !.version = NextVersion(p)]
  <2>1. row \in Row /\ row.status = "inactive" /\ row.version = NextVersion(p)
    BY <1>2, <1>3, <1>4 DEF Deactivate, Row
  <2>2. user' = [user EXCEPT ![u] = row] /\ tokens' = Marked(p, FALSE)
    BY <1>2, <1>4 DEF Deactivate, Row
  <2> HIDE DEF row
  <2> QED BY <1>1, <1>2, <2>1, <2>2 DEF Writes
<1>5. CASE AssignRole(p)
  <2> DEFINE row == [old EXCEPT !.role = call[p].asked]
  <2>1. row \in Row /\ row.status = old.status /\ row.version = old.version
    BY <1>2 DEF Row, Call
  <2>2. user' = [user EXCEPT ![u] = row] /\ UNCHANGED tokens
    BY <1>2, <1>5 DEF AssignRole, Row
  <2> HIDE DEF row
  <2> QED BY <1>1, <1>2, <2>1, <2>2 DEF Writes
<1>6. CASE ChangePassword(p)
  <2> DEFINE row == [old EXCEPT !.version = NextVersion(p)]
  <2>1. row \in Row /\ row.status = old.status /\ row.version = NextVersion(p)
    BY <1>2, <1>3, <1>6 DEF ChangePassword, Row
  <2>2. user' = [user EXCEPT ![u] = row] /\ tokens' = Marked(p, TRUE)
    BY <1>2, <1>6 DEF ChangePassword, Row
  <2> HIDE DEF row
  <2> QED BY <1>1, <1>2, <2>1, <2>2 DEF Writes
<1>7. CASE Promote(p)
  <2> DEFINE row == [old EXCEPT !.role = "platform_admin", !.version = NextVersion(p)]
  <2>1. row \in Row /\ row.status = old.status /\ row.version = NextVersion(p)
    BY <1>2, <1>3, <1>7 DEF Promote, Row, Roles
  <2>2. user' = [user EXCEPT ![u] = row] /\ tokens' = Marked(p, FALSE)
    BY <1>2, <1>7 DEF Promote, Row
  <2> HIDE DEF row
  <2> QED BY <1>1, <1>2, <2>1, <2>2 DEF Writes
<1> QED BY <1>4, <1>5, <1>6, <1>7

LEMMA CreateAdds ==
    ASSUME IInv, NEW p \in Processes, Create(p)
    PROVE  call[p].on \in People /\ Adds(call[p].on)
<1> DEFINE row == [status |-> "active", role |-> call[p].asked, version |-> 1]
<1>1. /\ call[p] \in Call /\ call[p].stage = "counted" /\ CountedKnown(p)
      /\ user' = [user EXCEPT ![call[p].on] = row] /\ UNCHANGED <<limit, tokens>>
  BY DEF IInv, TypeOK, Create
<1>2. row \in Row /\ row.status = "active" /\ row.version = 1
  BY <1>1, Constants DEF Row, Call
<1> HIDE DEF row
<1> QED BY <1>1, <1>2 DEF CountedKnown, Adds

\* The requests that come to count.
Counts(p) ==
    \E u \in People : Bootstrap(p, u) \/ \E role \in AskedRoles : AskCreate(p, u, role)

LEMMA CountForm ==
    ASSUME NEW p \in Processes, Counts(p)
    PROVE  /\ OrganizationFree /\ HasRoom /\ UNCHANGED <<rows, tokens>>
           /\ \E c \in Call : /\ c.stage = "counted" /\ c.on \in People
                              /\ user[c.on].status = "absent"
                              /\ call' = [call EXCEPT ![p] = c]
<1>1. PICK u \in People, role \in Roles : Count(p, u, role)
  BY Constants DEF Counts, Bootstrap, AskCreate, Roles
<1> DEFINE c == [Idle EXCEPT !.stage = "counted", !.op = "create", !.on = u,
                             !.asked = role]
<1>2. c \in Call /\ c.stage = "counted" /\ c.on = u
  BY Constants DEF Call, Idle
<1>3. call' = [call EXCEPT ![p] = c] /\ user[u].status = "absent"
  BY <1>1 DEF Count
<1>4. OrganizationFree /\ HasRoom /\ UNCHANGED <<rows, tokens>>
  BY <1>1 DEF Count
<1> HIDE DEF c
<1> QED BY <1>2, <1>3, <1>4

LEMMA StepKinds ==
    ASSUME IInv, [Next]_vars
    PROVE  \/ Leaves
           \/ \E u \in People : Adds(u)
           \/ \E p \in Processes : Writes(p)
<1>1. ASSUME NEW p \in Processes,
             \/ StopOrganization(p) \/ Abandon(p) \/ IssueToken(p) \/ Counts(p)
             \/ \E u \in People :
                   \/ Authenticate(p, u) \/ Login(p, u)
                   \/ \E op \in Scripts : StartScript(p, op, u)
                   \/ \E op \in {"deactivate", "assign", "password"} :
                         \E role \in AskedRoles : Load(p, op, u, role)
      PROVE  Leaves
  BY <1>1, CountForm DEF Leaves, StopOrganization, Abandon, IssueToken, Authenticate,
     Login, StartScript, Load, rows
<1>2. ASSUME NEW t \in tokens, Expire(t) PROVE Leaves
  BY <1>2 DEF Leaves, Expire, rows
<1>3. CASE UNCHANGED vars
  BY <1>3 DEF Leaves, vars, rows
<1>4. ASSUME NEW n \in Limits, ChangePlan(n) PROVE Leaves
  BY <1>4 DEF Leaves, ChangePlan
<1> QED BY <1>1, <1>2, <1>3, <1>4, CreateAdds, WriteKinds
        DEF Next, Administer, Prove, Operate, Counts

-----------------------------------------------------------------------------
(* Types.                                                                  *)

LEMMA Known ==
    ASSUME IInv
    PROVE  /\ user \in [People -> Row] /\ organization \in {"active", "inactive"}
           /\ tokens \subseteq Token /\ call \in [Processes -> Call]
           /\ limit \in Limits /\ limit \in Nat /\ Nobody \notin People
BY UsersAssumption DEF IInv, TypeOK

LEMMA RowTypesStep ==
    ASSUME IInv, [Next]_vars
    PROVE  /\ user' \in [People -> Row] /\ organization' \in {"active", "inactive"}
           /\ limit' \in Limits
<1>1. /\ user \in [People -> Row] /\ organization \in {"active", "inactive"}
      /\ limit \in Limits
  BY Known
<1>2. user' \in [People -> Row]
  BY <1>1, StepKinds DEF Leaves, Adds, Writes
<1> DEFINE Typed == organization' \in {"active", "inactive"} /\ limit' \in Limits
<1>3. ASSUME NEW p \in Processes, Administer(p) PROVE Typed
  <2>1. CASE Counts(p)
    BY <1>1, <2>1, CountForm DEF rows
  <2>2. CASE Create(p) \/ Deactivate(p) \/ AssignRole(p) \/ StopOrganization(p)
    BY <1>1, <2>2 DEF Create, Deactivate, AssignRole, StopOrganization
  <2> QED BY <1>3, <2>1, <2>2 DEF Administer, Counts
<1>4. ASSUME NEW p \in Processes, Prove(p) PROVE Typed
  BY <1>1, <1>4 DEF Prove, Authenticate, Login, IssueToken, ChangePassword, rows
<1>5. ASSUME NEW p \in Processes, Operate(p) \/ Abandon(p) PROVE Typed
  BY <1>1, <1>5 DEF Operate, StartScript, Promote, Abandon, rows
<1>6. ASSUME NEW n \in Limits, ChangePlan(n) PROVE Typed
  BY <1>1, <1>6 DEF ChangePlan
<1>7. ASSUME NEW t \in tokens, Expire(t) PROVE Typed
  BY <1>1, <1>7 DEF Expire, rows
<1>8. ASSUME NEW p \in Processes, NEW u \in People, NEW op, NEW role, Load(p, op, u, role)
      PROVE  Typed
  BY <1>1, <1>8 DEF Load, rows
<1>9. CASE UNCHANGED vars
  BY <1>1, <1>9 DEF vars, rows
<1>10. Typed
  BY <1>3, <1>4, <1>5, <1>6, <1>7, <1>8, <1>9 DEF Next
<1> QED BY <1>2, <1>10

\* A mark changes what is remembered of the tokens of one user.
LEMMA MarkForm ==
    ASSUME IInv, NEW p \in Processes, NEW changed \in BOOLEAN,
           NEW s \in Marked(p, changed)
    PROVE  /\ s \in Token
           /\ \E t \in tokens :
                 /\ s.of = t.of /\ s.version = t.version
                 /\ t.of # call[p].on => s = t
                 /\ t.of = call[p].on /\ ~s.raced => ~t.raced /\ ~Overlapped(p)
<1>1. tokens \subseteq Token
  BY Known
<1>2. PICK t \in tokens :
         s = IF t.of # call[p].on THEN t
             ELSE [t EXCEPT !.current = @ /\ ~changed, !.raced = @ \/ Overlapped(p)]
  BY DEF Marked
<1>3. CASE t.of # call[p].on
  BY <1>1, <1>2, <1>3
<1>4. CASE t.of = call[p].on
  <2>1. t \in Token /\ Overlapped(p) \in BOOLEAN
    BY <1>1 DEF Overlapped
  <2> HIDE DEF Overlapped
  <2>2. /\ s.of = t.of /\ s.version = t.version
        /\ s.raced = (t.raced \/ Overlapped(p))
    BY <1>2, <1>4, <2>1 DEF Token
  <2>3. s \in Token
    BY <1>2, <1>4, <2>1 DEF Token
  <2> QED BY <1>4, <2>2, <2>3
<1> QED BY <1>3, <1>4

LEMMA TokenTypesStep ==
    ASSUME IInv, [Next]_vars PROVE tokens' \subseteq Token
<1>1. tokens \subseteq Token
  BY Known
<1>2. ASSUME NEW p \in Processes, IssueToken(p) PROVE tokens' \subseteq Token
  <2> DEFINE u == call[p].on
             t == [of |-> u, version |-> user[u].version, current |-> call[p].current,
                   raced |-> ~call[p].current]
  <2>1. /\ u \in People /\ call[p] \in Call /\ user[u] \in Row
        /\ user[u].version >= 1
    BY <1>2, Loaded DEF IssueToken
  <2>2. t \in Token
    BY <2>1, Constants DEF Token, Row, Call
  <2>3. tokens' = tokens \cup {t}
    BY <1>2 DEF IssueToken
  <2> HIDE DEF t
  <2> QED BY <1>1, <2>2, <2>3
<1>3. ASSUME NEW p \in Processes, Writes(p) PROVE tokens' \subseteq Token
  BY <1>1, <1>3, MarkForm DEF Writes
<1>4. CASE Leaves
  BY <1>1, <1>2, <1>4 DEF Leaves, Expire
<1> QED BY <1>1, <1>3, <1>4, StepKinds DEF Adds

LEMMA LoadCall ==
    ASSUME IInv, NEW p \in Processes, NEW u \in People, NEW role \in AskedRoles,
           NEW op \in {"deactivate", "assign", "password"}, Load(p, op, u, role)
    PROVE  \E c \in Call : /\ c.on = u /\ user[u].status # "absent"
                           /\ call' = [call EXCEPT ![p] = c]
<1> DEFINE row == IF u = call[p].actor THEN call[p].seen ELSE user[u]
           c(r) == [call[p] EXCEPT !.stage = "loaded", !.op = op, !.on = u,
                                   !.asked = role, !.seen = r]
<1>1. call[p] \in Call /\ row \in Row /\ role \in Roles
  BY Known, Constants DEF Call
<1>2. \A r \in Row : c(r) \in Call /\ c(r).on = u
  BY <1>1 DEF Call
<1>3. call' = [call EXCEPT ![p] = c(row)] /\ user[u].status # "absent"
  BY DEF Load
<1> HIDE DEF c, row
<1> QED BY <1>1, <1>2, <1>3

LEMMA CallTypesStep == ASSUME IInv, [Next]_vars PROVE call' \in [Processes -> Call]
<1>1. user \in [People -> Row] /\ call \in [Processes -> Call]
  BY Known
<1>2. CASE UNCHANGED call
  BY <1>1, <1>2
<1>3. ASSUME NEW p \in Processes, Finish(p) PROVE call' \in [Processes -> Call]
  BY <1>1, <1>3, Constants DEF Finish
<1>4. ASSUME NEW p \in Processes, NEW a \in People, Authenticate(p, a)
      PROVE  call' \in [Processes -> Call]
  <2>1. [Idle EXCEPT !.stage = "authenticated", !.actor = a, !.as = user[a].role,
                     !.seen = user[a]] \in Call
    BY <1>1, Constants DEF Call, Row
  <2> QED BY <1>1, <1>4, <2>1 DEF Authenticate
<1>5. ASSUME NEW p \in Processes, NEW u \in People, Login(p, u)
      PROVE  call' \in [Processes -> Call]
  <2>1. [Idle EXCEPT !.stage = "verified", !.op = "login", !.on = u] \in Call
    BY Constants DEF Call
  <2> QED BY <1>1, <1>5, <2>1 DEF Login
<1>6. ASSUME NEW p \in Processes, NEW u \in People, NEW op \in Scripts,
             StartScript(p, op, u)
      PROVE  call' \in [Processes -> Call]
  <2>1. [Idle EXCEPT !.stage = "loaded", !.op = op, !.on = u, !.seen = user[u]] \in Call
    BY <1>1, Constants DEF Call
  <2> QED BY <1>1, <1>6, <2>1 DEF StartScript
<1>7. ASSUME NEW p \in Processes, NEW u \in People, NEW role \in AskedRoles,
             NEW op \in {"deactivate", "assign", "password"}, Load(p, op, u, role)
      PROVE  call' \in [Processes -> Call]
  BY <1>1, <1>7, LoadCall
<1>8. ASSUME NEW p \in Processes, ChangePassword(p) PROVE call' \in [Processes -> Call]
  <2>1. \A q \in Processes : \A b : [call[q] EXCEPT !.current = @ /\ ~b] \in Call
    BY <1>1 DEF Call
  <2> QED BY <1>8, <2>1, Constants DEF ChangePassword
<1>9. ASSUME NEW p \in Processes,
             \/ Create(p) \/ Deactivate(p) \/ AssignRole(p) \/ StopOrganization(p)
             \/ IssueToken(p)
             \/ Promote(p) \/ Abandon(p)
      PROVE  Finish(p)
  BY <1>9 DEF Create, Deactivate, AssignRole, StopOrganization, IssueToken, Promote,
     Abandon
<1>10. ASSUME NEW p \in Processes, Counts(p) PROVE call' \in [Processes -> Call]
  BY <1>1, <1>10, CountForm
<1>11. ASSUME \/ \E t \in tokens : Expire(t)
              \/ \E n \in Limits : ChangePlan(n)
       PROVE  UNCHANGED call
  BY <1>11 DEF Expire, ChangePlan
<1>12. CASE UNCHANGED vars
  BY <1>2, <1>12 DEF vars
<1> QED BY <1>2, <1>3, <1>4, <1>5, <1>6, <1>7, <1>8, <1>9, <1>10, <1>11, <1>12
        DEF Next, Administer, Prove, Operate, Counts

LEMMA TypeStep == ASSUME IInv, [Next]_vars PROVE TypeOK'
BY RowTypesStep, TokenTypesStep, CallTypesStep DEF TypeOK

-----------------------------------------------------------------------------
(* Rows stay, and so does what requests have found.                        *)

LEMMA Survive ==
    ASSUME IInv, [Next]_vars, NEW u \in People
    PROVE  /\ user[u].status # "absent" => user'[u].status # "absent"
           /\ UserKnown(u)'
<1>1. user \in [People -> Row] /\ UserKnown(u)
  BY Known DEF IInv
<1>2. CASE Leaves
  BY <1>1, <1>2 DEF Leaves, UserKnown
<1>3. ASSUME NEW v \in People, Adds(v)
      PROVE  /\ user[u].status # "absent" => user'[u].status # "absent"
             /\ UserKnown(u)'
  BY <1>1, <1>3 DEF Adds, UserKnown
<1>4. ASSUME NEW p \in Processes, Writes(p)
      PROVE  /\ user[u].status # "absent" => user'[u].status # "absent"
             /\ UserKnown(u)'
  <2>1. PICK row \in Row :
           /\ user' = [user EXCEPT ![call[p].on] = row] /\ row.status # "absent"
           /\ row.version \in {NextVersion(p), user[call[p].on].version}
    BY <1>4 DEF Writes
  <2>2. /\ user[call[p].on].version >= 1 /\ call[p].seen \in Row
        /\ call[p].on \in People
    BY <1>4, Loaded DEF Writes
  <2>3. row.version >= 1
    BY <2>1, <2>2, Constants DEF NextVersion, Row
  <2> QED BY <1>1, <2>1, <2>2, <2>3 DEF UserKnown
<1> QED BY <1>2, <1>3, <1>4, StepKinds

LEMMA CallKnownStep == ASSUME IInv, [Next]_vars PROVE \A p \in Processes : CallKnown(p)'
<1> SUFFICES ASSUME NEW q \in Processes PROVE CallKnown(q)'
  OBVIOUS
<1>1. call \in [Processes -> Call] /\ CallKnown(q) /\ user \in [People -> Row]
  BY Known DEF IInv
<1>2. CASE call'[q].stage = call[q].stage /\ call'[q].on = call[q].on
  BY <1>1, <1>2, Survive DEF CallKnown
<1>3. CASE call'[q].stage \in {"idle", "authenticated", "counted"}
  BY <1>3 DEF CallKnown
<1>4. ASSUME NEW u \in People, user[u].status # "absent", call'[q].on = u
      PROVE  CallKnown(q)'
  BY <1>4, Survive DEF CallKnown
<1>5. ASSUME NEW p \in Processes, Finish(p) PROVE CallKnown(q)'
  <2>1. CASE p = q
    BY <1>1, <1>3, <1>5, <2>1 DEF Finish, Idle
  <2>2. CASE p # q
    BY <1>1, <1>2, <1>5, <2>2 DEF Finish
  <2> QED BY <2>1, <2>2
<1>6. ASSUME NEW p \in Processes, NEW c, call' = [call EXCEPT ![p] = c],
             \/ c.stage \in {"authenticated", "counted"}
             \/ c.on \in People /\ user[c.on].status # "absent"
      PROVE  CallKnown(q)'
  <2>1. CASE p = q
    BY <1>1, <1>3, <1>4, <1>6, <2>1
  <2>2. CASE p # q
    BY <1>1, <1>2, <1>6, <2>2
  <2> QED BY <2>1, <2>2
<1>7. ASSUME NEW p \in Processes, NEW u \in People, Authenticate(p, u) \/ Login(p, u)
      PROVE  CallKnown(q)'
  <2>1. CASE Authenticate(p, u)
    <3> DEFINE c == [Idle EXCEPT !.stage = "authenticated", !.actor = u,
                                 !.as = user[u].role, !.seen = user[u]]
    <3>1. c.stage = "authenticated"
      BY DEF Idle
    <3>2. call' = [call EXCEPT ![p] = c]
      BY <2>1 DEF Authenticate
    <3> HIDE DEF c
    <3> QED BY <1>6, <3>1, <3>2
  <2>2. CASE Login(p, u)
    <3> DEFINE c == [Idle EXCEPT !.stage = "verified", !.op = "login", !.on = u]
    <3>1. c.on = u /\ user[u].status # "absent"
      BY <2>2 DEF Idle, Login, Available
    <3>2. call' = [call EXCEPT ![p] = c]
      BY <2>2 DEF Login
    <3> HIDE DEF c
    <3> QED BY <1>6, <3>1, <3>2
  <2> QED BY <1>7, <2>1, <2>2
<1>8. ASSUME NEW p \in Processes, NEW u \in People, NEW op \in Scripts,
             StartScript(p, op, u)
      PROVE  CallKnown(q)'
  <2> DEFINE c == [Idle EXCEPT !.stage = "loaded", !.op = op, !.on = u, !.seen = user[u]]
  <2>1. c.on = u /\ user[u].status # "absent"
    BY <1>8 DEF Idle, StartScript
  <2>2. call' = [call EXCEPT ![p] = c]
    BY <1>8 DEF StartScript
  <2> HIDE DEF c
  <2> QED BY <1>6, <2>1, <2>2
<1>9. ASSUME NEW p \in Processes, NEW u \in People, NEW role \in AskedRoles,
             NEW op \in {"deactivate", "assign", "password"}, Load(p, op, u, role)
      PROVE  CallKnown(q)'
  BY <1>6, <1>9, LoadCall
<1>10. ASSUME NEW p \in Processes, ChangePassword(p) PROVE CallKnown(q)'
  <2>1. CASE p = q
    BY <1>3, <1>10, <2>1 DEF ChangePassword, Idle
  <2>2. CASE p # q
    <3>1. call[q] \in Call
      BY <1>1
    <3>2. call'[q].stage = call[q].stage /\ call'[q].on = call[q].on
      BY <1>10, <2>2, <3>1 DEF ChangePassword, Call
    <3> QED BY <1>2, <3>2
  <2> QED BY <2>1, <2>2
<1>11. ASSUME NEW p \in Processes,
             \/ Create(p) \/ Deactivate(p) \/ AssignRole(p) \/ StopOrganization(p)
             \/ IssueToken(p)
             \/ Promote(p) \/ Abandon(p)
      PROVE  Finish(p)
  BY <1>11 DEF Create, Deactivate, AssignRole, StopOrganization, IssueToken,
     Promote,
     Abandon
<1>12. ASSUME NEW p \in Processes, Counts(p) PROVE CallKnown(q)'
  BY <1>6, <1>12, CountForm
<1>13. ASSUME \/ \E t \in tokens : Expire(t)
              \/ \E n \in Limits : ChangePlan(n)
       PROVE  UNCHANGED call
  BY <1>13 DEF Expire, ChangePlan
<1>14. CASE UNCHANGED call
  BY <1>2, <1>14
<1> QED BY <1>5, <1>7, <1>8, <1>9, <1>10, <1>11, <1>12, <1>13, <1>14
        DEF Next, Administer, Prove, Operate, Counts, vars

LEMMA TokenStep == ASSUME IInv, [Next]_vars PROVE \A t \in tokens' : TokenKnown(t)'
<1> SUFFICES ASSUME NEW s \in tokens' PROVE TokenKnown(s)'
  OBVIOUS
<1>1. user \in [People -> Row] /\ tokens \subseteq Token /\ call \in [Processes -> Call]
  BY Known
<1>2. \A t \in tokens : TokenKnown(t) /\ t.of \in People /\ t.version \in Nat
  BY <1>1, Constants DEF IInv, Token
<1>3. \A u \in People : user[u].version \in Nat
  BY <1>1, Constants DEF Row
<1>4. CASE Leaves
  <2>1. CASE s \in tokens
    BY <1>2, <1>4, <2>1 DEF Leaves, TokenKnown
  <2>2. CASE s \notin tokens
    <3>1. PICK p \in Processes : IssueToken(p)
      BY <1>4, <2>2 DEF Leaves, Expire
    <3>2. /\ s.of = call[p].on /\ s.version = user[call[p].on].version
          /\ s.current = call[p].current /\ s.raced = ~call[p].current
      BY <2>2, <3>1 DEF IssueToken
    <3>3. user[call[p].on].status # "absent" /\ call[p].on \in People
      BY <3>1, Loaded DEF IssueToken
    <3>4. call[p].current \in BOOLEAN
      BY <1>1, Constants DEF Call
    <3>5. user[s.of].status # "absent" /\ s.version <= user[s.of].version
      BY <1>3, <3>2, <3>3
    <3>6. ~s.raced => s.current
      BY <3>2, <3>4
    <3>7. TokenKnown(s)
      BY <3>5, <3>6 DEF TokenKnown
    <3> QED BY <1>4, <3>7 DEF Leaves, TokenKnown
  <2> QED BY <2>1, <2>2
<1>5. ASSUME NEW u \in People, Adds(u) PROVE TokenKnown(s)'
  <2>1. s \in tokens /\ TokenKnown(s) /\ s.of # u
    BY <1>2, <1>5 DEF Adds, TokenKnown
  <2>2. user'[s.of] = user[s.of]
    BY <1>1, <1>2, <1>5, <2>1 DEF Adds
  <2> QED BY <2>1, <2>2 DEF TokenKnown
<1>6. ASSUME NEW p \in Processes, Writes(p) PROVE TokenKnown(s)'
  <2> DEFINE u == call[p].on
  <2>1. PICK row \in Row :
           /\ user' = [user EXCEPT ![u] = row] /\ row.status # "absent"
           /\ \/ /\ row.version = NextVersion(p)
                 /\ \E changed \in BOOLEAN : tokens' = Marked(p, changed)
              \/ row.version = user[u].version /\ UNCHANGED tokens
    BY <1>6 DEF Writes
  <2>2. u \in People /\ user'[u] = row
    BY <1>1, <1>6, <2>1 DEF Writes
  <2>3. CASE row.version = user[u].version /\ UNCHANGED tokens
    BY <1>1, <1>2, <2>1, <2>2, <2>3 DEF TokenKnown
  <2>4. ASSUME NEW changed \in BOOLEAN, tokens' = Marked(p, changed),
               row.version = NextVersion(p)
        PROVE  TokenKnown(s)'
    <3>1. PICK t \in tokens :
             /\ s.of = t.of /\ s.version = t.version
             /\ t.of # u => s = t
             /\ t.of = u /\ ~s.raced => ~t.raced /\ ~Overlapped(p)
      BY <2>4, MarkForm
    <3>2. CASE t.of # u
      <4>1. user'[t.of] = user[t.of]
        BY <1>1, <1>2, <2>1, <3>2
      <4> QED BY <1>2, <3>1, <3>2, <4>1 DEF TokenKnown
    <3>3. CASE t.of = u
      <4>1. ~s.raced => row.version = user[u].version + 1 /\ ~t.raced
        BY <2>4, <3>1, <3>3 DEF NextVersion, Overlapped
      <4>2. ~s.raced => s.version < row.version
        BY <1>2, <1>3, <2>2, <3>1, <3>3, <4>1 DEF TokenKnown
      <4> QED BY <1>2, <2>1, <2>2, <3>1, <3>3, <4>2, Constants DEF TokenKnown, Row
    <3> QED BY <3>2, <3>3
  <2> QED BY <2>1, <2>3, <2>4
<1> QED BY <1>4, <1>5, <1>6, StepKinds

-----------------------------------------------------------------------------
(* Who is active, and who is an owner.                                     *)

LEMMA ActiveStep ==
    ASSUME IInv, [Next]_vars
    PROVE  Finite' /\ (Active' \ Active # {} => Cardinality(Active') <= limit')
<1>1. /\ user \in [People -> Row] /\ IsFiniteSet(Active)
      /\ Cardinality(Active) \in Nat /\ limit \in Nat
  BY Known, FS_CardinalityType DEF IInv, Finite
<1>2. CASE Active' \subseteq Active
  BY <1>1, <1>2, FS_Subset DEF Finite
<1>3. CASE Leaves
  BY <1>2, <1>3 DEF Leaves, Active
<1>4. ASSUME NEW u \in People, Adds(u)
      PROVE  Finite' /\ Cardinality(Active') <= limit'
  <2>1. Active' \subseteq Active \cup {u}
    BY <1>1, <1>4 DEF Adds, Active
  <2>2. /\ IsFiniteSet(Active \cup {u})
        /\ Cardinality(Active \cup {u}) \in {Cardinality(Active), Cardinality(Active) + 1}
    BY <1>1, FS_AddElement
  <2>3. IsFiniteSet(Active') /\ Cardinality(Active') <= Cardinality(Active \cup {u})
    BY <2>1, <2>2, FS_Subset
  <2>4. /\ Cardinality(Active') \in Nat /\ Cardinality(Active) < limit
        /\ limit' = limit
    BY <1>4, <2>3, FS_CardinalityType DEF Adds, HasRoom
  <2> QED BY <1>1, <2>2, <2>3, <2>4 DEF Finite
<1>5. ASSUME NEW p \in Processes, Writes(p) PROVE Active' \subseteq Active
  BY <1>1, <1>5 DEF Writes, Active
<1> QED BY <1>2, <1>3, <1>4, <1>5, StepKinds

\* Who has counted keeps the lock: nobody else counts, and neither the plan nor
\* the rows change before it commits.
LEMMA CountStep ==
    ASSUME IInv, [Next]_vars
    PROVE  OneCounts' /\ \A p \in Processes : CountedKnown(p)'
<1>1. call \in [Processes -> Call] /\ OneCounts /\ \A p \in Processes : CountedKnown(p)
  BY Known DEF IInv
<1> DEFINE Result == OneCounts' /\ \A p \in Processes : CountedKnown(p)'
<1>2. ASSUME OrganizationFree' PROVE Result
  BY <1>2 DEF OrganizationFree, OneCounts, CountedKnown
<1>3. ASSUME UNCHANGED <<user, limit>>,
             \A q \in Processes : call'[q].stage = "counted" => call'[q] = call[q]
      PROVE  Result
  <2>1. HasRoom' = HasRoom
    BY <1>3 DEF HasRoom, Active
  <2> QED BY <1>1, <1>3, <2>1 DEF OneCounts, CountedKnown
<1>4. ASSUME NEW p \in Processes, Counts(p) PROVE Result
  <2>1. PICK c \in Call : /\ c.stage = "counted" /\ c.on \in People
                          /\ user[c.on].status = "absent"
                          /\ call' = [call EXCEPT ![p] = c]
    BY <1>4, CountForm
  <2>2. OrganizationFree /\ HasRoom /\ UNCHANGED <<user, limit>>
    BY <1>4, CountForm DEF rows
  <2>3. HasRoom'
    BY <2>2 DEF HasRoom, Active
  <2>4. \A q \in Processes : call'[q].stage = "counted" => q = p /\ call'[q] = c
    BY <1>1, <2>1, <2>2 DEF OrganizationFree
  <2> QED BY <2>1, <2>2, <2>3, <2>4 DEF OneCounts, CountedKnown
<1>5. ASSUME NEW p \in Processes, Finish(p)
      PROVE  \A q \in Processes : call'[q].stage = "counted" => q # p /\ call'[q] = call[q]
  BY <1>1, <1>5 DEF Finish, Idle
<1>6. ASSUME NEW p \in Processes, Create(p) PROVE Result
  <2>1. OrganizationFree'
    BY <1>1, <1>5, <1>6 DEF Create, OneCounts, OrganizationFree
  <2> QED BY <1>2, <2>1
<1>7. ASSUME NEW p \in Processes, Deactivate(p) \/ AssignRole(p) \/ Promote(p)
      PROVE  Result
  <2>1. OrganizationFree'
    BY <1>5, <1>7 DEF Deactivate, AssignRole, Promote, OrganizationFree
  <2> QED BY <1>2, <2>1
<1>8. ASSUME NEW p \in Processes, ChangePassword(p) PROVE Result
  <2>1. ASSUME NEW q \in Processes PROVE call'[q].stage # "counted"
    <3>1. call[q] \in Call /\ call[q].stage # "counted"
      BY <1>1, <1>8 DEF ChangePassword, OrganizationFree
    <3>2. CASE q = p
      BY <1>8, <3>2 DEF ChangePassword, Idle
    <3>3. CASE q # p
      BY <1>8, <3>1, <3>3 DEF ChangePassword, Call
    <3> QED BY <3>2, <3>3
  <2> QED BY <1>2, <2>1 DEF OrganizationFree
<1>9. ASSUME NEW p \in Processes, StopOrganization(p) \/ IssueToken(p) \/ Abandon(p)
      PROVE  Result
  <2>1. Finish(p) /\ UNCHANGED <<user, limit>>
    BY <1>9 DEF StopOrganization, IssueToken, Abandon, rows
  <2> QED BY <1>3, <1>5, <2>1
<1>10. ASSUME NEW p \in Processes, NEW c, call' = [call EXCEPT ![p] = c],
              c.stage # "counted", UNCHANGED <<user, limit>>
       PROVE  Result
  BY <1>1, <1>3, <1>10
<1>11. ASSUME NEW p \in Processes, NEW u \in People, Authenticate(p, u) \/ Login(p, u)
       PROVE  Result
  <2>1. \E c : c.stage # "counted" /\ call' = [call EXCEPT ![p] = c]
    <3>1. CASE Authenticate(p, u)
      <4> DEFINE c == [Idle EXCEPT !.stage = "authenticated", !.actor = u,
                                   !.as = user[u].role, !.seen = user[u]]
      <4>1. c.stage # "counted"
        BY DEF Idle
      <4>2. call' = [call EXCEPT ![p] = c]
        BY <3>1 DEF Authenticate
      <4> QED BY <4>1, <4>2
    <3>2. CASE Login(p, u)
      <4> DEFINE c == [Idle EXCEPT !.stage = "verified", !.op = "login", !.on = u]
      <4>1. c.stage # "counted"
        BY DEF Idle
      <4>2. call' = [call EXCEPT ![p] = c]
        BY <3>2 DEF Login
      <4> QED BY <4>1, <4>2
    <3> QED BY <1>11, <3>1, <3>2
  <2>2. UNCHANGED <<user, limit>>
    BY <1>11 DEF Authenticate, Login, rows
  <2> QED BY <1>10, <2>1, <2>2
<1>12. ASSUME NEW p \in Processes, NEW u \in People, NEW op \in Scripts,
              StartScript(p, op, u)
       PROVE  Result
  <2> DEFINE c == [Idle EXCEPT !.stage = "loaded", !.op = op, !.on = u, !.seen = user[u]]
  <2>1. c.stage # "counted"
    BY DEF Idle
  <2>2. call' = [call EXCEPT ![p] = c] /\ UNCHANGED <<user, limit>>
    BY <1>12 DEF StartScript, rows
  <2> HIDE DEF c
  <2> QED BY <1>10, <2>1, <2>2
<1>13. ASSUME NEW p \in Processes, NEW u \in People, NEW role \in AskedRoles,
              NEW op \in {"deactivate", "assign", "password"}, Load(p, op, u, role)
       PROVE  Result
  <2> DEFINE row == IF u = call[p].actor THEN call[p].seen ELSE user[u]
             c(x) == [call[p] EXCEPT !.stage = "loaded", !.op = op, !.on = u,
                                     !.asked = role, !.seen = x]
  <2>1. c(row).stage # "counted"
    BY <1>1 DEF Call
  <2>2. call' = [call EXCEPT ![p] = c(row)] /\ UNCHANGED <<user, limit>>
    BY <1>13 DEF Load, rows
  <2> HIDE DEF c, row
  <2> QED BY <1>10, <2>1, <2>2
<1>14. ASSUME NEW n \in Limits, ChangePlan(n) PROVE Result
  BY <1>2, <1>14 DEF ChangePlan, OrganizationFree
<1>15. ASSUME UNCHANGED vars \/ \E t \in tokens : Expire(t) PROVE Result
  BY <1>3, <1>15 DEF vars, Expire, rows
<1> QED BY <1>4, <1>6, <1>7, <1>8, <1>9, <1>11, <1>12, <1>13, <1>14, <1>15
        DEF Next, Administer, Prove, Operate, Counts

\* The row that a request found the last owner in is not given up.
LEMMA OthersStay ==
    ASSUME IInv, NEW p \in Processes, call[p].on \in Owners, ~Stale(p),
           ~IsLastOwner(p)
    PROVE  \E o \in Owners : o # call[p].on
<1> SUFFICES ASSUME Owners \subseteq {call[p].on} PROVE FALSE
  OBVIOUS
<1>1. call[p].on # Nobody
  BY Known DEF Owners, Active
<1>2. /\ call[p].seen.status = "active"
      /\ call[p].seen.role = "organization_owner"
  BY <1>1 DEF Stale, Owners, Active
<1>3. IsFiniteSet({call[p].on}) /\ Cardinality({call[p].on}) = 1
  BY FS_Singleton
<1>4. Cardinality(Owners) <= 1
  BY <1>3, FS_Subset
<1> QED BY <1>2, <1>4 DEF IsLastOwner

LEMMA OwnerStep ==
    ASSUME IInv, [Next]_vars, Owners # {}, Owners' = {}
    PROVE  \E p \in Processes : /\ call[p] # Idle /\ call'[p] = Idle
                                /\ call[p].op = "promote" \/ Stale(p)
<1>1. user \in [People -> Row] /\ call \in [Processes -> Call]
  BY Known
<1>2. ~UNCHANGED user
  BY DEF Owners, Active
<1>3. ASSUME NEW u \in People PROVE ~Adds(u)
  <2>1. Adds(u) => Owners \subseteq Owners'
    BY <1>1 DEF Adds, Owners, Active
  <2> QED BY <2>1
<1>4. ASSUME NEW p \in Processes, NEW row, user' = [user EXCEPT ![call[p].on] = row]
      PROVE  Owners = {call[p].on}
  <2>1. \A o \in Owners : o # call[p].on => o \in Owners'
    BY <1>1, <1>4 DEF Owners, Active
  <2> QED BY <2>1
<1>5. ASSUME NEW p \in Processes, NEW row, user' = [user EXCEPT ![call[p].on] = row],
             ~IsLastOwner(p)
      PROVE  Stale(p)
  BY <1>4, <1>5, OthersStay
<1>6. ASSUME NEW p \in Processes, call[p].stage = "loaded", Finish(p)
      PROVE  call[p] # Idle /\ call'[p] = Idle
  <2>1. Idle.stage = "idle"
    BY DEF Idle
  <2> QED BY <1>1, <1>6, <2>1 DEF Finish
<1>7. ASSUME NEW p \in Processes, Deactivate(p)
      PROVE  call[p] # Idle /\ call'[p] = Idle /\ Stale(p)
  <2> DEFINE row == [user[call[p].on] EXCEPT !.status = "inactive",
                                             !.version = NextVersion(p)]
  <2>1. call[p].on \in People /\ user[call[p].on] \in Row
    BY <1>7, Loaded DEF Deactivate
  <2>2. user' = [user EXCEPT ![call[p].on] = row]
    BY <1>1, <1>7, <2>1 DEF Deactivate, Row
  <2> HIDE DEF row
  <2> QED BY <1>5, <1>6, <1>7, <2>2 DEF Deactivate
<1>8. ASSUME NEW p \in Processes, AssignRole(p)
      PROVE  call[p] # Idle /\ call'[p] = Idle /\ Stale(p)
  <2> DEFINE row == [user[call[p].on] EXCEPT !.role = call[p].asked]
  <2>1. call[p].on \in People /\ user[call[p].on] \in Row
    BY <1>8, Loaded DEF AssignRole
  <2>2. user' = [user EXCEPT ![call[p].on] = row]
    BY <1>1, <1>8, <2>1 DEF AssignRole, Row
  <2>3. row.role = call[p].asked /\ row.status = user[call[p].on].status
    BY <2>1 DEF Row
  <2> HIDE DEF row
  <2>4. call[p].asked # "organization_owner"
    <3>1. call[p].on \in Owners
      BY <1>4, <2>2
    <3>2. user'[call[p].on] = row /\ row.status = "active"
      BY <1>1, <2>1, <2>2, <2>3, <3>1 DEF Owners, Active
    <3> QED BY <2>1, <2>3, <3>2 DEF Owners, Active
  <2> QED BY <1>5, <1>6, <1>8, <2>2, <2>4 DEF AssignRole
<1>9. ASSUME NEW p \in Processes PROVE ~ChangePassword(p)
  <2> DEFINE row == [user[call[p].on] EXCEPT !.version = NextVersion(p)]
  <2>1. SUFFICES ASSUME ChangePassword(p) PROVE FALSE
    OBVIOUS
  <2>2. call[p].on \in People /\ user[call[p].on] \in Row
    BY <2>1, Loaded DEF ChangePassword
  <2>3. user' = [user EXCEPT ![call[p].on] = row]
    BY <1>1, <2>1, <2>2 DEF ChangePassword, Row
  <2>4. row.role = user[call[p].on].role /\ row.status = user[call[p].on].status
    BY <2>2 DEF Row
  <2> HIDE DEF row
  <2>5. user'[call[p].on] = row /\ call[p].on \in Owners
    BY <1>1, <1>4, <2>2, <2>3
  <2> QED BY <2>4, <2>5 DEF Owners, Active
<1>10. ASSUME NEW p \in Processes, Promote(p)
       PROVE  call[p] # Idle /\ call'[p] = Idle /\ call[p].op = "promote"
  BY <1>6, <1>10 DEF Promote
<1>11. \/ \E u \in People : Adds(u)
       \/ \E p \in Processes : \/ Deactivate(p) \/ AssignRole(p)
                               \/ ChangePassword(p) \/ Promote(p)
  <2>1. ASSUME NEW p \in Processes, Counts(p) PROVE UNCHANGED user
    BY <2>1, CountForm DEF rows
  <2>2. ASSUME NEW p \in Processes, Administer(p) \/ Prove(p) \/ Operate(p) \/ Abandon(p)
        PROVE  \/ UNCHANGED user
               \/ \E u \in People : Adds(u)
               \/ Deactivate(p) \/ AssignRole(p) \/ ChangePassword(p) \/ Promote(p)
    BY <2>1, <2>2, CreateAdds DEF Administer, Counts, StopOrganization, Prove,
       Authenticate, Login, IssueToken, Operate, StartScript, Abandon, rows
  <2> QED BY <1>2, <2>2 DEF Next, ChangePlan, Expire, Load, vars, rows
<1> QED BY <1>3, <1>7, <1>8, <1>9, <1>10, <1>11

-----------------------------------------------------------------------------
LEMMA Inductive == IInv /\ [Next]_vars => IInv'
BY TypeStep, ActiveStep, Survive, TokenStep, CallKnownStep, CountStep DEF IInv

\* The strengthened invariant of the users of an organization.
THEOREM Invariance == Spec => []IInv
<1> QED BY InitIInv, Inductive, PTL DEF Spec

LEMMA Agrees == IInv => UsersAgree
<1> SUFFICES ASSUME IInv PROVE UsersAgree
  OBVIOUS
<1>1. ASSUME NEW t \in tokens, Accepted(t), ~t.current PROVE t.raced
  <2>1. t.of \in People /\ t.version \in Nat /\ t.version = user[t.of].version
    BY <1>1, Known, Constants DEF Token, Accepted
  <2> QED BY <1>1, <2>1 DEF IInv, TokenKnown
<1> QED BY <1>1 DEF IInv, UsersAgree, OldPasswordsEnd

\* No token given for an old password is accepted, unless the login that gave it
\* overlapped the change or writers of the version overlapped while it was out
\* (the auth_version of users and tokens).
THEOREM Agreement == Spec => []UsersAgree
<1> QED BY Invariance, Agrees, PTL

\* The active users grow only within the plan of the moment, for any number of
\* requests and whatever plans are assigned (UserService.create counts under the
\* lock that a change of the plan waits for).
THEOREM RoomKept == Spec => RoomIsKept
<1> DEFINE Kept == Active' \ Active # {} => Cardinality(Active') <= limit'
<1>1. IInv /\ [Next]_vars => Kept
  BY ActiveStep
<1> QED BY <1>1, Invariance, PTL DEF Spec, RoomIsKept

\* An organization loses its last owner only to a script, or to a request whose
\* target had changed since it was loaded (_is_last_active_owner).
THEOREM OwnerKept == Spec => OwnerIsKept
<1> DEFINE Kept ==
      Owners # {} /\ Owners' = {} =>
          \E p \in Processes : /\ call[p] # Idle /\ call'[p] = Idle
                               /\ call[p].op = "promote" \/ Stale(p)
<1>1. IInv /\ [Next]_vars => Kept
  BY OwnerStep
<1> QED BY <1>1, Invariance, PTL DEF Spec, OwnerIsKept

-----------------------------------------------------------------------------
(* Billing: the plan that the limits come from is the one that was paid.   *)

\* What exists only with the subscription: until the commit of its checkout a
\* row is the empty one and the provider has nothing that was paid; no handler
\* and no other operation works on it.
SubKnown ==
    /\ \A s \in Subscriptions : sub[s].status = "absent" =>
         /\ sub[s] = NoRow
         /\ remote[s].status \in {"none", "pending"} /\ remote[s].end = Never
    /\ \A h \in Handlers :
         work[h] # NoWork =>
           sub[work[h].id].status # "absent" /\ work[h].row.status # "absent"
    /\ job # NoJob =>
         IF job.op = "checkout"
         THEN sub[job.id].status = "absent" /\ job.answer = remote[job.id]
         ELSE sub[job.id].status # "absent"

\* A notification is under way or with a handler, and few are.
Counted ==
    \A s \in Subscriptions :
        /\ IsFiniteSet(Handled(s))
        /\ notices[s] + Cardinality(Handled(s)) <= MaxNotices

\* The lock of the organization has one holder.
OneLocks ==
    \A h \in Handlers : work[h].stage = "fetched" =>
        /\ job = NoJob
        /\ \A g \in Handlers : work[g].stage = "fetched" => g = h

\* The holder knows the price that the provider has: nobody else changes it.
PriceKnown ==
    /\ job # NoJob => job.answer.price = remote[job.id].price
    /\ \A h \in Handlers : work[h].stage = "fetched" =>
         work[h].answer.price = remote[work[h].id].price

\* An end that the provider does not know of is known to nobody.
EndKnown ==
    /\ \A s \in Subscriptions : remote[s].end = Never => sub[s].end = Never
    /\ job # NoJob /\ remote[job.id].end = Never => job.answer.end = Never
    /\ \A h \in Handlers :
         work[h] # NoWork /\ remote[work[h].id].end = Never =>
           /\ work[h].row.end = Never
           /\ work[h].stage = "fetched" => work[h].answer.end = Never

BillInv ==
    /\ BillingTypeOK /\ SubKnown /\ Counted
    /\ OneLocks /\ PriceKnown /\ EndKnown

-----------------------------------------------------------------------------
\* What a member of the unions of records is.
LEMMA JobShape ==
    ASSUME NEW j \in Jobs, j # NoJob
    PROVE  /\ j.op \in Ops /\ j.op # "none"
           /\ j.id \in Subscriptions /\ j.price \in 0..TopPrice
           /\ j.answer \in Remote
BY DEF Jobs, NoJob, Ops

LEMMA WorkShape ==
    ASSUME NEW w \in Works
    PROVE  /\ w # NoWork => w.id \in Subscriptions /\ w.row \in Rows
           /\ w.stage \in {"loaded", "fetched"} <=> w # NoWork
           /\ w.stage = "fetched" => w.answer \in Remote
BY DEF Works, NoWork

\* A step of the provider on s, or an answer of it, that leaves s as r.
Moved(s, r) ==
    /\ remote' \in [Subscriptions -> Remote] /\ remote'[s] = r
    /\ \A t \in Subscriptions \ {s} : remote'[t] = remote[t]
    /\ notices' \in [Subscriptions -> 0..MaxNotices]
    /\ \A t \in Subscriptions \ {s} : notices'[t] = notices[t]
    /\ \A t \in Subscriptions :
         notices'[t] + Cardinality(Handled(t)) <= MaxNotices
    /\ \/ notices'[s] = notices[s] + 1
       \/ r = remote[s] /\ notices'[s] = notices[s]

\* A change is notified, within the bound.
LEMMA BecomesForm ==
    ASSUME BillingTypeOK, Counted, NEW s \in Subscriptions,
           NEW r \in Remote,
           Becomes(s, r)
    PROVE  Moved(s, r)
<1>1. MaxNotices \in Nat
  BY BillingAssumption
<1>2. \A t \in Subscriptions : Cardinality(Handled(t)) \in Nat
  BY FS_CardinalityType DEF Counted
<1>3. \A t \in Subscriptions : notices[t] \in 0..MaxNotices
  BY DEF BillingTypeOK
<1>4. notices[s] + 1 \in 0..MaxNotices
  BY <1>1, <1>2, <1>3 DEF Becomes
<1>5. notices' = [notices EXCEPT ![s] = notices[s] + 1]
  BY DEF Becomes
<1>6. notices' \in [Subscriptions -> 0..MaxNotices]
        /\ notices'[s] = notices[s] + 1
      /\ \A t \in Subscriptions \ {s} : notices'[t] = notices[t]
  BY <1>4, <1>5 DEF BillingTypeOK
<1>7. remote' \in [Subscriptions -> Remote] /\ remote'[s] = r
      /\ \A t \in Subscriptions \ {s} : remote'[t] = remote[t]
  BY DEF Becomes, BillingTypeOK
<1>8. ASSUME NEW t \in Subscriptions
      PROVE  notices'[t] + Cardinality(Handled(t)) <= MaxNotices
  <2>1. CASE t = s
    BY <1>1, <1>2, <1>3, <1>6, <2>1 DEF Becomes
  <2>2. CASE t # s
    BY <1>6, <2>2 DEF Counted
  <2> QED
    BY <2>1, <2>2
<1> QED
  BY <1>6, <1>7, <1>8 DEF Moved

LEMMA StayForm ==
    ASSUME BillingTypeOK, Counted, NEW s \in Subscriptions, UNCHANGED <<remote,
           notices>>
    PROVE  Moved(s, remote[s])
<1>1. /\ remote' = remote /\ notices' = notices
      /\ remote \in [Subscriptions -> Remote]
      /\ notices \in [Subscriptions -> 0..MaxNotices]
  BY DEF BillingTypeOK
<1> QED
  BY <1>1 DEF Moved, Counted

LEMMA AskForm ==
    ASSUME BillingTypeOK, Counted, NEW s \in Subscriptions,
           NEW r \in Remote, Ask(s, r)
    PROVE  Moved(s, r)
BY BecomesForm, StayForm DEF Ask

\* The provider keeps the price and an end; it does nothing before the checkout
\* is committed.
LEMMA ProviderForm ==
    ASSUME BillInv, NEW s \in Subscriptions,
           ProviderStep(s)
    PROVE  /\ \E r \in Remote :
                /\ Moved(s, r) /\ r.price = remote[s].price
                /\ r.end = Never => remote[s].end = Never
           /\ sub[s].status # "absent"
           /\ UNCHANGED <<sub, assigned, job, work>>
<1> USE DEF BillInv
<1>1. remote[s] \in Remote /\ Period \in Instants /\ Period # Never
  BY BillingAssumption DEF BillingTypeOK, Instants, Never
<1>2. sub[s].status # "absent"
  BY DEF SubKnown, ProviderStep, Authorize, Renew, Pause, Resume,
     CancelRemote
<1> SUFFICES \E q \in Remote :
                /\ Moved(s, q) /\ q.price = remote[s].price
                /\ q.end = Never => remote[s].end = Never
  BY <1>2 DEF ProviderStep
<1>3. ASSUME NEW r \in Remote, Becomes(s, r), r.price = remote[s].price,
             r.end = Never => remote[s].end = Never
      PROVE  \E q \in Remote :
                /\ Moved(s, q) /\ q.price = remote[s].price
                /\ q.end = Never => remote[s].end = Never
  BY <1>3, BecomesForm
<1>4. CASE Authorize(s)
  <2> DEFINE r == [remote[s] EXCEPT !.status = "authorized", !.end = Period]
  <2>1. /\ r \in Remote /\ r.price = remote[s].price
        /\ r.end = Never => remote[s].end = Never
    BY <1>1 DEF Remote, RemoteStatuses
  <2>2. Becomes(s, r)
    BY <1>4 DEF Authorize
  <2> HIDE DEF r
  <2> QED
    BY <1>3, <2>1, <2>2
<1>5. CASE Renew(s)
  <2> DEFINE r == [remote[s] EXCEPT !.end = Period]
  <2>1. /\ r \in Remote /\ r.price = remote[s].price
        /\ r.end = Never => remote[s].end = Never
    BY <1>1 DEF Remote, RemoteStatuses
  <2>2. Becomes(s, r)
    BY <1>5 DEF Renew
  <2> HIDE DEF r
  <2> QED
    BY <1>3, <2>1, <2>2
<1>6. ASSUME NEW st \in RemoteStatuses,
             Becomes(s, [remote[s] EXCEPT !.status = st])
      PROVE  \E q \in Remote :
                /\ Moved(s, q) /\ q.price = remote[s].price
                /\ q.end = Never => remote[s].end = Never
  <2> DEFINE r == [remote[s] EXCEPT !.status = st]
  <2>1. /\ r \in Remote /\ r.price = remote[s].price
        /\ r.end = Never => remote[s].end = Never
    BY <1>1 DEF Remote
  <2>2. Becomes(s, r)
    BY <1>6
  <2> HIDE DEF r
  <2> QED
    BY <1>3, <2>1, <2>2
<1>7. CASE Pause(s)
  <2>1. Becomes(s, [remote[s] EXCEPT !.status = "paused"])
    BY <1>7 DEF Pause
  <2>2. "paused" \in RemoteStatuses
    BY DEF RemoteStatuses
  <2> QED
    BY <1>6, <2>1, <2>2
<1>8. CASE Resume(s)
  <2>1. Becomes(s, [remote[s] EXCEPT !.status = "authorized"])
    BY <1>8 DEF Resume
  <2>2. "authorized" \in RemoteStatuses
    BY DEF RemoteStatuses
  <2> QED
    BY <1>6, <2>1, <2>2
<1>9. CASE CancelRemote(s)
  <2>1. Becomes(s, [remote[s] EXCEPT !.status = "cancelled"])
    BY <1>9 DEF CancelRemote
  <2>2. "cancelled" \in RemoteStatuses
    BY DEF RemoteStatuses
  <2> QED
    BY <1>6, <2>1, <2>2
<1> QED
  BY <1>4, <1>5, <1>7, <1>8, <1>9 DEF ProviderStep

\* The operations that have the organization locked, and ask the provider.
Calls(s) ==
    \/ RequestCancellation(s) \/ Reconcile(s) \/ RunDue(s)
    \/ \E p \in Prices : Checkout(s, p) \/ Upgrade(s, p)

Called(s, r, op, p) ==
    /\ Unlocked /\ Moved(s, r)
    /\ job' = [op |-> op, id |-> s, price |-> p, answer |-> r]
    /\ IF op = "checkout"
       THEN sub[s].status = "absent" /\ r.end = Never /\ r.status = "pending"
       ELSE sub[s].status # "absent" /\ r.end = remote[s].end
    /\ UNCHANGED <<sub, assigned, work>>

\* A call leaves the end; a checkout leaves a subscription that waits.
LEMMA CallForm ==
    ASSUME BillInv, NEW s \in Subscriptions, Calls(s)
    PROVE  \E r \in Remote, op \in Ops, p \in 0..TopPrice :
             Called(s, r, op, p)
<1> USE DEF BillInv
<1> DEFINE Goal == \E r \in Remote, op \in Ops, p \in 0..TopPrice :
                      Called(s, r, op, p)
<1> SUFFICES Goal
  OBVIOUS
<1>1. /\ remote[s] \in Remote /\ sub[s] \in Rows
      /\ Prices \subseteq 0..TopPrice /\ NoPrice \in 0..TopPrice
  BY BillingAssumption DEF BillingTypeOK, Prices, NoPrice
<1>2. "checkout" \in Ops
  BY DEF Ops
<1>3. ASSUME NEW r \in Remote, Moved(s, r), NEW op \in Ops, op # "checkout",
             NEW p \in 0..TopPrice, sub[s].status # "absent",
             r.end = remote[s].end, Start(op, s, p), Unlocked
      PROVE  Goal
  <2>1. Called(s, r, op, p)
    BY <1>3 DEF Called, Start, Moved
  <2> HIDE DEF Called
  <2> QED
    BY <2>1
<1>4. ASSUME NEW p \in Prices, Checkout(s, p)
      PROVE  Goal
  <2>1. sub[s].status = "absent" /\ Unlocked
    BY <1>4 DEF Checkout
  <2>2. remote[s].status \in {"none", "pending"} /\ remote[s].end = Never
    BY <2>1 DEF SubKnown
  <2>3. Start("checkout", s, p)
    BY <1>4 DEF Checkout
  <2>4. ASSUME NEW r \in Remote, Moved(s, r), r.end = Never,
                 r.status = "pending"
        PROVE  Goal
    <3>1. Called(s, r, "checkout", p)
      BY <2>1, <2>3, <2>4 DEF Called, Start, Moved
    <3> HIDE DEF Called
    <3> QED
      BY <1>1, <1>2, <3>1
  <2>5. CASE remote[s].status = "none"
    <3> DEFINE r == [status |-> "pending", price |-> p, end |-> Never]
    <3>1. r \in Remote /\ r.end = Never /\ r.status = "pending"
      BY <1>1, BillingAssumption DEF Remote, RemoteStatuses, Instants, Never
    <3>2. Becomes(s, r)
      BY <1>4, <2>5 DEF Checkout
    <3> HIDE DEF r
    <3>3. Moved(s, r)
      BY <3>1, <3>2, BecomesForm
    <3> QED
      BY <2>4, <3>1, <3>3
  <2>6. CASE remote[s].status = "pending"
    <3>1. Moved(s, remote[s])
      BY <1>4, <2>6, StayForm DEF Checkout
    <3> QED
      BY <1>1, <2>2, <2>4, <2>6, <3>1
  <2> QED
    BY <2>2, <2>5, <2>6
<1>5. /\ Cancelled(s) \in Remote /\ Cancelled(s).end = remote[s].end
      /\ \A p \in 0..TopPrice :
           Priced(s, p) \in Remote /\ Priced(s, p).end = remote[s].end
  <2>1. Cancelled(s) \in Remote /\ Cancelled(s).end = remote[s].end
    BY <1>1 DEF Remote, RemoteStatuses, Cancelled
  <2>2. ASSUME NEW p \in 0..TopPrice
        PROVE  Priced(s, p) \in Remote /\ Priced(s, p).end = remote[s].end
    BY <1>1 DEF Remote, Priced
  <2> QED
    BY <2>1, <2>2
<1>6. IsCurrent(s) => sub[s].status # "absent"
  BY DEF IsCurrent, Current
<1>7. ASSUME NEW p \in Prices, Upgrade(s, p)
      PROVE  Goal
  <2>1. Moved(s, Priced(s, p))
    BY <1>1, <1>5, <1>7, AskForm DEF Upgrade
  <2>2. /\ Unlocked /\ sub[s].status # "absent" /\ Start("upgrade", s, p)
        /\ "upgrade" \in Ops
    BY <1>6, <1>7 DEF Upgrade, Ops
  <2> QED
    BY <1>1, <1>3, <1>5, <2>1, <2>2
<1>8. ASSUME NEW op \in {"cancel", "close"}, sub[s].status # "absent",
Unlocked,
             Ask(s, Cancelled(s)), Start(op, s, NoPrice)
      PROVE  Goal
  <2>1. Moved(s, Cancelled(s)) /\ op \in Ops /\ op # "checkout"
    BY <1>5, <1>8, AskForm DEF Ops
  <2> QED
    BY <1>1, <1>3, <1>5, <1>8, <2>1
<1>9. ASSUME RequestCancellation(s)
      PROVE  Goal
  BY <1>6, <1>8, <1>9 DEF RequestCancellation
<1>10. ASSUME ProcessDue(s), Unlocked, sub[s].status # "absent"
       PROVE  Goal
  <2>1. CASE Due(s) = "cancellation" /\ CloseDue(s)
    BY <1>8, <1>10, <2>1 DEF CloseDue
  <2>2. ASSUME NEW op \in {"announce", "promote"},
               \/ UNCHANGED <<remote, notices>>
               \/ Ask(s, Priced(s, sub[s].pending)),
               Start(op, s, sub[s].pending)
        PROVE  Goal
    <3>1. sub[s].pending \in 0..TopPrice /\ op \in Ops /\ op # "checkout"
      BY <1>1 DEF Rows, Ops
    <3>2. PICK r \in Remote : Moved(s, r) /\ r.end = remote[s].end
      BY <1>1, <1>5, <2>2, <3>1, AskForm, StayForm
    <3> QED
      BY <1>3, <1>10, <2>2, <3>1, <3>2
  <2> QED
    BY <1>10, <2>1, <2>2 DEF ProcessDue
<1>11. ASSUME RunDue(s)
       PROVE  Goal
  <2>1. sub[s].status # "absent"
    BY <1>11 DEF RunDue, Candidate, Due, SubKnown, NoRow, Never
  <2> QED
    BY <1>10, <1>11, <2>1 DEF RunDue
<1>12. ASSUME Reconcile(s)
       PROVE  Goal
  <2>1. Unlocked /\ sub[s].status # "absent"
    BY <1>6, <1>12 DEF Reconcile
  <2>2. CASE ProcessDue(s)
    BY <1>10, <2>1, <2>2
  <2>3. CASE CloseDue(s)
    BY <1>8, <2>1, <2>3 DEF CloseDue
  <2>4. CASE UNCHANGED <<remote, notices>> /\ Start("reconcile", s, NoPrice)
    <3>1. Moved(s, remote[s]) /\ "reconcile" \in Ops
      BY <2>4, StayForm DEF Ops
    <3> QED
      BY <1>1, <1>3, <2>1, <2>4, <3>1
  <2> QED
    BY <1>12, <2>2, <2>3, <2>4 DEF Reconcile
<1> QED
  BY <1>4, <1>7, <1>9, <1>11, <1>12 DEF Calls

\* What a snapshot a leaves of a row that was loaded as l: a column that the
\* snapshot does not change stays as it is.
Stored(s, l, a, preserve, x) ==
    LET e == IF preserve \/ a.end = Never THEN l.end ELSE a.end
    IN  /\ x \in Rows /\ x.status # "absent"
        /\ x.remote = IF a.status = l.remote THEN sub[s].remote ELSE a.status
        /\ x.end = IF e = l.end THEN sub[s].end ELSE e
        /\ x.price \in {sub[s].price, a.price}
        /\ \A t \in Subscriptions : sub'[t] = IF t = s THEN x ELSE sub[t]

\* The columns of a row that a snapshot sets.
LEMMA SyncedForm ==
    ASSUME NEW r \in Rows, NEW a \in Remote, NEW preserve \in BOOLEAN,
           r.status # "absent",
           TransitionAllowed(r.status, NewStatus(r, a, preserve))
    PROVE  /\ NewStatus(r, a, preserve) \in Statuses \ {"absent"}
           /\ EndAfter(r, a, preserve) \in Instants
           /\ EffectiveAt(r, a, preserve) \in Instants
           /\ Synced(r, a, preserve) \in Rows
           /\ Synced(r, a, preserve).remote = a.status
           /\ Synced(r, a, preserve).status = NewStatus(r, a, preserve)
           /\ Synced(r, a, preserve).end = EndAfter(r, a, preserve)
           /\ Synced(r, a, preserve).price = r.price
<1>1. /\ r.status \in Statuses /\ r.end \in Instants
      /\ r.scheduled \in Instants
      /\ r.cancel \in BOOLEAN /\ a.status \in RemoteStatuses
      /\ a.end \in Instants
  BY DEF Rows, Remote
<1>2. NewStatus(r, a, preserve) \in Statuses \ {"absent"}
  BY <1>1 DEF TransitionAllowed, Statuses
<1>3. EndAfter(r, a, preserve) \in Instants
  BY <1>1 DEF EndAfter
<1>4. EffectiveAt(r, a, preserve) \in Instants
  BY <1>1, <1>3 DEF EffectiveAt
<1> DEFINE later == Deferred(r, a, preserve)
           st == NewStatus(r, a, preserve)
           en == EndAfter(r, a, preserve)
           at == IF later THEN EffectiveAt(r, a, preserve) ELSE r.scheduled
           ca == r.cancel \/ later
           new == [r EXCEPT !.remote = a.status, !.status = st, !.end = en,
                            !.cancel = ca, !.scheduled = at]
<1>5. Synced(r, a, preserve) = new
  BY DEF Synced
<1>6. at \in Instants /\ ca \in BOOLEAN
  BY <1>1, <1>4
<1> HIDE DEF st, en, at, ca
<1>7. st \in Statuses /\ en \in Instants
  BY <1>2, <1>3 DEF st, en
<1>8. new \in Rows /\ new.remote = a.status /\ new.status = st /\ new.end = en
      /\ new.price = r.price
  BY <1>1, <1>6, <1>7 DEF Rows
<1> QED
  BY <1>2, <1>3, <1>4, <1>5, <1>8 DEF st, en

\* A price is applied when the snapshot confirms it, or it is the row's own.
LEMMA AppliedForm ==
    ASSUME NEW r \in Rows, NEW a \in Remote,
           NEW promote \in BOOLEAN,
           NEW preserve \in BOOLEAN, r.status # "absent",
           TransitionAllowed(r.status, NewStatus(r, a, preserve))
    PROVE  /\ Applied(r, a, promote, preserve) \in Rows
           /\ Applied(r, a, promote, preserve).remote = a.status
           /\ Applied(r, a, promote, preserve).status =
                NewStatus(r, a, preserve)
           /\ Applied(r, a, promote, preserve).end =
                EndAfter(r, a, preserve)
           /\ Applied(r, a, promote, preserve).price \in {r.price, a.price}
           /\ Target(r, a, promote, preserve) \in 0..TopPrice
<1> DEFINE x == Synced(r, a, preserve)
           target == Target(r, a, promote, preserve)
<1>1. /\ x \in Rows /\ x.remote = a.status
      /\ x.status = NewStatus(r, a, preserve)
      /\ x.end = EndAfter(r, a, preserve) /\ x.price = r.price
  BY SyncedForm
<1>2. r.price \in 0..TopPrice /\ r.pending \in 0..TopPrice
  BY DEF Rows
<1>3. NoPrice \in 0..TopPrice /\ Never \in Instants
  BY BillingAssumption DEF NoPrice, Never, Instants
<1>4. target \in 0..TopPrice
  BY <1>2, <1>3 DEF Target
<1>5. target # NoPrice => target \in {r.price, a.price}
  BY DEF Target, Confirms
<1> DEFINE y == [x EXCEPT !.price = target, !.pending = NoPrice,
                          !.scheduled = Never]
           z == [x EXCEPT !.scheduled = Never]
<1>6. Applied(r, a, promote, preserve) \in {x, z}
      \/ (Applied(r, a, promote, preserve) = y /\ target # NoPrice)
  BY DEF Applied
<1> HIDE DEF x, target
<1>7. /\ z \in Rows /\ z.remote = x.remote /\ z.status = x.status
      /\ z.end = x.end /\ z.price = x.price
  BY <1>1, <1>3 DEF Rows
<1>8. /\ y \in Rows /\ y.remote = x.remote /\ y.status = x.status
      /\ y.end = x.end /\ y.price = target
  BY <1>1, <1>3, <1>4 DEF Rows
<1> HIDE DEF y, z
<1>9. target \in 0..TopPrice
  BY <1>4
<1> QED
  BY <1>1, <1>5, <1>6, <1>7, <1>8, <1>9 DEF target

\* The flush.
LEMMA WrittenForm ==
    ASSUME BillingTypeOK, NEW s \in Subscriptions, NEW l \in Rows, NEW x \in Rows
    PROVE  /\ Written(s, l, x) \in Rows
           /\ Written(s, l, x).status
                = IF x.status = l.status THEN sub[s].status ELSE x.status
           /\ Written(s, l, x).remote
                = IF x.remote = l.remote THEN sub[s].remote ELSE x.remote
           /\ Written(s, l, x).end = IF x.end =
                l.end THEN sub[s].end ELSE x.end
           /\ Written(s, l, x).price
                = IF x.price = l.price THEN sub[s].price ELSE x.price
<1>1. sub[s] \in Rows
  BY DEF BillingTypeOK
<1>2. DOMAIN x = {"status", "remote", "price", "pending", "scheduled", "cancel",
                  "end"}
  BY DEF Rows
<1> QED
  BY <1>1, <1>2 DEF Written, Rows

LEMMA StoreForm ==
    ASSUME BillingTypeOK, NEW s \in Subscriptions,
           sub[s].status # "absent",
           NEW l \in Rows, NEW r \in Rows, NEW a \in Remote,
           NEW promote \in BOOLEAN, NEW preserve \in BOOLEAN,
           NEW at \in Instants,
           r.status # "absent", r.status = l.status, r.remote = l.remote,
           r.price = l.price, r.end = l.end,
           Store(s, l, r, a, promote, preserve, at)
    PROVE  /\ \E x \in Rows : Stored(s, l, a, preserve, x)
           /\ sub' \in [Subscriptions -> Rows] /\ assigned' \in 0..TopPrice
<1> DEFINE y == Applied(r, a, promote, preserve)
           z == IF at = Never THEN y ELSE [y EXCEPT !.scheduled = at]
           x == Written(s, l, z)
<1>1. TransitionAllowed(r.status, NewStatus(r, a, preserve))
  BY DEF Store
<1>2. /\ y \in Rows /\ y.remote = a.status
      /\ y.status = NewStatus(r, a, preserve)
      /\ y.end = EndAfter(r, a, preserve) /\ y.price \in {r.price, a.price}
      /\ Target(r, a, promote, preserve) \in 0..TopPrice
  BY <1>1, AppliedForm
<1>3. NewStatus(r, a, preserve) # "absent"
  BY <1>1, SyncedForm
<1>4. sub' = [sub EXCEPT ![s] = x]
  BY DEF Store
<1>5. assigned' \in 0..TopPrice
  <2>1. assigned' = Plan(r, a, promote, preserve)
    BY DEF Store
  <2>2. assigned \in 0..TopPrice /\ Fallback \in 0..TopPrice
    BY BillingAssumption DEF BillingTypeOK, Fallback
  <2> QED
    BY <1>2, <2>1, <2>2 DEF Plan
<1> HIDE DEF y
<1>6. /\ z \in Rows /\ z.remote = y.remote /\ z.status = y.status
      /\ z.end = y.end /\ z.price = y.price
  BY <1>2 DEF Rows
<1> HIDE DEF z
<1>7. /\ x \in Rows
      /\ x.status = IF z.status = l.status THEN sub[s].status ELSE z.status
      /\ x.remote = IF z.remote = l.remote THEN sub[s].remote ELSE z.remote
      /\ x.end = IF z.end = l.end THEN sub[s].end ELSE z.end
      /\ x.price = IF z.price = l.price THEN sub[s].price ELSE z.price
  BY <1>6, WrittenForm
<1> HIDE DEF x
<1>8. sub' \in [Subscriptions -> Rows]
      /\ \A t \in Subscriptions : sub'[t] = IF t = s THEN x ELSE sub[t]
  BY <1>4, <1>7 DEF BillingTypeOK
<1>9. Stored(s, l, a, preserve, x)
  BY <1>2, <1>3, <1>6, <1>7, <1>8 DEF Stored, EndAfter
<1> QED
  BY <1>5, <1>7, <1>8, <1>9

-----------------------------------------------------------------------------
(* Each action keeps the invariant.                                        *)

LEMMA BillInit == BillingInit => BillInv
<1> SUFFICES ASSUME BillingInit PROVE BillInv
  OBVIOUS
<1>1. BillingTypeOK
  <2>1. NoRemote \in Remote /\ NoRow \in Rows
    BY BillingAssumption DEF NoRemote, NoRow, Remote, Rows, RemoteStatuses,
       Statuses, Instants, Never, NoPrice
  <2>2. NoJob \in Jobs /\ NoWork \in Works
    BY DEF Jobs, Works
  <2> QED
    BY <2>1, <2>2, BillingAssumption DEF BillingInit, BillingTypeOK, Fallback
<1>2. SubKnown
  BY DEF BillingInit, SubKnown, NoRemote, NoRow
<1>3. Counted
  <2>1. \A s \in Subscriptions : Handled(s) = {}
    BY DEF BillingInit, Handled
  <2>2. IsFiniteSet({}) /\ Cardinality({}) = 0
    BY FS_EmptySet
  <2> QED
    BY <2>1, <2>2, BillingAssumption DEF BillingInit, Counted
<1>4. OneLocks
  BY DEF BillingInit, OneLocks, NoWork
<1>5. PriceKnown
  BY DEF BillingInit, PriceKnown, NoWork
<1>6. EndKnown
  BY DEF BillingInit, EndKnown, NoRow
<1> QED
  BY <1>1, <1>2, <1>3, <1>4, <1>5, <1>6 DEF BillInv

\* What the handlers do not change does not change what is counted.
LEMMA SameHandled ==
    ASSUME work' = work, NEW s
    PROVE  Handled(s)' = Handled(s)
BY DEF Handled

LEMMA ProviderKeeps ==
    ASSUME BillInv, NEW s \in Subscriptions,
           ProviderStep(s)
    PROVE  BillInv'
<1> USE DEF BillInv
<1>1. PICK r \in Remote :
            /\ Moved(s, r) /\ r.price = remote[s].price
            /\ r.end = Never => remote[s].end = Never
  BY ProviderForm
<1>2. sub[s].status # "absent" /\ UNCHANGED <<sub, assigned, job, work>>
  BY ProviderForm
<1>3. /\ sub' = sub /\ assigned' = assigned /\ job' = job /\ work' = work
      /\ remote'[s] = r /\ \A t \in Subscriptions \ {s} : remote'[t] = remote[t]
  BY <1>1, <1>2 DEF Moved
<1>4. BillingTypeOK'
  BY <1>1, <1>3 DEF BillingTypeOK, Moved
<1>5. /\ job # NoJob => job.id \in Subscriptions
      /\ \A h \in Handlers : work[h] # NoWork => work[h].id \in Subscriptions
      /\ \A h \in Handlers : work[h].stage = "fetched" => work[h] # NoWork
  BY JobShape, WorkShape DEF BillingTypeOK
<1>6. SubKnown'
  BY <1>2, <1>3, <1>5 DEF SubKnown
<1>7. Counted'
  BY <1>1, <1>3, SameHandled DEF Counted, Moved
<1>8. OneLocks'
  BY <1>3 DEF OneLocks
<1>9. PriceKnown'
  BY <1>1, <1>3, <1>5 DEF PriceKnown
<1>10. EndKnown'
  BY <1>1, <1>3, <1>5 DEF EndKnown
<1> QED
  BY <1>4, <1>6, <1>7, <1>8, <1>9, <1>10

LEMMA CallKeeps ==
    ASSUME BillInv, NEW s \in Subscriptions, Calls(s)
    PROVE  BillInv'
<1> USE DEF BillInv
<1>1. PICK r \in Remote, op \in Ops, p \in 0..TopPrice : Called(s, r, op, p)
  BY CallForm
<1>2. /\ Moved(s, r) /\ job = NoJob
      /\ \A h \in Handlers : work[h].stage # "fetched"
      /\ sub' = sub /\ assigned' = assigned /\ work' = work
      /\ remote'[s] = r /\ \A t \in Subscriptions \ {s} : remote'[t] = remote[t]
  BY <1>1 DEF Called, Unlocked, Moved
<1>3. /\ job' = [op |-> op, id |-> s, price |-> p, answer |-> r]
      /\ job'.op = op /\ job'.id = s /\ job'.answer = r
  BY <1>1 DEF Called
<1>4. IF op = "checkout"
      THEN sub[s].status = "absent" /\ r.end = Never /\ r.status = "pending"
      ELSE sub[s].status # "absent" /\ r.end = remote[s].end
  BY <1>1 DEF Called
<1>5. BillingTypeOK'
  <2>1. job' \in Jobs
    BY <1>3 DEF Jobs
  <2> QED
    BY <1>2, <2>1 DEF BillingTypeOK, Moved
<1>6. \A h \in Handlers : work[h] # NoWork => work[h].id \in Subscriptions
  BY WorkShape DEF BillingTypeOK
<1>7. SubKnown'
  BY <1>2, <1>3, <1>4, <1>6 DEF SubKnown
<1>8. Counted'
  BY <1>2, SameHandled DEF Counted, Moved
<1>9. OneLocks' /\ PriceKnown'
  BY <1>2, <1>3 DEF OneLocks, PriceKnown
<1>10. EndKnown'
  <2>1. ASSUME NEW t \in Subscriptions, remote'[t].end = Never
        PROVE  sub'[t].end = Never
    <3>1. CASE t = s
      <4>1. CASE op = "checkout"
        BY <1>2, <1>4, <3>1, <4>1 DEF SubKnown, NoRow
      <4>2. CASE op # "checkout"
        BY <1>2, <1>4, <2>1, <3>1, <4>2 DEF EndKnown
      <4> QED
        BY <4>1, <4>2
    <3>2. CASE t # s
      BY <1>2, <2>1, <3>2 DEF EndKnown
    <3> QED
      BY <3>1, <3>2
  <2>2. ASSUME NEW h \in Handlers, work[h] # NoWork,
               remote'[work[h].id].end = Never
        PROVE  /\ work[h].row.end = Never
               /\ work[h].stage = "fetched" => work[h].answer.end = Never
    <3>1. CASE work[h].id = s
      <4>1. op # "checkout"
        BY <1>4, <2>2, <3>1 DEF SubKnown
      <4> QED
        BY <1>2, <1>4, <2>2, <3>1, <4>1 DEF EndKnown
    <3>2. CASE work[h].id # s
      BY <1>2, <1>6, <2>2, <3>2 DEF EndKnown
    <3> QED
      BY <3>1, <3>2
  <2> QED
    BY <1>2, <1>3, <2>1, <2>2 DEF EndKnown
<1> QED
  BY <1>5, <1>7, <1>8, <1>9, <1>10

LEMMA ScheduleForm ==
    ASSUME BillingTypeOK, NEW s \in Subscriptions,
           NEW p \in Prices,
           ScheduleDowngrade(s, p)
    PROVE  /\ sub' \in [Subscriptions -> Rows]
           /\ \A t \in Subscriptions :
                /\ sub'[t].status = sub[t].status /\ sub'[t].end = sub[t].end
                /\ sub'[t].remote = sub[t].remote
                /\ sub'[t].price = sub[t].price
           /\ sub[s].status # "absent"
           /\ \A t \in Subscriptions \ {s} : sub'[t] = sub[t]
<1> DEFINE d == DueAt(sub[s].end)
           x == [sub[s] EXCEPT !.pending = p, !.scheduled = d]
<1>1. sub[s] \in Rows
  BY DEF BillingTypeOK
<1>2. d \in Instants /\ p \in 0..TopPrice
  <2>1. sub[s].end \in Instants
    BY <1>1 DEF Rows
  <2> QED
    BY <2>1, BillingAssumption DEF DueAt, Instants, Prices
<1>3. sub' = [sub EXCEPT ![s] = x] /\ sub[s].status # "absent"
  BY <1>1 DEF ScheduleDowngrade, IsCurrent, Current
<1> HIDE DEF d
<1>4. /\ x \in Rows /\ x.status = sub[s].status /\ x.end = sub[s].end
      /\ x.remote = sub[s].remote /\ x.price = sub[s].price
  BY <1>1, <1>2 DEF Rows
<1> HIDE DEF x
<1> QED
  BY <1>3, <1>4 DEF BillingTypeOK

LEMMA ScheduleKeeps ==
    ASSUME BillInv, NEW s \in Subscriptions,
           NEW p \in Prices,
           ScheduleDowngrade(s, p)
    PROVE  BillInv'
<1> USE DEF BillInv
<1>1. /\ sub' \in [Subscriptions -> Rows]
      /\ \A t \in Subscriptions :
           sub'[t].status = sub[t].status /\ sub'[t].end = sub[t].end
      /\ sub[s].status # "absent"
      /\ \A t \in Subscriptions \ {s} : sub'[t] = sub[t]
  BY ScheduleForm
<1>2. /\ remote' = remote /\ notices' = notices /\ assigned' = assigned
      /\ job' = job /\ work' = work
  BY DEF ScheduleDowngrade
<1>3. /\ job # NoJob => job.id \in Subscriptions
      /\ \A h \in Handlers : work[h] # NoWork => work[h].id \in Subscriptions
  BY JobShape, WorkShape DEF BillingTypeOK
<1>4. BillingTypeOK'
  BY <1>1, <1>2 DEF BillingTypeOK
<1>5. SubKnown'
  BY <1>1, <1>2, <1>3 DEF SubKnown
<1>6. Counted'
  BY <1>2, SameHandled DEF Counted
<1>7. OneLocks' /\ PriceKnown'
  BY <1>2 DEF OneLocks, PriceKnown
<1>8. EndKnown'
  BY <1>1, <1>2, <1>3 DEF EndKnown
<1> QED
  BY <1>4, <1>5, <1>6, <1>7, <1>8

LEMMA CheckoutForm ==
    ASSUME BillInv, CommitCheckout
    PROVE  /\ job # NoJob /\ job.id \in Subscriptions /\ job.op = "checkout"
           /\ sub[job.id] = NoRow /\ job.answer = remote[job.id]
           /\ sub' \in [Subscriptions -> Rows]
           /\ sub'[job.id].status = "pending"
           /\ sub'[job.id].remote = remote[job.id].status
           /\ sub'[job.id].end = Never /\ remote[job.id].end = Never
           /\ \A t \in Subscriptions \ {job.id} : sub'[t] = sub[t]
<1> USE DEF BillInv
<1>1. job # NoJob /\ job.op = "checkout"
  BY DEF CommitCheckout, NoJob
<1>2. job.id \in Subscriptions /\ job.price \in 0..TopPrice
        /\ job.answer \in Remote
  BY <1>1, JobShape DEF BillingTypeOK
<1>3. /\ sub[job.id] = NoRow /\ job.answer = remote[job.id]
      /\ remote[job.id].end = Never
  BY <1>1, <1>2 DEF SubKnown
<1> DEFINE x == [NoRow EXCEPT !.status = "pending", !.price = job.price,
                              !.remote = job.answer.status]
<1>4. NoRow \in Rows
  BY <1>2, <1>3 DEF BillingTypeOK
<1>5. /\ x \in Rows /\ x.status = "pending" /\ x.remote = job.answer.status
      /\ x.end = NoRow.end
  BY <1>2, <1>4 DEF Rows, Statuses, Remote
<1>6. sub' = [sub EXCEPT ![job.id] = x]
  BY DEF CommitCheckout
<1> HIDE DEF x
<1>7. NoRow.end = Never
  BY DEF NoRow
<1> QED
  BY <1>1, <1>2, <1>3, <1>5, <1>6, <1>7 DEF BillingTypeOK

LEMMA CheckoutKeeps ==
    ASSUME BillInv, CommitCheckout
    PROVE  BillInv'
<1> USE DEF BillInv
<1>1. /\ job # NoJob /\ job.id \in Subscriptions
      /\ sub[job.id] = NoRow
      /\ sub' \in [Subscriptions -> Rows] /\ sub'[job.id].status = "pending"
      /\ sub'[job.id].end = Never
      /\ \A t \in Subscriptions \ {job.id} : sub'[t] = sub[t]
  BY CheckoutForm
<1>2. /\ remote' = remote /\ notices' = notices /\ assigned' = assigned
      /\ job' = NoJob /\ work' = work
  BY DEF CommitCheckout
<1>3. \A h \in Handlers : work[h] # NoWork => work[h].id \in Subscriptions
  BY WorkShape DEF BillingTypeOK
<1>4. BillingTypeOK'
  BY <1>1, <1>2 DEF BillingTypeOK, Jobs
<1>5. SubKnown'
  BY <1>1, <1>2, <1>3 DEF SubKnown
<1>6. Counted'
  BY <1>2, SameHandled DEF Counted
<1>7. OneLocks' /\ PriceKnown'
  BY <1>2 DEF OneLocks, PriceKnown
<1>8. EndKnown'
  BY <1>1, <1>2 DEF EndKnown
<1> QED
  BY <1>4, <1>5, <1>6, <1>7, <1>8

\* An operation has what it prepared from the row, and nobody writes meanwhile.
LEMMA CommitForm ==
    ASSUME BillInv, Commit
    PROVE  /\ job # NoJob /\ job.id \in Subscriptions /\ job.op # "checkout"
           /\ sub[job.id].status # "absent"
           /\ \E x \in Rows : Stored(job.id, sub[job.id], job.answer,
                                    job.op = "announce", x)
           /\ sub' \in [Subscriptions -> Rows] /\ assigned' \in 0..TopPrice
<1> USE DEF BillInv
<1>1. job # NoJob /\ job.op # "checkout"
  BY DEF Commit, NoJob
<1>2. job.id \in Subscriptions /\ job.price \in 0..TopPrice
        /\ job.answer \in Remote
  BY <1>1, JobShape DEF BillingTypeOK
<1>3. sub[job.id].status # "absent" /\ sub[job.id] \in Rows
  BY <1>1, <1>2 DEF SubKnown, BillingTypeOK
<1> DEFINE r == Prepared(job)
           early == job.op = "announce"
           at == IF early THEN sub[job.id].end ELSE Never
<1>4. /\ r \in Rows /\ r.status = sub[job.id].status
      /\ r.remote = sub[job.id].remote /\ r.price = sub[job.id].price
      /\ r.end = sub[job.id].end
  BY <1>2, <1>3 DEF Prepared, Rows
<1>5. at \in Instants /\ early \in BOOLEAN /\ (~early) \in BOOLEAN
  <2>1. early \in BOOLEAN /\ (~early) \in BOOLEAN
    OBVIOUS
  <2>2. sub[job.id].end \in Instants /\ Never \in Instants
    BY <1>3, BillingAssumption DEF Rows, Instants, Never
  <2> HIDE DEF early
  <2> QED
    BY <2>1, <2>2
<1>6. Store(job.id, sub[job.id], r, job.answer, ~early, early, at)
  BY DEF Commit
<1> DEFINE promote == ~early
<1>7. promote \in BOOLEAN
  BY <1>5
<1>8. Store(job.id, sub[job.id], r, job.answer, promote, early, at)
  BY <1>6
<1> HIDE DEF r, early, at, promote
<1>9. /\ \E x \in Rows : Stored(job.id, sub[job.id], job.answer, early, x)
      /\ sub' \in [Subscriptions -> Rows] /\ assigned' \in 0..TopPrice
  BY <1>2, <1>3, <1>4, <1>5, <1>7, <1>8, StoreForm
<1> QED
  BY <1>1, <1>2, <1>3, <1>9 DEF early

LEMMA CommitKeeps ==
    ASSUME BillInv, Commit
    PROVE  BillInv'
<1> USE DEF BillInv
<1>1. /\ job # NoJob /\ job.id \in Subscriptions
      /\ sub[job.id].status # "absent"
      /\ sub' \in [Subscriptions -> Rows] /\ assigned' \in 0..TopPrice
  BY CommitForm
<1>2. PICK x \in Rows : Stored(job.id, sub[job.id], job.answer,
                               job.op = "announce", x)
  BY CommitForm
<1>3. /\ x.status # "absent"
      /\ \A t \in Subscriptions : sub'[t] = IF t = job.id THEN x ELSE sub[t]
      /\ x.end \in {sub[job.id].end, job.answer.end}
  BY <1>2 DEF Stored
<1>4. /\ remote' = remote /\ notices' = notices /\ job' = NoJob
      /\ work' = work
  BY DEF Commit
<1>5. \A h \in Handlers : work[h] # NoWork => work[h].id \in Subscriptions
  BY WorkShape DEF BillingTypeOK
<1>6. BillingTypeOK'
  BY <1>1, <1>4 DEF BillingTypeOK, Jobs
<1>7. SubKnown'
  BY <1>3, <1>4, <1>5 DEF SubKnown
<1>8. Counted'
  BY <1>4, SameHandled DEF Counted
<1>9. OneLocks' /\ PriceKnown'
  BY <1>4 DEF OneLocks, PriceKnown
<1>10. EndKnown'
  BY <1>1, <1>3, <1>4 DEF EndKnown
<1> QED
  BY <1>6, <1>7, <1>8, <1>9, <1>10

LEMMA AbandonKeeps ==
    ASSUME BillInv, GiveUp
    PROVE  BillInv'
<1> USE DEF BillInv
<1>1. /\ remote' = remote /\ notices' = notices /\ sub' = sub
      /\ assigned' = assigned /\ job' = NoJob /\ work' = work
  BY DEF GiveUp
<1>2. BillingTypeOK'
  BY <1>1 DEF BillingTypeOK, Jobs
<1>3. SubKnown' /\ OneLocks' /\ PriceKnown' /\ EndKnown'
  BY <1>1 DEF SubKnown, OneLocks, PriceKnown, EndKnown
<1>4. Counted'
  BY <1>1, SameHandled DEF Counted
<1> QED
  BY <1>2, <1>3, <1>4

\* One handler takes up a subscription, or lets go of it.
LEMMA HandledBy ==
    ASSUME BillingTypeOK, NEW h \in Handlers, NEW w \in Works,
           NEW t \in Subscriptions,
           work' = [work EXCEPT ![h] = w], IsFiniteSet(Handled(t))
    PROVE  /\ IsFiniteSet(Handled(t)')
           /\ Cardinality(Handled(t)) \in Nat
           /\ Cardinality(Handled(t)') \in Nat
           /\ Cardinality(Handled(t)')
                = (IF h \in Handled(t) THEN Cardinality(Handled(t)) - 1
                   ELSE Cardinality(Handled(t)))
                  + (IF w # NoWork /\ w.id = t THEN 1 ELSE 0)
<1> DEFINE H == Handled(t)
           G == H \ {h}
           N == Handled(t)'
<1>1. /\ IsFiniteSet(G) /\ Cardinality(H) \in Nat /\ Cardinality(G) \in Nat
      /\ Cardinality(G) = IF h \in H THEN Cardinality(H) - 1 ELSE Cardinality(H)
  BY FS_RemoveElement, FS_CardinalityType
<1>2. \A g \in Handlers : work'[g] = IF g = h THEN w ELSE work[g]
  BY DEF BillingTypeOK
<1>3. N = IF w # NoWork /\ w.id = t THEN G \cup {h} ELSE G
  BY <1>2 DEF Handled
<1>4. h \notin G
  OBVIOUS
<1>5. IsFiniteSet(G \cup {h}) /\ Cardinality(G \cup {h}) = Cardinality(G) + 1
  BY <1>1, <1>4, FS_AddElement
<1> HIDE DEF G, H, N
<1>6. IsFiniteSet(N) /\ Cardinality(N) \in Nat
      /\ Cardinality(N) = Cardinality(G) + (IF w # NoWork /\ w.id = t THEN 1 ELSE 0)
  BY <1>1, <1>3, <1>5
<1> QED
  BY <1>1, <1>6 DEF H, N

\* A notification is taken up, by a handler or by nobody.
LEMMA LoadForm ==
    ASSUME BillInv, NEW h \in Handlers,
           NEW s \in Subscriptions, LoadEvent(h, s)
    PROVE  /\ work[h] = NoWork /\ notices[s] > 0
           /\ remote' = remote /\ sub' = sub /\ assigned' = assigned
           /\ job' = job
           /\ notices' \in [Subscriptions -> 0..MaxNotices]
           /\ notices'[s] = notices[s] - 1
           /\ \A t \in Subscriptions \ {s} : notices'[t] = notices[t]
           /\ \/ sub[s].status = "absent" /\ work' = work
              \/ /\ sub[s].status # "absent"
                 /\ \E w \in Works :
                      /\ w # NoWork /\ w.stage = "loaded" /\ w.id = s
                      /\ w.row = sub[s] /\ work' = [work EXCEPT ![h] = w]
<1> USE DEF BillInv
<1>1. /\ work[h] = NoWork /\ notices[s] > 0 /\ notices[s] \in 0..MaxNotices
      /\ MaxNotices \in Nat
      /\ remote' = remote /\ sub' = sub /\ assigned' = assigned /\ job' = job
  BY BillingAssumption DEF LoadEvent, BillingTypeOK
<1>2. /\ notices' \in [Subscriptions -> 0..MaxNotices]
      /\ notices'[s] = notices[s] - 1
      /\ \A t \in Subscriptions \ {s} : notices'[t] = notices[t]
  <2>1. notices' = [notices EXCEPT ![s] = notices[s] - 1]
    BY DEF LoadEvent
  <2> QED
    BY <1>1, <2>1 DEF BillingTypeOK
<1> DEFINE w == [stage |-> "loaded", id |-> s, row |-> sub[s]]
<1>3. sub[s] \in Rows
  BY DEF BillingTypeOK
<1>4. w \in Works /\ w # NoWork /\ w.stage = "loaded" /\ w.id = s
        /\ w.row = sub[s]
  BY <1>3 DEF Works, NoWork
<1>5. sub[s].status # "absent" => work' = [work EXCEPT ![h] = w]
  BY DEF LoadEvent
<1>6. sub[s].status = "absent" => work' = work
  BY DEF LoadEvent
<1> HIDE DEF w
<1> QED
  BY <1>1, <1>2, <1>4, <1>5, <1>6

LEMMA LoadKeeps ==
    ASSUME BillInv, NEW h \in Handlers,
           NEW s \in Subscriptions, LoadEvent(h, s)
    PROVE  BillInv'
<1> USE DEF BillInv
<1>1. /\ work[h] = NoWork /\ notices[s] > 0
      /\ remote' = remote /\ sub' = sub /\ assigned' = assigned /\ job' = job
      /\ notices' \in [Subscriptions -> 0..MaxNotices]
      /\ notices'[s] = notices[s] - 1
      /\ \A t \in Subscriptions \ {s} : notices'[t] = notices[t]
  BY LoadForm
<1>2. MaxNotices \in Nat
        /\ \A t \in Subscriptions : notices[t] \in 0..MaxNotices
  BY BillingAssumption DEF BillingTypeOK
<1>3. \A t \in Subscriptions : Cardinality(Handled(t)) \in Nat
  BY FS_CardinalityType DEF Counted
<1>4. CASE work' = work
  <2>1. BillingTypeOK'
    BY <1>1, <1>4 DEF BillingTypeOK
  <2>2. SubKnown' /\ OneLocks' /\ PriceKnown' /\ EndKnown'
    BY <1>1, <1>4 DEF SubKnown, OneLocks, PriceKnown, EndKnown
  <2>3. ASSUME NEW t \in Subscriptions
        PROVE  /\ IsFiniteSet(Handled(t)')
               /\ notices'[t] + Cardinality(Handled(t)') <= MaxNotices
    <3>1. Handled(t)' = Handled(t)
      BY <1>4, SameHandled
    <3>2. notices'[t] <= notices[t] /\ notices'[t] \in 0..MaxNotices
      BY <1>1, <1>2
    <3> QED
      BY <1>2, <1>3, <3>1, <3>2 DEF Counted
  <2> QED
    BY <2>1, <2>2, <2>3 DEF Counted
<1>5. CASE \E w \in Works :
             /\ w # NoWork /\ w.stage = "loaded" /\ w.id = s
             /\ w.row = sub[s] /\ work' = [work EXCEPT ![h] = w]
           /\ sub[s].status # "absent"
  <2>1. sub[s].status # "absent"
    BY <1>5
  <2>2. PICK w \in Works :
             /\ w # NoWork /\ w.stage = "loaded" /\ w.id = s
             /\ w.row = sub[s] /\ work' = [work EXCEPT ![h] = w]
    BY <1>5
  <2>3. /\ work' \in [Handlers -> Works] /\ work'[h] = w
        /\ \A g \in Handlers \ {h} : work'[g] = work[g]
    BY <2>2 DEF BillingTypeOK
  <2>4. BillingTypeOK'
    BY <1>1, <2>3 DEF BillingTypeOK
  <2>5. SubKnown'
    BY <1>1, <2>1, <2>2, <2>3 DEF SubKnown
  <2>6. ASSUME NEW t \in Subscriptions
        PROVE  /\ IsFiniteSet(Handled(t)')
               /\ notices'[t] + Cardinality(Handled(t)') <= MaxNotices
    <3>1. /\ IsFiniteSet(Handled(t)')
          /\ Cardinality(Handled(t)) \in Nat
          /\ Cardinality(Handled(t)') \in Nat
          /\ Cardinality(Handled(t)')
               = (IF h \in Handled(t) THEN Cardinality(Handled(t)) - 1
                  ELSE Cardinality(Handled(t)))
                 + (IF w # NoWork /\ w.id = t THEN 1 ELSE 0)
      BY <2>2, HandledBy DEF Counted
    <3>2. notices[t] + Cardinality(Handled(t)) <= MaxNotices
      BY DEF Counted
    <3>3. h \notin Handled(t)
      BY <1>1 DEF Handled
    <3> QED
      BY <1>1, <1>2, <2>2, <3>1, <3>2, <3>3
  <2>7. OneLocks'
    BY <1>1, <2>2, <2>3 DEF OneLocks
  <2>8. PriceKnown'
    BY <1>1, <2>2, <2>3 DEF PriceKnown
  <2>9. EndKnown'
    BY <1>1, <2>2, <2>3 DEF EndKnown
  <2> QED
    BY <2>4, <2>5, <2>6, <2>7, <2>8, <2>9 DEF Counted
<1> QED
  BY <1>4, <1>5, LoadForm

LEMMA FetchForm ==
    ASSUME BillInv, NEW h \in Handlers, FetchEvent(h)
    PROVE  /\ work[h] # NoWork /\ work[h].stage = "loaded"
           /\ work[h].id \in Subscriptions
           /\ remote' = remote /\ notices' = notices /\ sub' = sub
           /\ assigned' = assigned /\ job' = job
           /\ job = NoJob /\ \A g \in Handlers : work[g].stage # "fetched"
           /\ \E w \in Works :
                /\ w # NoWork /\ w.stage = "fetched" /\ w.id = work[h].id
                /\ w.row = work[h].row /\ w.answer = remote[work[h].id]
                /\ work' = [work EXCEPT ![h] = w]
<1> USE DEF BillInv
<1>1. work[h] \in Works /\ work[h].stage = "loaded"
  BY DEF FetchEvent, BillingTypeOK
<1>2. work[h] # NoWork /\ work[h].id \in Subscriptions
        /\ work[h].row \in Rows
  BY <1>1, WorkShape
<1> DEFINE w == [stage |-> "fetched", id |-> work[h].id, row |-> work[h].row,
                 answer |-> remote[work[h].id]]
<1>3. remote[work[h].id] \in Remote
  BY <1>2 DEF BillingTypeOK
<1>4. /\ w \in Works /\ w # NoWork /\ w.stage = "fetched"
      /\ w.id = work[h].id
      /\ w.row = work[h].row /\ w.answer = remote[work[h].id]
  BY <1>2, <1>3 DEF Works, NoWork
<1>5. work' = [work EXCEPT ![h] = w]
  BY DEF FetchEvent
<1> HIDE DEF w
<1> QED
  BY <1>1, <1>2, <1>4, <1>5 DEF FetchEvent, Unlocked

LEMMA FetchKeeps ==
    ASSUME BillInv, NEW h \in Handlers, FetchEvent(h)
    PROVE  BillInv'
<1> USE DEF BillInv
<1>1. /\ work[h] # NoWork /\ work[h].id \in Subscriptions
      /\ remote' = remote /\ notices' = notices /\ sub' = sub
      /\ assigned' = assigned /\ job' = job
      /\ job = NoJob /\ \A g \in Handlers : work[g].stage # "fetched"
  BY FetchForm
<1>2. PICK w \in Works :
           /\ w # NoWork /\ w.stage = "fetched" /\ w.id = work[h].id
           /\ w.row = work[h].row /\ w.answer = remote[work[h].id]
           /\ work' = [work EXCEPT ![h] = w]
  BY FetchForm
<1>3. /\ work' \in [Handlers -> Works] /\ work'[h] = w
      /\ \A g \in Handlers \ {h} : work'[g] = work[g]
  BY <1>2 DEF BillingTypeOK
<1>4. BillingTypeOK'
  BY <1>1, <1>3 DEF BillingTypeOK
<1>5. SubKnown'
  BY <1>1, <1>2, <1>3 DEF SubKnown
<1>6. Counted'
  <2> SUFFICES ASSUME NEW t \in Subscriptions
               PROVE  /\ IsFiniteSet(Handled(t)')
                      /\ notices'[t] + Cardinality(Handled(t)') <= MaxNotices
    BY DEF Counted
  <2>1. Handled(t)' = Handled(t)
    BY <1>1, <1>2, <1>3 DEF Handled
  <2> QED
    BY <1>1, <2>1 DEF Counted
<1>7. OneLocks'
  BY <1>1, <1>3 DEF OneLocks
<1>8. PriceKnown'
  BY <1>1, <1>2, <1>3 DEF PriceKnown
<1>9. EndKnown'
  BY <1>1, <1>2, <1>3 DEF EndKnown
<1> QED
  BY <1>4, <1>5, <1>6, <1>7, <1>8, <1>9

\* A handler that is done lets go, and a failure is notified again.
LEMMA HandlerDone ==
    ASSUME BillInv, NEW h \in Handlers, work[h] # NoWork,
           work' = [work EXCEPT ![h] = NoWork],
           NEW n \in {notices[work[h].id], notices[work[h].id] + 1},
           notices' = [notices EXCEPT ![work[h].id] = n]
    PROVE  /\ work' \in [Handlers -> Works] /\ work'[h] = NoWork
           /\ \A g \in Handlers \ {h} : work'[g] = work[g]
           /\ notices' \in [Subscriptions -> 0..MaxNotices]
           /\ Counted'
<1> USE DEF BillInv
<1>1. work[h].id \in Subscriptions /\ NoWork \in Works
  BY WorkShape DEF BillingTypeOK, Works
<1>2. /\ work' \in [Handlers -> Works] /\ work'[h] = NoWork
      /\ \A g \in Handlers \ {h} : work'[g] = work[g]
  BY <1>1 DEF BillingTypeOK
<1>3. MaxNotices \in Nat
        /\ \A t \in Subscriptions : notices[t] \in 0..MaxNotices
  BY BillingAssumption DEF BillingTypeOK
<1>4. \A t \in Subscriptions :
        notices'[t] = IF t = work[h].id THEN n ELSE notices[t]
  BY <1>1 DEF BillingTypeOK
<1>5. ASSUME NEW t \in Subscriptions
      PROVE  /\ IsFiniteSet(Handled(t)') /\ Cardinality(Handled(t)') \in Nat
             /\ notices'[t] + Cardinality(Handled(t)') <= MaxNotices
  <2>1. /\ IsFiniteSet(Handled(t)')
        /\ Cardinality(Handled(t)) \in Nat
        /\ Cardinality(Handled(t)') \in Nat
        /\ Cardinality(Handled(t)')
             = (IF h \in Handled(t) THEN Cardinality(Handled(t)) - 1
                ELSE Cardinality(Handled(t)))
               + (IF NoWork # NoWork /\ NoWork.id = t THEN 1 ELSE 0)
    BY <1>1, HandledBy DEF Counted
  <2>2. notices[t] + Cardinality(Handled(t)) <= MaxNotices
    BY DEF Counted
  <2>3. h \in Handled(t) <=> t = work[h].id
    BY DEF Handled
  <2> QED
    BY <1>3, <1>4, <2>1, <2>2, <2>3
<1>6. \A t \in Subscriptions : notices'[t] \in 0..MaxNotices
  <2> SUFFICES ASSUME NEW t \in Subscriptions PROVE notices'[t] \in 0..MaxNotices
    OBVIOUS
  <2> QED
    BY <1>3, <1>4, <1>5
<1>7. notices' \in [Subscriptions -> 0..MaxNotices]
  BY <1>6 DEF BillingTypeOK
<1> QED
  BY <1>2, <1>5, <1>7 DEF Counted

LEMMA FetchedKnown ==
    ASSUME BillInv, NEW h \in Handlers, work[h].stage = "fetched"
    PROVE  /\ work[h] # NoWork /\ work[h].id \in Subscriptions
           /\ work[h].row \in Rows /\ work[h].answer \in Remote
           /\ job = NoJob /\ sub[work[h].id].status # "absent"
           /\ work[h].row.status # "absent"
<1>1. work[h] \in Works
  BY DEF BillInv, BillingTypeOK
<1> QED
  BY <1>1, WorkShape DEF BillInv, OneLocks, SubKnown

LEMMA EventForm ==
    ASSUME BillInv, NEW h \in Handlers, CommitEvent(h)
    PROVE  /\ \E x \in Rows :
                Stored(work[h].id, work[h].row, work[h].answer, FALSE, x)
           /\ sub' \in [Subscriptions -> Rows] /\ assigned' \in 0..TopPrice
<1>1. work[h].stage = "fetched" /\ BillingTypeOK
  BY DEF CommitEvent, BillInv
<1>2. Store(work[h].id, work[h].row, work[h].row, work[h].answer, TRUE, FALSE, Never)
  BY DEF CommitEvent
<1>3. Never \in Instants /\ TRUE \in BOOLEAN /\ FALSE \in BOOLEAN
  BY BillingAssumption DEF Never, Instants
<1> QED
  BY <1>1, <1>2, <1>3, FetchedKnown, StoreForm

LEMMA EventKeeps ==
    ASSUME BillInv, NEW h \in Handlers, CommitEvent(h)
    PROVE  BillInv'
<1> USE DEF BillInv
<1>1. work[h].stage = "fetched" /\ work' = [work EXCEPT ![h] = NoWork]
      /\ remote' = remote /\ notices' = notices /\ job' = job
  BY DEF CommitEvent
<1>2. /\ work[h] # NoWork /\ work[h].id \in Subscriptions
      /\ job = NoJob /\ sub[work[h].id].status # "absent"
  BY <1>1, FetchedKnown
<1>3. PICK x \in Rows : Stored(work[h].id, work[h].row, work[h].answer, FALSE, x)
  BY EventForm
<1>4. sub' \in [Subscriptions -> Rows] /\ assigned' \in 0..TopPrice
  BY EventForm
<1>5. /\ work' \in [Handlers -> Works] /\ work'[h] = NoWork
      /\ \A g \in Handlers \ {h} : work'[g] = work[g]
      /\ Counted'
  <2>1. notices' = [notices EXCEPT ![work[h].id] = notices[work[h].id]]
    BY <1>1, <1>2 DEF BillingTypeOK
  <2> QED
    BY <1>1, <1>2, <2>1, HandlerDone
<1>6. BillingTypeOK'
  BY <1>1, <1>4, <1>5 DEF BillingTypeOK
<1>7. /\ x.status # "absent"
      /\ \A t \in Subscriptions : sub'[t] = IF t = work[h].id THEN x ELSE sub[t]
  BY <1>3 DEF Stored
<1>8. \A g \in Handlers : work[g] # NoWork => work[g].id \in Subscriptions
  BY WorkShape DEF BillingTypeOK
<1>9. SubKnown'
  BY <1>1, <1>2, <1>5, <1>7, <1>8 DEF SubKnown
<1>10. NoWork.stage # "fetched"
  BY DEF NoWork
<1>11. OneLocks' /\ PriceKnown'
  BY <1>1, <1>2, <1>5, <1>10 DEF OneLocks, PriceKnown
<1>12. EndKnown'
  <2>1. x.end \in {sub[work[h].id].end, work[h].row.end, work[h].answer.end}
    BY <1>3 DEF Stored
  <2>2. remote[work[h].id].end = Never => x.end = Never
    BY <1>1, <1>2, <2>1 DEF EndKnown
  <2> QED
    BY <1>1, <1>2, <1>5, <1>7, <2>2 DEF EndKnown
<1> QED
  BY <1>5, <1>6, <1>9, <1>11, <1>12

LEMMA FailKeeps ==
    ASSUME BillInv, NEW h \in Handlers, FailEvent(h)
    PROVE  BillInv'
<1> USE DEF BillInv
<1>1. work[h].stage = "fetched" /\ work' = [work EXCEPT ![h] = NoWork]
      /\ remote' = remote /\ sub' = sub /\ assigned' = assigned /\ job' = job
      /\ notices' = [notices EXCEPT ![work[h].id] = notices[work[h].id] + 1]
  BY DEF FailEvent
<1>2. work[h] # NoWork /\ job = NoJob
  BY <1>1, FetchedKnown
<1>3. /\ work' \in [Handlers -> Works] /\ work'[h] = NoWork
      /\ \A g \in Handlers \ {h} : work'[g] = work[g]
      /\ notices' \in [Subscriptions -> 0..MaxNotices]
      /\ Counted'
  BY <1>1, <1>2, HandlerDone
<1>4. BillingTypeOK'
  BY <1>1, <1>3 DEF BillingTypeOK
<1>5. NoWork.stage # "fetched"
  BY DEF NoWork
<1>6. SubKnown' /\ EndKnown'
  BY <1>1, <1>2, <1>3, <1>5 DEF SubKnown, EndKnown
<1>7. OneLocks' /\ PriceKnown'
  BY <1>1, <1>2, <1>3, <1>5 DEF OneLocks, PriceKnown
<1> QED
  BY <1>3, <1>4, <1>6, <1>7

LEMMA LaterType ==
    ASSUME NEW t \in Instants
    PROVE  Later(t) \in Instants /\ (Later(t) = Never <=> t = Never)
BY BillingAssumption DEF Instants, Later, Never

\* Time passes between the operations.
LEMMA TickForm ==
    ASSUME BillingTypeOK, Tick
    PROVE  /\ job = NoJob /\ job' = NoJob /\ work' = work
           /\ \A h \in Handlers : work[h] = NoWork
           /\ notices' = notices /\ assigned' = assigned
           /\ remote' \in [Subscriptions -> Remote]
           /\ sub' \in [Subscriptions -> Rows]
           /\ \A s \in Subscriptions :
                /\ remote'[s].status = remote[s].status
                /\ remote'[s].end = Later(remote[s].end)
                /\ sub'[s].status = sub[s].status
                /\ sub'[s].remote = sub[s].remote
                /\ sub'[s].price = sub[s].price
                /\ sub'[s].end = Later(sub[s].end)
                /\ sub[s] = NoRow => sub'[s] = NoRow
<1>1. ASSUME NEW s \in Subscriptions
      PROVE  /\ remote'[s] \in Remote
             /\ remote'[s].status = remote[s].status
             /\ remote'[s].end = Later(remote[s].end)
  <2> DEFINE e == Later(remote[s].end)
             r == [remote[s] EXCEPT !.end = e]
  <2>1. remote[s] \in Remote
    BY DEF BillingTypeOK
  <2>2. remote[s].end \in Instants
    BY <2>1 DEF Remote
  <2>3. e \in Instants
    BY <2>2, LaterType
  <2>4. remote'[s] = r
    BY DEF Tick
  <2> HIDE DEF e
  <2>5. r \in Remote /\ r.status = remote[s].status /\ r.end = e
    BY <2>1, <2>3 DEF Remote
  <2> QED
    BY <2>4, <2>5 DEF e
<1>2. ASSUME NEW s \in Subscriptions
      PROVE  /\ sub'[s] \in Rows
             /\ sub'[s].status = sub[s].status
             /\ sub'[s].remote = sub[s].remote
             /\ sub'[s].price = sub[s].price
             /\ sub'[s].end = Later(sub[s].end)
             /\ sub[s] = NoRow => sub'[s] = NoRow
  <2> DEFINE e == Later(sub[s].end)
             d == Later(sub[s].scheduled)
             x == [sub[s] EXCEPT !.end = e, !.scheduled = d]
  <2>1. sub[s] \in Rows
    BY DEF BillingTypeOK
  <2>2. sub[s].end \in Instants /\ sub[s].scheduled \in Instants
    BY <2>1 DEF Rows
  <2>3. e \in Instants /\ d \in Instants
    BY <2>2, LaterType
  <2>4. sub'[s] = x
    BY DEF Tick
  <2>5. sub[s] = NoRow => e = Never /\ d = Never
    BY DEF NoRow, Later, Never
  <2> HIDE DEF e, d
  <2>6. x \in Rows /\ x.status = sub[s].status /\ x.end = e
        /\ x.remote = sub[s].remote /\ x.price = sub[s].price
    BY <2>1, <2>3 DEF Rows
  <2>7. sub[s] = NoRow => x = NoRow
    <3> SUFFICES ASSUME sub[s] = NoRow PROVE x = NoRow
      OBVIOUS
    <3>1. sub[s].end = e /\ sub[s].scheduled = d
      BY <2>5 DEF NoRow
    <3>2. x = sub[s]
      BY <2>1, <3>1 DEF Rows
    <3> QED
      BY <3>2
  <2> QED
    BY <2>4, <2>6, <2>7 DEF e
<1>3. remote' \in [Subscriptions -> Remote]
        /\ sub' \in [Subscriptions -> Rows]
  BY <1>1, <1>2 DEF Tick
<1> QED
  BY <1>1, <1>2, <1>3 DEF Tick

LEMMA TickKeeps ==
    ASSUME BillInv, Tick
    PROVE  BillInv'
<1> USE DEF BillInv
<1>1. /\ job = NoJob /\ job' = NoJob /\ work' = work
      /\ \A h \in Handlers : work[h] = NoWork
      /\ notices' = notices /\ assigned' = assigned
      /\ remote' \in [Subscriptions -> Remote]
      /\ sub' \in [Subscriptions -> Rows]
  BY TickForm
<1>2. \A s \in Subscriptions :
        /\ remote'[s].status = remote[s].status
        /\ remote'[s].end = Later(remote[s].end)
        /\ sub'[s].status = sub[s].status
        /\ sub'[s].end = Later(sub[s].end)
        /\ sub[s] = NoRow => sub'[s] = NoRow
  BY TickForm
<1>3. \A s \in Subscriptions : remote[s].end \in Instants
        /\ sub[s].end \in Instants
  BY DEF BillingTypeOK, Remote, Rows
<1>4. \A s \in Subscriptions :
        /\ Later(remote[s].end) = Never <=> remote[s].end = Never
        /\ Later(sub[s].end) = Never <=> sub[s].end = Never
  BY <1>3, LaterType
<1>5. BillingTypeOK'
  BY <1>1 DEF BillingTypeOK
<1>6. SubKnown'
  BY <1>1, <1>2, <1>4 DEF SubKnown
<1>7. Counted'
  BY <1>1, SameHandled DEF Counted
<1>8. OneLocks' /\ PriceKnown'
  BY <1>1 DEF OneLocks, PriceKnown, NoWork
<1>9. EndKnown'
  BY <1>1, <1>2, <1>4 DEF EndKnown
<1> QED
  BY <1>5, <1>6, <1>7, <1>8, <1>9

\* The steps, by who takes them.
LEMMA BillNext ==
    ASSUME [BillingNext]_billingVars
    PROVE  \/ UNCHANGED billingVars \/ CommitCheckout \/ Commit \/ GiveUp \/ Tick
           \/ \E s \in Subscriptions :
                \/ ProviderStep(s) \/ Calls(s)
                \/ \E p \in Prices : ScheduleDowngrade(s, p)
                \/ \E h \in Handlers : LoadEvent(h, s)
           \/ \E h \in Handlers :
                FetchEvent(h) \/ CommitEvent(h) \/ FailEvent(h)
BY DEF BillingNext, Requested, Calls

LEMMA BillStep == BillInv /\ [BillingNext]_billingVars => BillInv'
<1> SUFFICES ASSUME BillInv, [BillingNext]_billingVars PROVE BillInv'
  OBVIOUS
<1>1. CASE UNCHANGED billingVars
  <2>1. /\ remote' = remote /\ notices' = notices /\ sub' = sub
        /\ assigned' = assigned /\ job' = job /\ work' = work
    BY <1>1 DEF billingVars
  <2>2. BillingTypeOK' /\ SubKnown' /\ OneLocks' /\ PriceKnown' /\ EndKnown'
    BY <2>1 DEF BillInv, BillingTypeOK, SubKnown, OneLocks, PriceKnown, EndKnown
  <2>3. Counted'
    BY <2>1, SameHandled DEF BillInv, Counted
  <2> QED
    BY <2>2, <2>3 DEF BillInv
<1> QED
  BY <1>1, BillNext, ProviderKeeps, CallKeeps, ScheduleKeeps, CheckoutKeeps,
     CommitKeeps, AbandonKeeps, LoadKeeps, FetchKeeps, EventKeeps, FailKeeps,
     TickKeeps

\* The invariant of every specification of billing: rows, operations, handlers
\* and notifications are what the types say, the lock has one holder, and the
\* holder knows the provider's price.
THEOREM BillingInvariance == BillingSpec => []BillInv
<1>1. BillingInit => BillInv
  BY BillInit
<1>2. BillInv /\ [BillingNext]_billingVars => BillInv'
  BY BillStep
<1> QED
  BY <1>1, <1>2, PTL DEF BillingSpec

\* No row, operation or handler is in a state that the code does not know: an
\* announcement is never due before now, nor a period longer than what is paid.
THEOREM BillingTyped == BillingSpec => []BillingTypeOK
<1>1. BillInv => BillingTypeOK
  BY DEF BillInv
<1> QED
  BY <1>1, BillingInvariance, PTL

\* The price of a row changes only to the price that the provider has at that
\* moment, for any number of subscriptions, prices and handlers.
LEMMA PriceStep ==
    ASSUME BillInv, [BillingNext]_billingVars,
           NEW s \in Subscriptions,
           sub[s].price \notin {NoPrice, sub'[s].price}
    PROVE  sub'[s].price = remote[s].price
<1> USE DEF BillInv
<1>1. sub' # sub
  OBVIOUS
<1>2. CASE CommitCheckout
  <2>1. sub[job.id] = NoRow
          /\ \A t \in Subscriptions \ {job.id} : sub'[t] = sub[t]
    BY <1>2, CheckoutForm
  <2> QED
    BY <2>1 DEF NoRow
<1>3. CASE Commit
  <2>1. PICK x \in Rows : Stored(job.id, sub[job.id], job.answer,
                                 job.op = "announce", x)
    BY <1>3, CommitForm
  <2>2. job # NoJob
    BY <1>3, CommitForm
  <2> QED
    BY <2>1, <2>2 DEF Stored, PriceKnown
<1>4. ASSUME NEW h \in Handlers, CommitEvent(h)
      PROVE  sub'[s].price = remote[s].price
  <2>1. PICK x \in Rows : Stored(work[h].id, work[h].row, work[h].answer, FALSE, x)
    BY <1>4, EventForm
  <2>2. work[h].stage = "fetched"
    BY <1>4 DEF CommitEvent
  <2> QED
    BY <2>1, <2>2 DEF Stored, PriceKnown
<1>5. ASSUME NEW t \in Subscriptions, NEW p \in Prices,
               ScheduleDowngrade(t, p)
      PROVE  FALSE
  BY <1>5, ScheduleForm
<1>6. CASE Tick
  BY <1>6, TickForm
<1>7. ASSUME NEW t \in Subscriptions, Calls(t)
      PROVE  FALSE
  <2>1. PICK r \in Remote, op \in Ops, p \in 0..TopPrice :
               Called(t, r, op, p)
    BY <1>7, CallForm
  <2> QED
    BY <1>1, <2>1 DEF Called
<1>8. ASSUME NEW t \in Subscriptions, NEW h \in Handlers, LoadEvent(h, t)
      PROVE  FALSE
  BY <1>1, <1>8 DEF LoadEvent
<1>9. ASSUME NEW h \in Handlers, FetchEvent(h) \/ FailEvent(h)
      PROVE  FALSE
  BY <1>1, <1>9 DEF FetchEvent, FailEvent
<1>10. ASSUME NEW t \in Subscriptions, ProviderStep(t)
       PROVE  FALSE
  BY <1>1, <1>10 DEF ProviderStep
<1>11. CASE UNCHANGED billingVars \/ GiveUp
  BY <1>1, <1>11 DEF billingVars, GiveUp
<1> QED
  BY <1>2, <1>3, <1>4, <1>5, <1>6, <1>7, <1>8, <1>9, <1>10, <1>11, BillNext

\* PriceConfirmed of Billing: no price is given that the provider does not have,
\* whatever operations gave up after their call and whatever handlers loaded.
THEOREM BillingPrices == BillingSpec => PriceConfirmed
<1>1. BillInv /\ [BillingNext]_billingVars =>
        [\A s \in Subscriptions :
           sub[s].price \notin {NoPrice, sub'[s].price}
             => sub'[s].price = remote[s].price]_billingVars
  BY PriceStep
<1> QED
  BY <1>1, BillingInvariance, PTL DEF BillingSpec, PriceConfirmed

-----------------------------------------------------------------------------
(* With one handler, which is what the API serves at a time, the rows      *)
(* follow the provider.                                                    *)

OneHandler == \A h, g \in Handlers : h = g

JobOn(s)  == job # NoJob /\ job.id = s
NoneOn(s) == \A h \in Handlers : work[h] = NoWork \/ work[h].id # s

\* A row about which nothing is notified shows what the provider has.
RowShows(s) ==
    notices[s] = 0 /\ NoneOn(s) /\ sub[s].status # "absent" =>
        sub[s].remote = remote[s].status /\ sub[s].end = remote[s].end

\* An operation whose answer is old finds the row old, too, as long as the
\* provider made one change only: what is loaded now is told apart from it.
JobShows(s) ==
    JobOn(s) /\ NoneOn(s) /\ notices[s] <= 1 =>
        /\ sub[s].remote = remote[s].status
             => job.answer.status = remote[s].status
        /\ sub[s].end = remote[s].end => job.answer.end = remote[s].end

\* What the last notification loaded is old, or the row and the operation
\* under way have what the provider has: the flush need not write it.
WorkShows(s) ==
    \A h \in Handlers : work[h] # NoWork /\ work[h].id = s
      /\ notices[s] = 0 =>
        /\ work[h].row.remote = remote[s].status =>
             /\ sub[s].remote = remote[s].status
             /\ JobOn(s) => job.answer.status = remote[s].status
        /\ work[h].row.end = remote[s].end =>
             /\ sub[s].end = remote[s].end
             /\ JobOn(s) => job.answer.end = remote[s].end
        /\ work[h].stage = "fetched" =>
             /\ work[h].answer.status = remote[s].status
             /\ work[h].answer.end = remote[s].end

Shows(s) == RowShows(s) /\ JobShows(s) /\ WorkShows(s)
AllShow == \A s \in Subscriptions : Shows(s)

LEMMA ProviderShows ==
    ASSUME BillInv, AllShow, NEW s \in Subscriptions,
           ProviderStep(s)
    PROVE  AllShow'
<1>1. PICK r \in Remote : Moved(s, r) /\ r.price = remote[s].price
  BY ProviderForm
<1> notices[s] \in Nat
  BY BillingAssumption DEF BillInv, BillingTypeOK
<1>2. /\ sub[s].status # "absent"
      /\ sub' = sub /\ job' = job /\ work' = work
      /\ remote'[s] = r /\ \A t \in Subscriptions \ {s} : remote'[t] = remote[t]
      /\ \A t \in Subscriptions \ {s} : notices'[t] = notices[t]
      /\ \/ notices'[s] = notices[s] + 1
         \/ r = remote[s] /\ notices'[s] = notices[s]
  BY <1>1, ProviderForm DEF Moved
<1> SUFFICES ASSUME NEW t \in Subscriptions PROVE Shows(t)'
  BY DEF AllShow
<1>3. Shows(t)
  BY DEF AllShow
<1>4. CASE t # s \/ notices'[s] = notices[s]
  <2>1. remote'[t] = remote[t] /\ notices'[t] = notices[t]
    BY <1>2, <1>4
  <2> QED
    BY <1>2, <1>3, <2>1 DEF Shows, RowShows, JobShows, WorkShows, JobOn, NoneOn
<1>5. CASE t = s /\ notices'[s] = notices[s] + 1
  <2>1. notices'[t] # 0 /\ (notices'[t] <= 1 => notices[t] = 0)
    BY <1>2, <1>5
  <2>2. RowShows(t)' /\ WorkShows(t)'
    BY <2>1 DEF RowShows, WorkShows
  <2>3. JobShows(t)'
    BY <1>2, <1>3, <1>5, <2>1 DEF Shows, RowShows, JobShows, JobOn, NoneOn
  <2> QED
    BY <2>2, <2>3 DEF Shows
<1> QED
  BY <1>2, <1>4, <1>5

LEMMA CallShows ==
    ASSUME BillInv, AllShow, NEW s \in Subscriptions,
           Calls(s)
    PROVE  AllShow'
<1>1. PICK r \in Remote, op \in Ops, p \in 0..TopPrice : Called(s, r, op, p)
  BY CallForm
<1> notices[s] \in Nat
  BY BillingAssumption DEF BillInv, BillingTypeOK
<1>2. /\ job = NoJob /\ \A h \in Handlers : work[h].stage # "fetched"
      /\ sub' = sub /\ work' = work
      /\ remote'[s] = r /\ \A t \in Subscriptions \ {s} : remote'[t] = remote[t]
      /\ \A t \in Subscriptions \ {s} : notices'[t] = notices[t]
      /\ \/ notices'[s] = notices[s] + 1
         \/ r = remote[s] /\ notices'[s] = notices[s]
  BY <1>1 DEF Called, Unlocked, Moved
<1>3. job' # NoJob /\ job'.id = s /\ job'.answer = r
  BY <1>1 DEF Called, NoJob
<1> SUFFICES ASSUME NEW t \in Subscriptions PROVE Shows(t)'
  BY DEF AllShow
<1>4. Shows(t)
  BY DEF AllShow
<1>5. CASE t # s
  <2>1. remote'[t] = remote[t] /\ notices'[t] = notices[t] /\ ~JobOn(t)'
    BY <1>2, <1>3, <1>5 DEF JobOn
  <2> QED
    BY <1>2, <1>4, <2>1 DEF Shows, RowShows, JobShows, WorkShows, NoneOn
<1>6. CASE t = s
  <2>1. JobShows(t)'
    BY <1>2, <1>3, <1>6 DEF JobShows
  <2>2. RowShows(t)'
    BY <1>2, <1>4, <1>6 DEF Shows, RowShows, NoneOn
  <2>3. WorkShows(t)'
    BY <1>2, <1>3, <1>4, <1>6 DEF Shows, WorkShows
  <2> QED
    BY <2>1, <2>2, <2>3 DEF Shows
<1> QED
  BY <1>5, <1>6

LEMMA ScheduleShows ==
    ASSUME BillInv, AllShow, NEW s \in Subscriptions,
           NEW p \in Prices,
           ScheduleDowngrade(s, p)
    PROVE  AllShow'
<1>1. /\ \A t \in Subscriptions :
           /\ sub'[t].status = sub[t].status /\ sub'[t].end = sub[t].end
           /\ sub'[t].remote = sub[t].remote
      /\ remote' = remote /\ notices' = notices /\ job' = job /\ work' = work
  BY ScheduleForm DEF ScheduleDowngrade, BillInv
<1> QED
  BY <1>1 DEF AllShow, Shows, RowShows, JobShows, WorkShows, JobOn, NoneOn

LEMMA CheckoutShows ==
    ASSUME BillInv, AllShow, CommitCheckout
    PROVE  AllShow'
<1>1. /\ job # NoJob /\ job.id \in Subscriptions
      /\ sub[job.id] = NoRow
      /\ sub'[job.id].remote = remote[job.id].status
      /\ sub'[job.id].end = Never /\ remote[job.id].end = Never
      /\ \A t \in Subscriptions \ {job.id} : sub'[t] = sub[t]
  BY CheckoutForm
<1>2. remote' = remote /\ notices' = notices /\ job' = NoJob /\ work' = work
  BY DEF CommitCheckout
<1>3. NoneOn(job.id)
  BY <1>1 DEF NoneOn, NoRow, BillInv, SubKnown
<1> SUFFICES ASSUME NEW t \in Subscriptions PROVE Shows(t)'
  BY DEF AllShow
<1>4. Shows(t) /\ ~JobOn(t)'
  BY <1>2 DEF AllShow, JobOn
<1>5. CASE t # job.id
  BY <1>1, <1>2, <1>4, <1>5 DEF Shows, RowShows, JobShows, WorkShows, NoneOn
<1>6. CASE t = job.id
  BY <1>1, <1>2, <1>3, <1>4, <1>6 DEF Shows, RowShows, JobShows, WorkShows,
     NoneOn
<1> QED
  BY <1>5, <1>6

LEMMA CommitShows ==
    ASSUME BillInv, AllShow, Commit
    PROVE  AllShow'
<1>1. job # NoJob /\ job.id \in Subscriptions /\ sub[job.id].status # "absent"
  BY CommitForm
<1>2. PICK x \in Rows : Stored(job.id, sub[job.id], job.answer,
                               job.op = "announce", x)
  BY CommitForm
<1>3. /\ \A t \in Subscriptions : sub'[t] = IF t = job.id THEN x ELSE sub[t]
      /\ x.remote = job.answer.status
      /\ x.end \in {sub[job.id].end, job.answer.end}
  BY <1>2 DEF Stored
<1>4. remote' = remote /\ notices' = notices /\ job' = NoJob /\ work' = work
  BY DEF Commit
<1>5. \A h \in Handlers : work[h].stage # "fetched"
  BY <1>1 DEF BillInv, OneLocks
<1> SUFFICES ASSUME NEW t \in Subscriptions PROVE Shows(t)'
  BY DEF AllShow
<1>6. Shows(t) /\ ~JobOn(t)'
  BY <1>4 DEF AllShow, JobOn
<1>7. CASE t # job.id
  BY <1>3, <1>4, <1>6, <1>7 DEF Shows, RowShows, JobShows, WorkShows, NoneOn
<1>8. CASE t = job.id
  <2>1. JobOn(t) /\ sub'[t] = x
    BY <1>1, <1>3, <1>8 DEF JobOn
  <2>2. RowShows(t)'
    BY <1>1, <1>3, <1>4, <1>6, <1>8, <2>1 DEF Shows, RowShows, JobShows, NoneOn
  <2>3. JobShows(t)'
    BY <1>6 DEF JobShows
  <2>4. WorkShows(t)'
    BY <1>3, <1>4, <1>5, <1>6, <1>8, <2>1 DEF Shows, WorkShows
  <2> QED
    BY <2>2, <2>3, <2>4 DEF Shows
<1> QED
  BY <1>7, <1>8

LEMMA AbandonShows ==
    ASSUME BillInv, AllShow, GiveUp
    PROVE  AllShow'
<1>1. /\ remote' = remote /\ notices' = notices /\ sub' = sub
      /\ job' = NoJob /\ work' = work
  BY DEF GiveUp
<1> QED
  BY <1>1 DEF AllShow, Shows, RowShows, JobShows, WorkShows, JobOn, NoneOn

LEMMA LoadShows ==
    ASSUME OneHandler, BillInv, AllShow,
           NEW h \in Handlers, NEW s \in Subscriptions,
           LoadEvent(h, s)
    PROVE  AllShow'
<1>1. /\ work[h] = NoWork /\ notices[s] > 0 /\ notices[s] \in Nat
      /\ remote' = remote /\ sub' = sub /\ job' = job
      /\ notices'[s] = notices[s] - 1
      /\ \A t \in Subscriptions \ {s} : notices'[t] = notices[t]
  BY LoadForm, BillingAssumption DEF BillInv, BillingTypeOK
<1>2. \A g \in Handlers : g = h
  BY DEF OneHandler
<1> SUFFICES ASSUME NEW t \in Subscriptions PROVE Shows(t)'
  BY DEF AllShow
<1>3. Shows(t) /\ NoneOn(t)
  BY <1>1, <1>2 DEF AllShow, NoneOn
<1>4. CASE sub[s].status = "absent" /\ work' = work
  <2>1. CASE t # s
    BY <1>1, <1>3, <1>4, <2>1 DEF Shows, RowShows, JobShows, WorkShows, JobOn,
       NoneOn
  <2>2. CASE t = s
    <3>1. JobOn(t) => job.answer = remote[t]
      BY <1>4, <2>2 DEF BillInv, SubKnown, JobOn
    <3>2. RowShows(t)' /\ JobShows(t)'
      BY <1>1, <1>4, <2>2, <3>1 DEF RowShows, JobShows, JobOn
    <3>3. WorkShows(t)'
      BY <1>3, <1>4 DEF WorkShows, NoneOn
    <3> QED
      BY <3>2, <3>3 DEF Shows
  <2> QED
    BY <2>1, <2>2
<1>5. ASSUME NEW w \in Works, w # NoWork, w.stage = "loaded", w.id = s,
             w.row = sub[s], work' = [work EXCEPT ![h] = w]
      PROVE  Shows(t)'
  <2>1. work'[h] = w /\ \A g \in Handlers : work'[g] = w
    BY <1>2, <1>5 DEF BillInv, BillingTypeOK
  <2>2. CASE t # s
    <3>1. NoneOn(t)'
      BY <1>5, <2>1, <2>2 DEF NoneOn
    <3> QED
      BY <1>1, <1>3, <2>2, <3>1 DEF Shows, RowShows, JobShows, WorkShows,
         JobOn, NoneOn
  <2>3. CASE t = s
    <3>1. ~NoneOn(t)'
      BY <1>5, <2>1, <2>3 DEF NoneOn
    <3>2. RowShows(t)' /\ JobShows(t)'
      BY <3>1 DEF RowShows, JobShows
    <3>3. notices'[t] = 0 => notices[t] <= 1
      BY <1>1, <2>3
    <3>4. WorkShows(t)'
      BY <1>1, <1>3, <1>5, <2>1, <2>3, <3>3 DEF Shows, JobShows, WorkShows,
         JobOn
    <3> QED
      BY <3>2, <3>4 DEF Shows
  <2> QED
    BY <2>2, <2>3
<1> QED
  BY <1>4, <1>5, LoadForm

LEMMA FetchShows ==
    ASSUME BillInv, AllShow, NEW h \in Handlers, FetchEvent(h)
    PROVE  AllShow'
<1>1. /\ work[h] # NoWork /\ work[h].id \in Subscriptions
      /\ remote' = remote /\ notices' = notices /\ sub' = sub
      /\ job' = job /\ job = NoJob
  BY FetchForm
<1>2. PICK w \in Works :
           /\ w # NoWork /\ w.stage = "fetched" /\ w.id = work[h].id
           /\ w.row = work[h].row /\ w.answer = remote[work[h].id]
           /\ work' = [work EXCEPT ![h] = w]
  BY FetchForm
<1>3. work'[h] = w /\ \A g \in Handlers \ {h} : work'[g] = work[g]
  BY <1>2 DEF BillInv, BillingTypeOK
<1> SUFFICES ASSUME NEW t \in Subscriptions PROVE Shows(t)'
  BY DEF AllShow
<1>4. Shows(t) /\ ~JobOn(t)'
  BY <1>1 DEF AllShow, JobOn
<1>5. NoneOn(t)' <=> NoneOn(t)
  BY <1>1, <1>2, <1>3 DEF NoneOn
<1>6. RowShows(t)' /\ JobShows(t)'
  BY <1>1, <1>4, <1>5 DEF Shows, RowShows, JobShows
<1>7. WorkShows(t)'
  BY <1>1, <1>2, <1>3, <1>4 DEF Shows, WorkShows
<1> QED
  BY <1>6, <1>7 DEF Shows

LEMMA EventShows ==
    ASSUME OneHandler, BillInv, AllShow,
           NEW h \in Handlers, CommitEvent(h)
    PROVE  AllShow'
<1>1. work[h].stage = "fetched" /\ work' = [work EXCEPT ![h] = NoWork]
      /\ remote' = remote /\ notices' = notices /\ job' = job
  BY DEF CommitEvent
<1>2. work[h] # NoWork /\ work[h].id \in Subscriptions /\ job = NoJob
  BY <1>1, FetchedKnown
<1>3. PICK x \in Rows : Stored(work[h].id, work[h].row, work[h].answer, FALSE, x)
  BY EventForm
<1>4. \A g \in Handlers : g = h /\ work'[g] = NoWork
  BY <1>1, <1>2 DEF OneHandler, BillInv, BillingTypeOK, Works
<1> SUFFICES ASSUME NEW t \in Subscriptions PROVE Shows(t)'
  BY DEF AllShow
<1>5. Shows(t) /\ ~JobOn(t)'
  BY <1>1, <1>2 DEF AllShow, JobOn
<1>6. JobShows(t)' /\ WorkShows(t)'
  BY <1>4, <1>5 DEF JobShows, WorkShows
<1>7. CASE t # work[h].id
  <2>1. NoneOn(t) /\ sub'[t] = sub[t]
    BY <1>3, <1>4, <1>7 DEF NoneOn, Stored
  <2> QED
    BY <1>1, <1>5, <1>6, <2>1 DEF Shows, RowShows
<1>8. CASE t = work[h].id
  <2> SUFFICES ASSUME notices[t] = 0
               PROVE  sub'[t].remote = remote[t].status
                        /\ sub'[t].end = remote[t].end
    BY <1>1, <1>6 DEF Shows, RowShows
  <2>1. /\ work[h].row.remote = remote[t].status
             => sub[t].remote = remote[t].status
        /\ work[h].row.end = remote[t].end => sub[t].end = remote[t].end
        /\ work[h].answer.status = remote[t].status
        /\ work[h].answer.end = remote[t].end
    BY <1>1, <1>2, <1>5, <1>8 DEF Shows, WorkShows
  <2>2. sub'[t] = x
    BY <1>3, <1>8 DEF Stored
  <2>3. x.remote = remote[t].status
    BY <1>3, <1>8, <2>1 DEF Stored
  <2>4. remote[t].end = Never => work[h].row.end = Never
    BY <1>2, <1>8 DEF BillInv, EndKnown
  <2>5. x.end = remote[t].end
    BY <1>3, <1>8, <2>1, <2>4 DEF Stored
  <2> QED
    BY <2>2, <2>3, <2>5
<1> QED
  BY <1>7, <1>8

LEMMA FailShows ==
    ASSUME OneHandler, BillInv, AllShow,
           NEW h \in Handlers, FailEvent(h)
    PROVE  AllShow'
<1>1. work[h].stage = "fetched" /\ work' = [work EXCEPT ![h] = NoWork]
      /\ remote' = remote /\ sub' = sub /\ job' = job
      /\ notices' = [notices EXCEPT ![work[h].id] = notices[work[h].id] + 1]
  BY DEF FailEvent
<1>2. work[h] # NoWork /\ work[h].id \in Subscriptions /\ job = NoJob
  BY <1>1, FetchedKnown
<1>3. \A g \in Handlers : g = h /\ work'[g] = NoWork
  BY <1>1, <1>2 DEF OneHandler, BillInv, BillingTypeOK, Works
<1>4. /\ notices'[work[h].id] # 0
      /\ \A t \in Subscriptions \ {work[h].id} : notices'[t] = notices[t]
  BY <1>1, <1>2, BillingAssumption DEF BillInv, BillingTypeOK
<1> SUFFICES ASSUME NEW t \in Subscriptions PROVE Shows(t)'
  BY DEF AllShow
<1>5. Shows(t) /\ ~JobOn(t)'
  BY <1>1, <1>2 DEF AllShow, JobOn
<1>6. JobShows(t)' /\ WorkShows(t)'
  BY <1>3, <1>5 DEF JobShows, WorkShows
<1>7. CASE t # work[h].id
  <2>1. NoneOn(t)
    BY <1>3, <1>7 DEF NoneOn
  <2> QED
    BY <1>1, <1>4, <1>5, <1>6, <1>7, <2>1 DEF Shows, RowShows
<1>8. CASE t = work[h].id
  BY <1>4, <1>6, <1>8 DEF Shows, RowShows
<1> QED
  BY <1>7, <1>8

LEMMA TickShows ==
    ASSUME BillInv, AllShow, Tick
    PROVE  AllShow'
<1>1. /\ job' = NoJob /\ work' = work /\ notices' = notices
      /\ \A h \in Handlers : work[h] = NoWork
  BY TickForm DEF BillInv
<1>2. \A s \in Subscriptions :
        /\ remote'[s].status = remote[s].status
        /\ remote'[s].end = Later(remote[s].end)
        /\ sub'[s].status = sub[s].status
        /\ sub'[s].remote = sub[s].remote
        /\ sub'[s].end = Later(sub[s].end)
  BY TickForm DEF BillInv
<1> QED
  BY <1>1, <1>2 DEF AllShow, Shows, RowShows, JobShows, WorkShows, JobOn, NoneOn

LEMMA ShowStep ==
    ASSUME OneHandler, BillInv, AllShow, [BillingNext]_billingVars
    PROVE  AllShow'
<1>1. CASE UNCHANGED billingVars
  BY <1>1 DEF billingVars, AllShow, Shows, RowShows, JobShows, WorkShows, JobOn,
     NoneOn
<1> QED
  BY <1>1, BillNext, ProviderShows, CallShows, ScheduleShows, CheckoutShows,
     CommitShows, AbandonShows, LoadShows, FetchShows, EventShows, FailShows,
     TickShows

\* FollowsProvider of Billing, for any number of subscriptions, prices, periods
\* and notifications under way, when one handler works at a time.
THEOREM BillingFollows ==
    ASSUME OneHandler
    PROVE  BillingSpec => []FollowsProvider
<1>1. BillingInit => AllShow
  BY DEF BillingInit, AllShow, Shows, RowShows, JobShows, WorkShows, JobOn, NoRow
<1>2. BillInv /\ AllShow /\ [BillingNext]_billingVars => AllShow'
  BY ShowStep
<1>3. AllShow => FollowsProvider
  BY DEF AllShow, Shows, RowShows, NoneOn, FollowsProvider, Quiet
<1> QED
  BY <1>1, <1>2, <1>3, BillingInvariance, PTL DEF BillingSpec
===============================================================================
