-------------------------------- MODULE Users --------------------------------
(***************************************************************************)
(* The users of one organization, as UserService and AuthService keep      *)
(* them: roles, deactivation, passwords and the tokens that prove who      *)
(* asks.                                                                   *)
(*                                                                         *)
(* A request authenticates its actor and loads its target in one database  *)
(* session, and only then asks for the lock of the organization: what it   *)
(* loaded is not read again under the lock, though counts are.  The steps  *)
(* of a request that others can come between are actions of their own.     *)
(* Who commits an audit event meets the lock too: its foreign key takes a  *)
(* key-share lock of the organization's row.                               *)
(***************************************************************************)
EXTENDS Integers, FiniteSets

CONSTANTS
    People,         \* user rows that may be created
    Processes,      \* requests and scripts at a time
    Nobody,         \* no actor
    AskedRoles,     \* roles that requests ask for
    Scripts,        \* operator scripts in use, among "reset" and "promote"
    Limits,         \* max_active_users of the plans that there are
    MaxTokens,      \* bound on the tokens that are out at a time
    MaxVersion      \* bound on auth_version

ASSUME UsersAssumption ==
    /\ Nobody \notin People
    /\ AskedRoles \subseteq {"platform_admin", "organization_owner",
                             "organization_admin", "operator", "viewer"}
    /\ Scripts \subseteq {"reset", "promote"}
    /\ Limits \subseteq Nat /\ Limits # {}
    /\ MaxTokens \in Nat /\ MaxVersion \in Nat \ {0}

VARIABLES
    user,           \* table app_user
    organization,   \* organization.status
    limit,          \* max_active_users of the organization's plan
    tokens,         \* access tokens given out and not expired
    call            \* the requests under way

rows == <<user, organization, limit>>
vars == <<rows, tokens, call>>

Roles == {"platform_admin", "organization_owner", "organization_admin",
          "operator", "viewer"}

\* users.create, users.deactivate and roles.assign go to the same roles.
Administrators == {"platform_admin", "organization_owner",
                   "organization_admin"}

AssignableBy(role) ==
    CASE role = "platform_admin"     -> Roles
      [] role = "organization_owner" -> Roles \ {"platform_admin"}
      [] role = "organization_admin" -> {"organization_admin", "operator",
                                         "viewer"}
      [] OTHER                       -> {}

Row    == [status : {"absent", "active", "inactive"}, role : Roles,
           version : 0..MaxVersion]
Absent == [status |-> "absent", role |-> "viewer", version |-> 0]

\* current: the password it was given for is still the user's.  raced: given by
\* a login that a change of the password overlapped, or before two writes of the
\* user's auth_version overlapped.
Token  == [of : People, version : 1..MaxVersion, current : BOOLEAN,
           raced : BOOLEAN]

\* as: the actor's role at authentication.  seen: the row that the session has
\* loaded of on, the target; of the actor until there is one.  A request that
\* has "counted" keeps the lock of the organization until it commits.
Call == [stage : {"idle", "authenticated", "loaded", "counted", "verified"},
         op : {"none", "create", "deactivate", "assign", "password", "login"}
              \cup Scripts,
         actor : People \cup {Nobody}, as : Roles, on : People \cup {Nobody},
         asked : Roles, seen : Row, current : BOOLEAN]
Idle == [stage |-> "idle", op |-> "none", actor |-> Nobody, as |-> "viewer",
         on |-> Nobody, asked |-> "viewer", seen |-> Absent, current |-> TRUE]

TypeOK ==
    /\ user \in [People -> Row]
    /\ organization \in {"active", "inactive"} /\ limit \in Limits
    /\ tokens \subseteq Token
    /\ call \in [Processes -> Call]

Init ==
    /\ user = [u \in People |-> Absent]
    /\ organization = "active" /\ limit \in Limits
    /\ tokens = {}
    /\ call = [p \in Processes |-> Idle]

-----------------------------------------------------------------------------

Active == {u \in People : user[u].status = "active"}
Owners == {u \in Active : user[u].role = "organization_owner"}

\* login and authenticate_token: a platform admin needs no active organization.
Available(u) ==
    /\ user[u].status = "active"
    /\ user[u].role = "platform_admin" \/ organization = "active"

Accepted(t) == Available(t.of) /\ t.version = user[t.of].version

\* Nobody has the organization's row for update.
OrganizationFree == \A p \in Processes : call[p].stage # "counted"

Finish(p) == call' = [call EXCEPT ![p] = Idle]

\* The row that p has loaded is no longer the row.
Stale(p) == call[p].on # Nobody /\ call[p].seen # user[call[p].on]

-----------------------------------------------------------------------------
(* authenticate_token, then the load of the target; the session returns    *)
(* the row of the actor as it was when it authenticated.                   *)

Authenticate(p, a) ==
    /\ call[p] = Idle
    /\ \E t \in tokens : t.of = a /\ Accepted(t)
    /\ call' = [call EXCEPT ![p] =
                   [Idle EXCEPT !.stage = "authenticated", !.actor = a,
                                !.as = user[a].role, !.seen = user[a]]]
    /\ UNCHANGED <<rows, tokens>>

Load(p, op, u, role) ==
    LET row == IF u = call[p].actor THEN call[p].seen ELSE user[u] IN
    /\ call[p].stage = "authenticated" /\ user[u].status # "absent"
    /\ op = "password" => u = call[p].actor
    /\ op # "password" => call[p].as \in Administrators
    /\ IF op = "assign" THEN role \in AssignableBy(call[p].as)
                        ELSE role = "viewer"
    /\ call' = [call EXCEPT
          ![p] = [call[p] EXCEPT !.stage = "loaded", !.op = op, !.on = u,
                                 !.asked = role, !.seen = row]]
    /\ UNCHANGED <<rows, tokens>>

-----------------------------------------------------------------------------
(* The plan and the creation of users.                                     *)

\* The platform assigns another plan, or billing does, under the lock of the
\* organization: no plan is too small for the users that there are.
ChangePlan(n) ==
    /\ OrganizationFree
    /\ limit' = n
    /\ UNCHANGED <<user, organization, tokens, call>>

HasRoom == Cardinality(Active) < limit

\* Mutant: what the plan has left is counted without the lock.
CountUnlocked(p, u, role) ==
    /\ HasRoom /\ user[u].status = "absent"
    /\ call' = [call EXCEPT ![p] =
                   [Idle EXCEPT !.stage = "counted", !.op = "create", !.on = u,
                                !.asked = role]]
    /\ UNCHANGED <<rows, tokens>>

\* create: the lock of the organization, the room that its plan has left and
\* the email that nobody has; the lock stays until the commit.
Count(p, u, role) ==
    /\ OrganizationFree /\ HasRoom /\ user[u].status = "absent"
    /\ call' = [call EXCEPT ![p] =
                   [Idle EXCEPT !.stage = "counted", !.op = "create", !.on = u,
                                !.asked = role]]
    /\ UNCHANGED <<rows, tokens>>

\* Without an actor only the first user can be created, as an owner.
Bootstrap(p, u) ==
    /\ call[p] = Idle /\ organization = "active"
    /\ \A v \in People : user[v].status = "absent"
    /\ Count(p, u, "organization_owner")

\* The organization was loaded at authentication, unless a platform admin
\* asks: the lock does not read its status again.
AskCreate(p, u, role) ==
    /\ call[p].stage = "authenticated" /\ call[p].as \in Administrators
    /\ role = "viewer" \/ role \in AssignableBy(call[p].as)
    /\ call[p].as = "platform_admin" => organization = "active"
    /\ Count(p, u, role)

Create(p) ==
    /\ call[p].stage = "counted"
    /\ user' = [user EXCEPT ![call[p].on] =
                   [status |-> "active", role |-> call[p].asked, version |-> 1]]
    /\ Finish(p)
    /\ UNCHANGED <<organization, limit, tokens>>

-----------------------------------------------------------------------------
(* Requests about users: the rest is one transaction under the lock of the *)
(* organization.                                                           *)

\* Mutant: the owner that asks is not counted.
IsLastOwnerOffByOne(p) ==
    /\ call[p].seen.status = "active"
    /\ call[p].seen.role = "organization_owner"
    /\ Cardinality(Owners) < 1

\* _is_last_active_owner: the row as loaded, the count as it is.
IsLastOwner(p) ==
    /\ call[p].seen.status = "active"
    /\ call[p].seen.role = "organization_owner"
    /\ Cardinality(Owners) <= 1

\* Mutant: the tokens of a user are not told apart by passwords.
NextVersionKept(p) ==
    IF call[p].op \in {"password", "reset"} THEN call[p].seen.version
                                           ELSE call[p].seen.version + 1

\* Every writer of auth_version writes the version it loaded plus one.
NextVersion(p) == call[p].seen.version + 1
Overlapped(p)  == call[p].seen.version # user[call[p].on].version

\* What a write of auth_version, and of the password, makes of the tokens.
Marked(p, changed) ==
    {IF t.of # call[p].on THEN t
     ELSE [t EXCEPT !.current = @ /\ ~changed,
                    !.raced = @ \/ Overlapped(p)] : t \in tokens}

Deactivate(p) ==
    /\ call[p].stage = "loaded" /\ call[p].op = "deactivate"
    /\ OrganizationFree /\ ~IsLastOwner(p)
    /\ call[p].seen.status # "inactive" /\ NextVersion(p) <= MaxVersion
    /\ user' = [user EXCEPT ![call[p].on].status = "inactive",
                            ![call[p].on].version = NextVersion(p)]
    /\ tokens' = Marked(p, FALSE)
    /\ Finish(p)
    /\ UNCHANGED <<organization, limit>>

\* A role equal to the one loaded is not written.
AssignRole(p) ==
    /\ call[p].stage = "loaded" /\ call[p].op = "assign"
    /\ OrganizationFree
    /\ call[p].actor = call[p].on => call[p].asked = call[p].as
    /\ call[p].asked # "organization_owner" => ~IsLastOwner(p)
    /\ call[p].asked # call[p].seen.role
    /\ user' = [user EXCEPT ![call[p].on].role = call[p].asked]
    /\ Finish(p)
    /\ UNCHANGED <<organization, limit, tokens>>

\* Owners and platform admins.  Nobody ever starts an organization again.
StopOrganization(p) ==
    /\ call[p].stage = "authenticated"
    /\ call[p].as \in {"platform_admin", "organization_owner"}
    /\ OrganizationFree /\ organization = "active"
    /\ organization' = "inactive"
    /\ Finish(p)
    /\ UNCHANGED <<user, limit, tokens>>

\* What is refused, fails or has nothing to write ends so; a crash too.
Abandon(p) ==
    /\ call[p] # Idle
    /\ Finish(p)
    /\ UNCHANGED <<rows, tokens>>

-----------------------------------------------------------------------------
(* Passwords and tokens: no lock but that of an audit event.               *)

\* change_password, and the script reset_user_password.
ChangePassword(p) ==
    LET u == call[p].on
    IN  /\ call[p].stage = "loaded" /\ call[p].op \in {"password", "reset"}
        /\ OrganizationFree /\ NextVersion(p) <= MaxVersion
        /\ user' = [user EXCEPT ![u].version = NextVersion(p)]
        /\ tokens' = Marked(p, TRUE)
        /\ call' = [q \in Processes |->
              IF q = p THEN Idle
              ELSE [call[q] EXCEPT !.current = @ /\ ~(call[q].op = "login"
                                                      /\ call[q].on = u)]]
        /\ UNCHANGED <<organization, limit>>

Login(p, u) ==
    /\ call[p] = Idle /\ Available(u)
    /\ call' = [call EXCEPT ![p] = [Idle EXCEPT !.stage = "verified",
                                                !.op = "login", !.on = u]]
    /\ UNCHANGED <<rows, tokens>>

\* record_login refreshes the row after its commit: the token has the version
\* of that moment.
IssueToken(p) ==
    LET u == call[p].on
    IN  /\ call[p].stage = "verified" /\ Cardinality(tokens) < MaxTokens
        /\ tokens' = tokens \cup {[of |-> u, version |-> user[u].version,
                                   current |-> call[p].current,
                                   raced |-> ~call[p].current]}
        /\ Finish(p)
        /\ UNCHANGED rows

Expire(t) ==
    /\ tokens' = tokens \ {t}
    /\ UNCHANGED <<rows, call>>

\* The scripts of an operator, without a token.
StartScript(p, op, u) ==
    /\ call[p] = Idle /\ op \in Scripts
    /\ user[u].status = "active"
    /\ op = "promote" => user[u].role # "platform_admin"
    /\ call' = [call EXCEPT ![p] = [Idle EXCEPT !.stage = "loaded", !.op = op,
                                                !.on = u, !.seen = user[u]]]
    /\ UNCHANGED <<rows, tokens>>

Promote(p) ==
    /\ call[p].stage = "loaded" /\ call[p].op = "promote"
    /\ OrganizationFree /\ NextVersion(p) <= MaxVersion
    /\ user' = [user EXCEPT ![call[p].on].role = "platform_admin",
                            ![call[p].on].version = NextVersion(p)]
    /\ tokens' = Marked(p, FALSE)
    /\ Finish(p)
    /\ UNCHANGED <<organization, limit>>

-----------------------------------------------------------------------------

Administer(p) ==
    \/ \E u \in People :
          Bootstrap(p, u) \/ \E role \in AskedRoles : AskCreate(p, u, role)
    \/ Create(p) \/ Deactivate(p) \/ AssignRole(p) \/ StopOrganization(p)

Prove(p) ==
    \/ \E a \in People : Authenticate(p, a) \/ Login(p, a)
    \/ IssueToken(p) \/ ChangePassword(p)

Operate(p) ==
    \/ \E u \in People : \E op \in Scripts : StartScript(p, op, u)
    \/ Promote(p)

Next ==
    \/ \E n \in Limits \ {limit} : ChangePlan(n)
    \/ \E t \in tokens : Expire(t)
    \/ \E p \in Processes :
          \/ \E u \in People : \E op \in {"deactivate", "assign", "password"} :
                \E role \in AskedRoles : Load(p, op, u, role)
          \/ Administer(p) \/ Prove(p) \/ Operate(p) \/ Abandon(p)

Spec == Init /\ [][Next]_vars

-----------------------------------------------------------------------------

\* A token that was given for an older password is accepted only when a login
\* with that password overlapped its change, or two writes of auth_version
\* overlapped while the token was out.  Tokens given after that end as they
\* should, although versions were lost or went back.
OldPasswordsEnd == \A t \in tokens : Accepted(t) /\ ~t.current => t.raced

UsersAgree == TypeOK /\ OldPasswordsEnd

\* The active users grow only within the plan of that moment, whatever requests
\* overlap and however often the plan is lowered below them and raised again.
RoomIsKept == [][Active' \ Active # {} => Cardinality(Active') <= limit']_vars

\* Two owners cannot both go: the last one is lost only to a script, or to a
\* request whose target had changed since it was loaded.
OwnerIsKept ==
    [][Owners # {} /\ Owners' = {} =>
          \E p \in Processes : /\ call[p] # Idle /\ call'[p] = Idle
                               /\ call[p].op = "promote" \/ Stale(p)]_vars
=============================================================================
