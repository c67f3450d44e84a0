----------------------------- MODULE Integration -----------------------------
(***************************************************************************)
(* The connections to Google Calendar of one organization, as              *)
(* IntegrationManagementService keeps them: lifecycle, credentials, OAuth  *)
(* states and health checks, with calls of Google in the middle of         *)
(* transactions.                                                           *)
(*                                                                         *)
(* A request that keeps a lock during a call is several steps; the others  *)
(* are one.  A health check and a change of the credentials lock the       *)
(* connection and then the credential; the callback of OAuth commits once  *)
(* before its call, locks the credential after it, and meets the lock of   *)
(* the connection only when it commits.  Refresh tokens are numbers in the *)
(* order in which Google gave them out; 0 is none.                         *)
(***************************************************************************)
EXTENDS Integers, FiniteSets

CONSTANTS
    Connections, Requests,
    States,         \* the nonces that start_google_oauth may draw
    NoConnection, NoState,
    MaxTokens,      \* bound on the refresh tokens that Google gives out
    MaxVersion      \* bound on functional changes

ASSUME IntegrationAssumption ==
    /\ NoConnection \notin Connections /\ NoState \notin States
    /\ MaxTokens \in Nat /\ MaxVersion \in Nat \ {0}

VARIABLES
    conn,       \* table integration_connection
    credential, \* table integration_credential
    history,    \* the newest row of integration_health_check, by connection
    state,      \* table integration_oauth_state
    request,    \* the requests under way
    minted,     \* the tokens given out so far
    exchanges   \* how often a code was exchanged under a state

rows     == <<conn, credential, history, state>>
connVars == <<rows, request, minted, exchanges>>

Statuses == {"absent", "draft", "active", "inactive", "archived"}
Failures == {"auth_error", "unreachable", "degraded"}
Healths  == {"unknown", "healthy"} \cup Failures
Tokens   == 0..MaxTokens

Absent   == [status |-> "absent", version |-> 0, health |-> "unknown"]
NoRow    == [for |-> NoConnection, consumed |-> FALSE, expired |-> FALSE]

\* starting: start_google_oauth has read the connection.  consumed, exchanged,
\* storing: the callback.  checking, checked: check_health.  rotating:
\* update_credentials.
Locking  == {"checking", "checked", "rotating"}
Callback == {"consumed", "exchanged", "storing"}

NoRequest == [stage |-> "idle", on |-> NoConnection, under |-> NoState,
              source |-> 0, token |-> 0, loaded |-> "unknown",
              found |-> "unknown", held |-> FALSE]

ConnTypeOK ==
    /\ conn \in [Connections -> [status : Statuses, version : 0..MaxVersion,
                                 health : Healths]]
    /\ credential \in [Connections -> Tokens]
    /\ history \in [Connections -> Healths]
    /\ state \in [States -> [for : Connections \cup {NoConnection},
                             consumed : BOOLEAN, expired : BOOLEAN]]
    /\ request \in [Requests ->
          [stage : {"idle", "starting"} \cup Locking \cup Callback,
           on : Connections \cup {NoConnection}, under : States \cup {NoState},
           source : Tokens, token : Tokens, loaded : Healths, found : Healths,
           held : BOOLEAN]]
    /\ minted \in Tokens
    /\ exchanges \in [States -> Nat]

ConnInit ==
    /\ conn = [c \in Connections |-> Absent]
    /\ credential = [c \in Connections |-> 0]
    /\ history = [c \in Connections |-> "unknown"]
    /\ state = [s \in States |-> NoRow]
    /\ request = [p \in Requests |-> NoRequest]
    /\ minted = 0
    /\ exchanges = [s \in States |-> 0]

-----------------------------------------------------------------------------
(* Locks are those of the requests that keep them.                         *)

ConnectionFree(c) ==
    \A p \in Requests : ~(request[p].on = c /\ request[p].stage \in Locking)

CredentialFree(c) ==
    \A p \in Requests : ~(request[p].on = c /\ request[p].held)

Known(c) == conn[c].status # "absent"

BeginRequest(p, stage, c, token) ==
    request' = [request EXCEPT ![p] = [NoRequest EXCEPT !.stage = stage, !.on = c,
                                             !.token = token]]
EndRequest(p) == request' = [request EXCEPT ![p] = NoRequest]

\* A token that the provider, or a person, brings.
Mint == minted < MaxTokens /\ minted' = minted + 1

-----------------------------------------------------------------------------
(* Requests that are one transaction under the lock of the connection.     *)

\* The plan's limit is checked under the lock of the organization.
Create(c) ==
    /\ ~Known(c)
    /\ conn' = [conn EXCEPT ![c] =
                  [Absent EXCEPT !.status = "draft", !.version = 1]]
    /\ UNCHANGED <<credential, history, state, request, minted, exchanges>>

\* A change of bot, capabilities or configuration: not while it is active.
Update(c) ==
    /\ conn[c].status \in {"draft", "inactive"} /\ ConnectionFree(c)
    /\ conn[c].version < MaxVersion
    /\ conn' = [conn EXCEPT ![c].version = @ + 1]
    /\ UNCHANGED <<credential, history, state, request, minted, exchanges>>

AllowedFrom(to) ==
    CASE to = "active"   -> {"draft", "inactive"}
      [] to = "inactive" -> {"active"}
      [] to = "archived" -> {"draft", "active", "inactive"}

Transition(c, to) ==
    /\ conn[c].status \in AllowedFrom(to) /\ ConnectionFree(c)
    /\ to = "active" => credential[c] # 0
    /\ conn' = [conn EXCEPT ![c].status = to]
    /\ UNCHANGED <<credential, history, state, request, minted, exchanges>>

-----------------------------------------------------------------------------
(* update_credentials.                                                     *)

StartCredentials(p, c) ==
    /\ request[p] = NoRequest /\ Known(c)
    /\ ConnectionFree(c) /\ conn[c].status # "archived"
    /\ Mint
    /\ BeginRequest(p, "rotating", c, minted + 1)
    /\ UNCHANGED <<rows, exchanges>>

\* _store_refresh_token locks the credential that there is.
FinishCredentials(p) ==
    LET c == request[p].on
    IN  /\ request[p].stage = "rotating" /\ CredentialFree(c)
        /\ credential' = [credential EXCEPT ![c] = request[p].token]
        /\ EndRequest(p)
        /\ UNCHANGED <<conn, history, state, minted, exchanges>>

-----------------------------------------------------------------------------
(* check_health: the connection stays locked during the calls.             *)

StartHealth(p, c) ==
    /\ request[p] = NoRequest
    /\ ConnectionFree(c) /\ conn[c].status = "active"
    /\ request' = [request EXCEPT ![p] =
                     [NoRequest EXCEPT !.stage = "checking", !.on = c,
                                       !.source = credential[c]]]
    /\ UNCHANGED <<rows, minted, exchanges>>

Checked(p, health, token) ==
    /\ request[p].stage = "checking"
    /\ request' = [request EXCEPT ![p].stage = "checked", ![p].found = health,
                            ![p].token = token]
    /\ UNCHANGED <<rows, exchanges>>

\* What get_health returns or raises; the refresh token may be rotated.
ProbeFails(p)   == \E h \in Failures : Checked(p, h, 0) /\ UNCHANGED minted
ProbeHealthy(p) ==
    request[p].source # 0 /\ Checked(p, "healthy", 0) /\ UNCHANGED minted
ProbeRotates(p) ==
    request[p].source # 0 /\ Mint /\ Checked(p, "healthy", minted + 1)

FinishHealth(p) ==
    LET c == request[p].on
    IN  /\ request[p].stage = "checked"
        /\ request[p].token # 0 => CredentialFree(c)
        /\ credential' = IF request[p].token = 0 THEN credential
                         ELSE [credential EXCEPT ![c] = request[p].token]
        /\ conn' = [conn EXCEPT ![c].health = request[p].found]
        /\ history' = [history EXCEPT ![c] = request[p].found]
        /\ EndRequest(p)
        /\ UNCHANGED <<state, minted, exchanges>>

-----------------------------------------------------------------------------
(* OAuth.                                                                  *)

StartOAuth(p, c) ==
    /\ request[p] = NoRequest
    /\ Known(c) /\ conn[c].status # "archived"
    /\ BeginRequest(p, "starting", c, 0)
    /\ UNCHANGED <<rows, minted, exchanges>>

\* The foreign key of the new row waits for the lock of the connection.
IssueState(p, s) ==
    /\ request[p].stage = "starting" /\ ConnectionFree(request[p].on)
    /\ state[s] = NoRow
    /\ state' = [state EXCEPT ![s].for = request[p].on]
    /\ EndRequest(p)
    /\ UNCHANGED <<conn, credential, history, minted, exchanges>>

Expire(s) ==
    /\ state[s].for # NoConnection /\ ~state[s].expired
    /\ state' = [state EXCEPT ![s].expired = TRUE]
    /\ UNCHANGED <<conn, credential, history, request, minted, exchanges>>

\* Mutant: the state is consumed with the last commit, after the exchange.
ConsumeLate(p, s) ==
    /\ request[p] = NoRequest
    /\ state[s].for # NoConnection /\ ~state[s].consumed /\ ~state[s].expired
    /\ LET c == state[s].for
       IN  /\ ConnectionFree(c) /\ conn[c].status # "archived"
           /\ request' = [request EXCEPT ![p] =
                [NoRequest EXCEPT !.stage = "consumed", !.on = c, !.under = s,
                             !.loaded = conn[c].health]]
    /\ UNCHANGED <<rows, minted, exchanges>>

\* Mutant: an archived connection can still be connected.
ConsumeArchived(p, s) ==
    /\ request[p] = NoRequest
    /\ state[s].for # NoConnection /\ ~state[s].consumed /\ ~state[s].expired
    /\ LET c == state[s].for
       IN  /\ ConnectionFree(c)
           /\ state' = [state EXCEPT ![s].consumed = TRUE]
           /\ request' = [request EXCEPT ![p] =
                [NoRequest EXCEPT !.stage = "consumed", !.on = c, !.under = s,
                             !.loaded = conn[c].health]]
    /\ UNCHANGED <<conn, credential, history, minted, exchanges>>

\* The first transaction of the callback, under the locks of state and
\* connection; then the session loads the connection again.
Consume(p, s) ==
    /\ request[p] = NoRequest
    /\ state[s].for # NoConnection /\ ~state[s].consumed /\ ~state[s].expired
    /\ LET c == state[s].for
       IN  /\ ConnectionFree(c) /\ conn[c].status # "archived"
           /\ state' = [state EXCEPT ![s].consumed = TRUE]
           /\ request' = [request EXCEPT ![p] =
                [NoRequest EXCEPT !.stage = "consumed", !.on = c, !.under = s,
                             !.loaded = conn[c].health]]
    /\ UNCHANGED <<conn, credential, history, minted, exchanges>>

Exchanged(p) ==
    /\ request[p].stage = "consumed"
    /\ exchanges' = [exchanges EXCEPT ![request[p].under] = @ + 1]
    /\ UNCHANGED rows

\* Google takes the code; it may leave out the refresh token, or refuse.
ExchangeBrings(p) ==
    /\ Exchanged(p) /\ Mint
    /\ request' = [request EXCEPT ![p].stage = "exchanged", ![p].token = minted + 1]
ExchangeOmits(p) ==
    /\ Exchanged(p) /\ UNCHANGED minted
    /\ request' = [request EXCEPT ![p].stage = "exchanged"]
ExchangeFails(p) == Exchanged(p) /\ EndRequest(p) /\ UNCHANGED minted

\* The credential is selected, for update when there is a token for it, and
\* the calendars are asked for with the access token.  Neither a token nor a
\* credential: the callback fails.
StoreToken(p) ==
    LET c == request[p].on
        writes == request[p].token # 0
    IN  /\ request[p].stage = "exchanged"
        /\ writes => CredentialFree(c)
        /\ IF ~writes /\ credential[c] = 0 THEN EndRequest(p)
           ELSE \E h \in {"healthy"} \cup Failures :
                  request' = [request EXCEPT ![p].stage = "storing", ![p].found = h,
                             ![p].held = writes /\ credential[c] # 0]
        /\ UNCHANGED <<rows, minted, exchanges>>

\* Mutant: the health of the callback is left to the next check.
CompleteOAuthQuietly(p) ==
    LET c == request[p].on
    IN  /\ request[p].stage = "storing"
        /\ credential' = IF request[p].token = 0 THEN credential
                         ELSE [credential EXCEPT ![c] = request[p].token]
        /\ EndRequest(p)
        /\ UNCHANGED <<conn, history, state, minted, exchanges>>

\* The last commit updates the connection's health too, and so waits for its
\* lock; a health equal to the one loaded before the calls is not written.  A
\* credential that came up meanwhile is met by the unique key: Abort.
CompleteOAuth(p) ==
    LET c == request[p].on
    IN  /\ request[p].stage = "storing" /\ ConnectionFree(c)
        /\ request[p].token # 0 => (request[p].held <=> credential[c] # 0)
        /\ credential' = IF request[p].token = 0 THEN credential
                         ELSE [credential EXCEPT ![c] = request[p].token]
        /\ conn' = IF request[p].found = request[p].loaded THEN conn
                   ELSE [conn EXCEPT ![c].health = request[p].found]
        /\ history' = [history EXCEPT ![c] = request[p].found]
        /\ EndRequest(p)
        /\ UNCHANGED <<state, minted, exchanges>>

\* A request dies, its statement fails, or PostgreSQL breaks a deadlock.
Abort(p) ==
    /\ request[p] # NoRequest
    /\ EndRequest(p)
    /\ UNCHANGED <<rows, minted, exchanges>>

-----------------------------------------------------------------------------
Administer(c) ==
    \/ Create(c) \/ Update(c)
    \/ \E to \in {"active", "inactive", "archived"} : Transition(c, to)

Health(p) ==
    \/ \E c \in Connections : StartHealth(p, c)
    \/ ProbeFails(p) \/ ProbeHealthy(p) \/ ProbeRotates(p) \/ FinishHealth(p)

Credentials(p) ==
    (\E c \in Connections : StartCredentials(p, c)) \/ FinishCredentials(p)

OAuth(p) ==
    \/ \E c \in Connections : StartOAuth(p, c)
    \/ \E s \in States : IssueState(p, s) \/ Consume(p, s)
    \/ ExchangeBrings(p) \/ ExchangeOmits(p) \/ ExchangeFails(p)
    \/ StoreToken(p) \/ CompleteOAuth(p)

ConnNext ==
    \/ \E c \in Connections : Administer(c)
    \/ \E s \in States : Expire(s)
    \/ \E p \in Requests :
          Health(p) \/ Credentials(p) \/ OAuth(p) \/ Abort(p)

ConnSpec == ConnInit /\ [][ConnNext]_connVars

-----------------------------------------------------------------------------
(* Properties.                                                             *)

\* A code is exchanged at most once under a state, although exchanges fail,
\* requests die and the callback is opened again.
StateUsedOnce == \A s \in States : exchanges[s] <= 1

\* A connection that is active has a credential, whatever callbacks failed.
ActiveIsConnected ==
    \A c \in Connections : conn[c].status = "active" => credential[c] # 0

\* What is stored came from Google, and a request in the middle of a call has
\* a token that no other request has.
TokensApart ==
    /\ \A c \in Connections : credential[c] <= minted
    /\ \A p, q \in Requests :
         p # q /\ request[p].token # 0 => request[p].token # request[q].token

\* Connections, credentials and states agree.
ConnectionsAgree == ConnTypeOK /\ StateUsedOnce /\ ActiveIsConnected /\ TokensApart

\* A rotated token replaces the token that it was rotated from, and no other:
\* the new authorization that a callback brings meanwhile is not overwritten.
RotationInPlace ==
    [][\A p \in Requests :
          /\ request[p].stage = "checked" /\ credential' # credential
          /\ credential'[request[p].on] = request[p].token
          => credential[request[p].on] = request[p].source]_connVars

Underway(c) ==
    {p \in Requests : request[p].on = c /\ request[p].stage \in Callback}

\* An archived connection is terminal, but for the callbacks that had consumed
\* their state before it was archived: those still store what they bring, and
\* no other begins.
ArchivedSettles ==
    [][\A c \in Connections : conn[c].status = "archived"
          => /\ Underway(c)' \subseteq Underway(c)
             /\ (/\ conn'[c] = conn[c] /\ credential'[c] = credential[c]
                 /\ history'[c] = history[c])
                   \/ Underway(c)' # Underway(c)]_connVars
=============================================================================
