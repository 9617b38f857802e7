-------------------------- MODULE WebAuthnService --------------------------
(***************************************************************************)
(* The application service of the passwordless backend                     *)
(* (internal/application) over its three PostgreSQL tables.                *)
(*                                                                         *)
(* net/http serves every request in a goroutine of its own, and a handler  *)
(* is a sequence of SQL statements with no transaction around them, so the *)
(* unit of atomicity is the statement: a request is a process whose        *)
(* program counter names the statement it executes next, and an action is  *)
(* one statement with the Go code up to the next one.  The clean-up worker *)
(* and the clock are further processes.  A statement may fail, and the     *)
(* server may crash and start again.                                       *)
(*                                                                         *)
(* An operator nothing refers to, named for a mistake (ExpireOldForgotten, *)
(* SnapshotWithRevoked, ...), is the operator that follows it with that    *)
(* mistake in it: put in its place, it makes a property fail.              *)
(***************************************************************************)
EXTENDS Integers, FiniteSets

CONSTANTS
    User,        \* usernames (users.username, the row's key here)
    Email,       \* e-mail addresses
    Credential,  \* credential ids an authenticator may present
    Session,     \* session ids uuid.New may return, each at most once
    Client,      \* user agents / peers a request may come from
    Request,     \* slots for requests being served at the same time
    None,        \* NULL, uuid.Nil, "", no row
    MaxCount,    \* bound: largest signature counter
    MaxTime,     \* bound: last instant of the clock
    Timeout,     \* lifetime of a ceremony (60 s in main.go)
    TokenTTL,    \* lifetime of a token (24 h in token.go)
    DatabaseAhead, \* how far the database's clock is ahead of the server's
    MaxFaults    \* bound: statements that may fail

ASSUME NoneAssumption ==
    /\ None \notin User \cup Email \cup Credential \cup Session \cup Client

ASSUME BoundAssumption ==
    /\ MaxCount \in Nat
    /\ MaxTime \in Nat
    /\ Timeout \in Nat
    /\ TokenTTL \in Nat
    /\ DatabaseAhead \in Int
    /\ MaxFaults \in Nat

VARIABLES
    email,    \* table users: the e-mail of each username, None for no row
    cred,     \* table credentials: a row for each id, owner None for no row
    session,  \* table webauthn_sessions: a row for each id
    req,      \* the request each slot is serving: its locals and position
    grants,   \* the tokens handed out
    now,      \* the server's clock
    faults,   \* how many statements have failed so far
    tainted   \* history: the <<user, type>> pairs whose begins have overlapped
              \* or for which an error was ignored since the last start

vars == <<email, cred, session, req, grants, now, faults, tainted>>

----------------------------------------------------------------------------
Count == 0 .. MaxCount
Types == {"REGISTRATION", "AUTHENTICATION"}
Ops == {"RegisterBegin", "RegisterFinish", "LoginBegin", "LoginFinish", "Revoke"}

\* FREE: the id is not in use.  DROPPED: the row went with the table.
Statuses == {"FREE", "PENDING", "COMPLETED", "EXPIRED", "DROPPED"}

Labels == {"idle", "CreateUser", "LoadCredentials", "FindPending", "ExpireOld",
           "SaveSession", "MarkExpired", "Validate", "SaveCredential",
           "UpdateSignCount", "ReadAudit", "UpdateAudit", "CompleteSession",
           "GenerateToken", "Deactivate"}

\* What r.RemoteAddr holds for a client, "host:port", and what nullIP makes of
\* it: netip.ParseAddr takes a bare address only, anything else becomes NULL.
RemoteAddr(c) == <<c, "port">>
nullIPUnparsed(a) == a
nullIP(a) == IF a \in Client THEN a ELSE None

NoCredential == [owner |-> None, active |-> FALSE, count |-> 0,
                 agent |-> None, ip |-> None, origin |-> None]

NoSession == [status |-> "FREE", user |-> None, type |-> "REGISTRATION",
              expires |-> 0, allowed |-> {}, agent |-> None, ip |-> None]

\* What GetCredentialsByUserID returns: some ids, each with its counter.
Loads == UNION {[S -> Count] : S \in SUBSET Credential}
NoLoad == [c \in {} |-> 0]

NoRequest == [op |-> "Revoke", pc |-> "idle", user |-> None, email |-> None,
              client |-> None, sid |-> None, old |-> None, expires |-> 0,
              loaded |-> NoLoad, cred |-> None, seen |-> 0, count |-> 0,
              agent |-> None, ip |-> None, late |-> FALSE, revoked |-> {}]

CredentialRow ==
    [owner: User \cup {None},      \* user_id
     active: BOOLEAN,              \* is_active
     count: Count,                 \* sign_count
     agent: Client \cup {None},    \* client_info.user_agent
     ip: Client \cup {None},       \* last_login_ip
     origin: Session \cup {None}]  \* history: the ceremony that inserted it

SessionRow ==
    [status: Statuses,
     user: User \cup {None},        \* user_id
     type: Types,
     expires: Nat,                  \* expires_at and session_data.expires
     allowed: SUBSET Credential,    \* session_data.allowed_credentials
     agent: Client \cup {None},     \* user_agent
     ip: Client \cup {None}]        \* ip_address

RequestState ==
    [op: Ops,
     pc: Labels,
     user: User \cup {None},
     email: Email \cup {None},
     client: Client \cup {None},
     sid: Session \cup {None},      \* the session a finish was sent for
     old: Session \cup {None},      \* saveSession's old
     expires: Nat,                  \* sessionData.Expires
     loaded: Loads,                 \* waUser's credentials
     cred: Credential \cup {None},
     seen: Count,                   \* history: counter the row had when loaded
     count: Count,                  \* the counter to write
     agent: Client \cup {None},     \* FinishLogin's ua
     ip: Client \cup {None},        \* FinishLogin's ip
     late: BOOLEAN,                 \* history: had the session expired on arrival
     revoked: SUBSET Credential]    \* history: rows revoked before arrival

Token ==
    [user: User \cup {None}, session: Session \cup {None},
     cred: Credential \cup {None}, exp: Nat]

TypeOK ==
    /\ email \in [User -> Email \cup {None}]
    /\ cred \in [Credential -> CredentialRow]
    /\ session \in [Session -> SessionRow]
    /\ req \in [Request -> RequestState]
    /\ grants \subseteq Token
    /\ now \in 0 .. MaxTime
    /\ faults \in 0 .. MaxFaults
    /\ tainted \subseteq (User \cup {None}) \X Types

Init ==
    /\ email = [u \in User |-> None]
    /\ cred = [c \in Credential |-> NoCredential]
    /\ session = [s \in Session |-> NoSession]
    /\ req = [r \in Request |-> NoRequest]
    /\ grants = {}
    /\ now = 0
    /\ faults = 0
    /\ tainted = {}

----------------------------------------------------------------------------
(* What the statements read. *)

Active(u) == {c \in Credential : cred[c].owner = u /\ cred[c].active}

SnapshotWithRevoked(u) ==
    [c \in {d \in Credential : cred[d].owner = u} |-> cred[c].count]

SnapshotOfAnyone(u) ==
    [c \in {d \in Credential : cred[d].active} |-> cred[c].count]

\* GetCredentialsByUserID: the active rows, with the counters they hold now.
Snapshot(u) == [c \in Active(u) |-> cred[c].count]

PendingOfAnyType(u, t) ==
    {s \in Session : session[s].status = "PENDING" /\ session[s].user = u}

\* The rows GetSessionByUserIDAndType may return one of (LIMIT 1, no ORDER BY).
Pending(u, t) ==
    {s \in Session : session[s].status = "PENDING"
                     /\ session[s].user = u /\ session[s].type = t}

ExpiredForServiceWithGrace(s) == session[s].expires + 1 < now

\* Who asks whether a session's deadline has passed, each in its own way.  The
\* service: time.Now().After(rawSession.ExpiresAt).
ExpiredForService(s) == session[s].expires < now

\* The library: session.Expires.Before(time.Now()), of the copy in session_data.
ExpiredForLibrary(s) == session[s].expires < now

ExpiredForDatabaseAtDeadline(s) == session[s].expires <= now + DatabaseAhead

\* The worker's statement: expires_at < NOW(), by the database's clock.
ExpiredForDatabase(s) == session[s].expires < now + DatabaseAhead

\* VerifyToken: time.Now().Unix() > claims.Exp; seconds are HttpApi's.
TokenExpired(g) == g.exp < now

BeginOps == {"RegisterBegin", "LoginBegin"}
FinishOps == {"RegisterFinish", "LoginFinish"}
TypeOf(op) == IF op \in {"RegisterBegin", "RegisterFinish"}
              THEN "REGISTRATION" ELSE "AUTHENTICATION"

\* The pair a begin request opens a session for, and whether it has looked for
\* the old session of that pair and not yet saved the new one.
PairOf(r) == <<req[r].user, TypeOf(req[r].op)>>
InWindow(r) == req[r].pc \in {"ExpireOld", "SaveSession"}

Goto(r, label) == req' = [req EXCEPT ![r].pc = label]
Return(r) == req' = [req EXCEPT ![r] = NoRequest]

\* Bound: a begin is only started when an unused id is left for it.
RoomForSession ==
    Cardinality({r \in Request : req[r].op \in BeginOps})
        < Cardinality({s \in Session : session[s].status = "FREE"})

----------------------------------------------------------------------------
(* BeginRegistration and BeginLogin. *)

\* GetUserByUsername.  Any error of it leads to CreateUser, whether or not the
\* user exists; an error here is not counted as a fault.
BeginRegistration(r) ==
    /\ req[r].pc = "idle"
    /\ RoomForSession
    /\ \E u \in User, e \in Email, c \in Client, found \in BOOLEAN :
         /\ found => email[u] # None
         /\ req' = [req EXCEPT ![r] =
                     [NoRequest EXCEPT !.op = "RegisterBegin",
                                       !.pc = IF found THEN "LoadCredentials"
                                                       ELSE "CreateUser",
                                       !.user = u,
                                       !.email = e,
                                       !.client = c]]
    /\ UNCHANGED <<email, cred, session, grants, now, faults, tainted>>

\* username and email are UNIQUE: another request may have been faster.
CreateUser(r) ==
    /\ req[r].pc = "CreateUser"
    /\ LET u == req[r].user
           e == req[r].email
       IN  \/ /\ email[u] = None /\ \A v \in User : email[v] # e
              /\ email' = [email EXCEPT ![u] = e]
              /\ Goto(r, "LoadCredentials")
           \/ /\ email[u] # None \/ \E v \in User : email[v] = e
              /\ Return(r)
              /\ UNCHANGED email
    /\ UNCHANGED <<cred, session, grants, now, faults, tainted>>

\* loadUser's GetUserByUsername; an unknown user is refused without a trace.
BeginLogin(r) ==
    /\ req[r].pc = "idle"
    /\ RoomForSession
    /\ \E u \in User, c \in Client :
         /\ email[u] # None
         /\ req' = [req EXCEPT ![r] =
                     [NoRequest EXCEPT !.op = "LoginBegin",
                                       !.pc = "LoadCredentials",
                                       !.user = u,
                                       !.client = c]]
    /\ UNCHANGED <<email, cred, session, grants, now, faults, tainted>>

\* GetCredentialsByUserID, then the library starts the ceremony.
LoadForBegin(r) ==
    /\ req[r].pc = "LoadCredentials"
    /\ req[r].op \in BeginOps
    /\ LET loaded == Snapshot(req[r].user)
       IN  IF req[r].op = "LoginBegin" /\ DOMAIN loaded = {}
           THEN Return(r)
           ELSE req' = [req EXCEPT ![r].pc = "FindPending",
                                   ![r].expires = now + Timeout,
                                   ![r].loaded = loaded]
    /\ UNCHANGED <<email, cred, session, grants, now, faults, tainted>>

\* saveSession: SELECT one pending session of the user and type.
FindPending(r) ==
    /\ req[r].pc = "FindPending"
    /\ LET pair == PairOf(r)
           found == Pending(pair[1], pair[2])
       IN  /\ \/ \E s \in found :
                   req' = [req EXCEPT ![r].pc = "ExpireOld", ![r].old = s]
              \/ found = {} /\ Goto(r, "SaveSession")
           /\ tainted' = IF \E q \in Request : InWindow(q) /\ PairOf(q) = pair
                         THEN tainted \cup {pair} ELSE tainted
    /\ UNCHANGED <<email, cred, session, grants, now, faults>>

ExpireOldForgotten(r) ==
    /\ req[r].pc = "ExpireOld"
    /\ Goto(r, "SaveSession")
    /\ UNCHANGED <<email, cred, session, grants, now, faults, tainted>>

\* saveSession: UPDATE ... SET status = 'EXPIRED' WHERE id = old, whatever the
\* status has become since the SELECT.
ExpireOld(r) ==
    /\ req[r].pc = "ExpireOld"
    /\ session' = [session EXCEPT ![req[r].old].status = "EXPIRED"]
    /\ Goto(r, "SaveSession")
    /\ UNCHANGED <<email, cred, grants, now, faults, tainted>>

\* The row saveSession builds.
NewSession(r) ==
    [status  |-> "PENDING",
     user    |-> req[r].user,
     type    |-> TypeOf(req[r].op),
     expires |-> req[r].expires,
     allowed |-> IF req[r].op = "LoginBegin" THEN DOMAIN req[r].loaded ELSE {},
     agent   |-> req[r].client,
     ip      |-> nullIP(RemoteAddr(req[r].client))]

\* saveSession: INSERT under a fresh id; the begin response goes out.
SaveSession(r) ==
    /\ req[r].pc = "SaveSession"
    /\ \E s \in Session :
         /\ session[s].status = "FREE"
         /\ session' = [session EXCEPT ![s] = NewSession(r)]
    /\ Return(r)
    /\ UNCHANGED <<email, cred, grants, now, faults, tainted>>

----------------------------------------------------------------------------
(* FinishRegistration and FinishLogin. *)

\* loadUserAndSession: GetSessionByID finds pending rows only; a row of the
\* other type is refused.  The user's row exists (users are never deleted).
Finish(r) ==
    /\ req[r].pc = "idle"
    /\ \E s \in Session, op \in FinishOps :
         /\ session[s].status = "PENDING"
         /\ session[s].type = TypeOf(op)
         /\ req' = [req EXCEPT ![r] =
              [NoRequest EXCEPT !.op = op,
                                !.pc = "LoadCredentials",
                                !.user = session[s].user,
                                !.sid = s,
                                !.late = session[s].expires < now,
                                !.revoked = {c \in Credential :
                                    cred[c].owner # None /\ ~cred[c].active}]]
    /\ UNCHANGED <<email, cred, session, grants, now, faults, tainted>>

\* loadUserAndSession: GetCredentialsByUserID, then the check of expires_at.
LoadForFinish(r) ==
    /\ req[r].pc = "LoadCredentials"
    /\ req[r].op \in FinishOps
    /\ IF ExpiredForService(req[r].sid)
       THEN Goto(r, "MarkExpired")
       ELSE req' = [req EXCEPT ![r].pc = "Validate",
                               ![r].loaded = Snapshot(req[r].user)]
    /\ UNCHANGED <<email, cred, session, grants, now, faults, tainted>>

MarkExpired(r) ==
    /\ req[r].pc = "MarkExpired"
    /\ session' = [session EXCEPT ![req[r].sid].status = "EXPIRED"]
    /\ Return(r)
    /\ UNCHANGED <<email, cred, grants, now, faults, tainted>>

\* The library accepts a response made for this session's challenge before its
\* deadline; a login with a credential the session allows, and only if the user
\* still had all of those when the credentials were loaded.
Verifies(r, c, challenge) ==
    /\ challenge = req[r].sid
    /\ ~ExpiredForLibrary(req[r].sid)
    /\ req[r].op = "LoginFinish" =>
         /\ c \in session[req[r].sid].allowed
         /\ session[req[r].sid].allowed \subseteq DOMAIN req[r].loaded

UpdateCounterUnchecked(stored, n) == n

\* Authenticator.UpdateCounter: a counter that does not advance only raises
\* CloneWarning, which nobody reads, and leaves the loaded value.
UpdateCounter(stored, n) == IF n > stored THEN n ELSE stored

\* CreateCredential and ValidateLogin, on the loaded rows and the response
\* (credential c, counter n) in the request's body.
Validate(r) ==
    /\ req[r].pc = "Validate"
    /\ \E c \in Credential, n \in Count, challenge \in Session :
         \/ /\ Verifies(r, c, challenge)
            /\ req[r].op = "RegisterFinish"
            /\ req' = [req EXCEPT ![r].pc = "SaveCredential",
                                  ![r].loaded = NoLoad,
                                  ![r].cred = c,
                                  ![r].count = n]
         \/ /\ Verifies(r, c, challenge)
            /\ req[r].op = "LoginFinish"
            /\ req' = [req EXCEPT ![r].pc = "UpdateSignCount",
                                  ![r].loaded = NoLoad,
                                  ![r].cred = c,
                                  ![r].seen = req[r].loaded[c],
                                  ![r].count = UpdateCounter(req[r].loaded[c], n)]
         \/ /\ ~Verifies(r, c, challenge)
            /\ Return(r)
    /\ UNCHANGED <<email, cred, session, grants, now, faults, tainted>>

\* The row FinishRegistration builds.
NewCredential(r) ==
    [NoCredential EXCEPT !.owner = req[r].user,
                         !.active = TRUE,
                         !.count = req[r].count,
                         !.origin = req[r].sid]

SaveCredentialOverOld(r) ==
    /\ req[r].pc = "SaveCredential"
    /\ cred' = [cred EXCEPT ![req[r].cred] = NewCredential(r)]
    /\ Goto(r, "CompleteSession")
    /\ UNCHANGED <<email, session, grants, now, faults, tainted>>

\* INSERT INTO credentials; the id is the primary key.
SaveCredential(r) ==
    /\ req[r].pc = "SaveCredential"
    /\ LET c == req[r].cred
       IN  \/ /\ cred[c].owner = None
              /\ cred' = [cred EXCEPT ![c] = NewCredential(r)]
              /\ Goto(r, "CompleteSession")
           \/ /\ cred[c].owner # None
              /\ Return(r)
              /\ UNCHANGED cred
    /\ UNCHANGED <<email, session, grants, now, faults, tainted>>

UpdateSignCount(r) ==
    /\ req[r].pc = "UpdateSignCount"
    /\ cred' = [cred EXCEPT ![req[r].cred].count = req[r].count]
    /\ Goto(r, "ReadAudit")
    /\ UNCHANGED <<email, session, grants, now, faults, tainted>>

AuditSessionsOfAnyStatus(u) ==
    {s \in Session : session[s].user = u /\ session[s].type = "AUTHENTICATION"}

\* FinishLogin takes address and user agent from any pending login session of
\* the user, not from the one it was sent for; none leaves them empty.
AuditSessions(u) == Pending(u, "AUTHENTICATION")

ReadAudit(r) ==
    /\ req[r].pc = "ReadAudit"
    /\ LET found == AuditSessions(req[r].user)
       IN  \/ \E s \in found :
                req' = [req EXCEPT ![r].pc = "UpdateAudit",
                                   ![r].agent = session[s].agent,
                                   ![r].ip = session[s].ip]
           \/ found = {} /\ Goto(r, "UpdateAudit")
    /\ UNCHANGED <<email, cred, session, grants, now, faults, tainted>>

UpdateCredentialAudit(r) ==
    /\ req[r].pc = "UpdateAudit"
    /\ cred' = [cred EXCEPT ![req[r].cred].agent = req[r].agent,
                            ![req[r].cred].ip = nullIP(req[r].ip)]
    /\ Goto(r, "CompleteSession")
    /\ UNCHANGED <<email, session, grants, now, faults, tainted>>

CompleteSessionForgotten(r) ==
    /\ req[r].pc = "CompleteSession"
    /\ IF req[r].op = "LoginFinish" THEN Goto(r, "GenerateToken") ELSE Return(r)
    /\ UNCHANGED <<email, cred, session, grants, now, faults, tainted>>

\* UPDATE ... SET status = 'COMPLETED' WHERE id = sid, whatever the status.
CompleteSession(r) ==
    /\ req[r].pc = "CompleteSession"
    /\ session' = [session EXCEPT ![req[r].sid].status = "COMPLETED"]
    /\ IF req[r].op = "LoginFinish" THEN Goto(r, "GenerateToken") ELSE Return(r)
    /\ UNCHANGED <<email, cred, grants, now, faults, tainted>>

NewToken(r) == [user |-> req[r].user, session |-> req[r].sid,
                cred |-> req[r].cred, exp |-> now + TokenTTL]

GenerateToken(r) ==
    /\ req[r].pc = "GenerateToken"
    /\ grants' = grants \cup {NewToken(r)}
    /\ Return(r)
    /\ UNCHANGED <<email, cred, session, now, faults, tainted>>

----------------------------------------------------------------------------
(* RevokeCredential, behind AuthMiddleware. *)

\* A token is good while now <= exp; GetCredentialByID must find a row of the
\* token's user.
RevokeCredential(r) ==
    /\ req[r].pc = "idle"
    /\ \E g \in grants, c \in Credential :
         /\ ~TokenExpired(g)
         /\ cred[c].owner = g.user
         /\ req' = [req EXCEPT ![r] = [NoRequest EXCEPT !.op = "Revoke",
                                                        !.pc = "Deactivate",
                                                        !.user = g.user,
                                                        !.cred = c]]
    /\ UNCHANGED <<email, cred, session, grants, now, faults, tainted>>

Deactivate(r) ==
    /\ req[r].pc = "Deactivate"
    /\ LET c == req[r].cred
       IN  IF cred[c].owner = req[r].user
           THEN cred' = [cred EXCEPT ![c].active = FALSE]
           ELSE UNCHANGED cred
    /\ Return(r)
    /\ UNCHANGED <<email, session, grants, now, faults, tainted>>

----------------------------------------------------------------------------
(* Failing statements, the worker, the clock and the process. *)

\* Statements (and GenerateToken) whose error the handler returns.  Aborting
\* after a statement took effect is aborting before the next one.
Checked == {"CreateUser", "LoadCredentials", "SaveSession", "SaveCredential",
            "UpdateSignCount", "UpdateAudit", "CompleteSession",
            "GenerateToken", "Deactivate"}

\* The database refuses the statement, or the client has gone and its context
\* is cancelled.
StatementFails(r) ==
    /\ faults < MaxFaults
    /\ req[r].pc \in Checked
    /\ faults' = faults + 1
    /\ Return(r)
    /\ UNCHANGED <<email, cred, session, grants, now, tainted>>

\* The errors the code drops: "err == nil" around the old session, "_ =" on
\* the two updates to EXPIRED, "rawSession, _ :=" in FinishLogin.
ErrorIgnored(r) ==
    /\ faults < MaxFaults
    /\ faults' = faults + 1
    /\ \/ /\ req[r].pc \in {"FindPending", "ExpireOld"}
          /\ Goto(r, "SaveSession")
       \/ /\ req[r].pc = "ReadAudit"
          /\ Goto(r, "UpdateAudit")
       \/ /\ req[r].pc = "MarkExpired"
          /\ Return(r)
    /\ tainted' = tainted \cup {PairOf(r)}
    /\ UNCHANGED <<email, cred, session, grants, now>>

OverdueLogins == {s \in Session : session[s].status = "PENDING"
                                  /\ session[s].type = "AUTHENTICATION"
                                  /\ ExpiredForDatabase(s)}

OverdueOfAnyStatus == {s \in Session : session[s].status \notin {"FREE", "DROPPED"}
                                       /\ ExpiredForDatabase(s)}

Overdue == {s \in Session : session[s].status = "PENDING" /\ ExpiredForDatabase(s)}

\* cleanupExpiredSessions: one UPDATE over all rows.
CleanupExpiredSessions ==
    /\ Overdue # {}
    /\ session' = [s \in Session |->
                     IF s \in Overdue THEN [session[s] EXCEPT !.status = "EXPIRED"]
                                      ELSE session[s]]
    /\ UNCHANGED <<email, cred, req, grants, now, faults, tainted>>

Tick ==
    /\ now < MaxTime
    /\ now' = now + 1
    /\ UNCHANGED <<email, cred, session, req, grants, faults, tainted>>

\* The process dies and starts again: RunMigrations drops webauthn_sessions.
\* Tokens live on, they are checked by signature only.
Restart ==
    /\ req' = [r \in Request |-> NoRequest]
    /\ session' = [s \in Session |->
                     IF session[s].status = "FREE" THEN session[s]
                     ELSE [session[s] EXCEPT !.status = "DROPPED"]]
    /\ tainted' = {}
    /\ UNCHANGED <<email, cred, grants, now, faults>>

----------------------------------------------------------------------------
Arrive(r) == BeginRegistration(r) \/ BeginLogin(r) \/ Finish(r) \/ RevokeCredential(r)

Step(r) ==
    \/ CreateUser(r) \/ LoadForBegin(r) \/ FindPending(r) \/ ExpireOld(r)
    \/ SaveSession(r) \/ LoadForFinish(r) \/ MarkExpired(r) \/ Validate(r)
    \/ SaveCredential(r) \/ UpdateSignCount(r) \/ ReadAudit(r)
    \/ UpdateCredentialAudit(r) \/ CompleteSession(r) \/ GenerateToken(r)
    \/ Deactivate(r)

Fault(r) == StatementFails(r) \/ ErrorIgnored(r)

Next ==
    \/ \E r \in Request : Arrive(r) \/ Step(r) \/ Fault(r)
    \/ CleanupExpiredSessions
    \/ Tick
    \/ Restart

Spec == Init /\ [][Next]_vars

\* Statements return in finite time and goroutines are scheduled, and the
\* worker's ticker fires every minute; nothing makes clients send requests.
Fairness ==
    /\ \A r \in Request : WF_vars(Step(r))
    /\ WF_vars(CleanupExpiredSessions)

FairSpec == Spec /\ Fairness
=============================================================================
