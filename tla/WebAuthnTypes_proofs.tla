------------------------ MODULE WebAuthnTypes_proofs ------------------------
(***************************************************************************)
(* Type correctness of WebAuthnService, for every value of its constants.  *)
(***************************************************************************)
EXTENDS WebAuthnService, TLAPS

\* GetCredentialsByUserID returns a map from some credential ids to counters.
LEMMA SnapshotType ==
    ASSUME TypeOK, NEW u PROVE Snapshot(u) \in Loads
<1>1. Active(u) \in SUBSET Credential
  BY DEF Active
<1>2. Snapshot(u) \in [Active(u) -> Count]
  <2>1. ASSUME NEW c \in Active(u) PROVE cred[c].count \in Count
    BY <2>1, <1>1 DEF TypeOK, CredentialRow
  <2> QED BY <2>1 DEF Snapshot
<1> QED BY <1>1, <1>2 DEF Loads

\* The values of unused rows and slots have the types of used ones.
LEMMA EmptyTypes ==
    /\ NoCredential \in CredentialRow
    /\ NoSession \in SessionRow
    /\ NoLoad \in Loads
    /\ NoRequest \in RequestState
<1>1. 0 \in Count
  BY BoundAssumption DEF Count
<1>2. NoLoad \in Loads
  <2>1. NoLoad \in [{} -> Count]
    BY DEF NoLoad
  <2>2. {} \in SUBSET Credential
    OBVIOUS
  <2> QED BY <2>1, <2>2 DEF Loads
<1> QED
  BY <1>1, <1>2 DEF NoCredential, CredentialRow, NoSession, SessionRow, Statuses,
     Types, NoRequest, RequestState, Ops, Labels

\* Moving a request to another statement keeps the type of its slot.
LEMMA GotoType ==
    ASSUME TypeOK, NEW r \in Request, NEW label \in Labels, Goto(r, label)
    PROVE  req' \in [Request -> RequestState]
<1>1. req[r] \in RequestState
  BY DEF TypeOK
<1>2. [req[r] EXCEPT !.pc = label] \in RequestState
  BY <1>1 DEF RequestState
<1> QED BY <1>2 DEF TypeOK, Goto

\* So does answering it.
LEMMA ReturnType ==
    ASSUME TypeOK, NEW r \in Request, Return(r)
    PROVE  req' \in [Request -> RequestState]
  BY EmptyTypes DEF TypeOK, Return

\* An UPDATE of a status keeps the type of the sessions, even where no row has the id.
LEMMA StatusType ==
    ASSUME TypeOK, NEW s, NEW status \in Statuses,
           session' = [session EXCEPT ![s].status = status]
    PROVE  session' \in [Session -> SessionRow]
<1>1. session \in [Session -> SessionRow]
  BY DEF TypeOK
<1>2. \A row \in SessionRow : [row EXCEPT !.status = status] \in SessionRow
  <2>1. TAKE row \in SessionRow
  <2> QED BY DEF SessionRow
<1>3. CASE s \in Session
  <2>1. [session[s] EXCEPT !.status = status] \in SessionRow
    BY <1>1, <1>2, <1>3
  <2> QED BY <1>1, <2>1
<1>4. CASE s \notin Session
  BY <1>1, <1>4
<1> QED BY <1>3, <1>4

\* The type of a ceremony.
LEMMA TypeOfType == \A op : TypeOf(op) \in Types
  BY DEF TypeOf, Types

LEMMA TypeInit == Init => TypeOK
  BY EmptyTypes, BoundAssumption DEF Init, TypeOK

\* ---- requests arriving
LEMMA TypeArrive ==
    ASSUME TypeOK, NEW r \in Request, Arrive(r) PROVE TypeOK'
<1> USE EmptyTypes
<1>1. CASE BeginRegistration(r)
  <2> DEFINE label(found) == IF found THEN "LoadCredentials" ELSE "CreateUser"
  <2>1. PICK u \in User, e \in Email, c \in Client, found \in BOOLEAN :
          req' = [req EXCEPT ![r] =
                   [NoRequest EXCEPT !.op = "RegisterBegin",
                                     !.pc = label(found),
                                     !.user = u,
                                     !.email = e,
                                     !.client = c]]
    BY <1>1 DEF BeginRegistration
  <2>2. label(found) \in Labels
    BY DEF Labels
  <2>3. req'[r] = [NoRequest EXCEPT !.op = "RegisterBegin", !.pc = label(found),
                                    !.user = u, !.email = e, !.client = c]
    BY <2>1 DEF TypeOK
  <2> HIDE DEF label
  <2>4. req'[r] \in RequestState
    BY <2>2, <2>3 DEF RequestState, Ops
  <2> QED BY <1>1, <2>1, <2>4 DEF BeginRegistration, TypeOK
<1>2. CASE BeginLogin(r)
  <2>1. PICK u \in User, c \in Client :
          req' = [req EXCEPT ![r] =
                   [NoRequest EXCEPT !.op = "LoginBegin",
                                     !.pc = "LoadCredentials",
                                     !.user = u,
                                     !.client = c]]
    BY <1>2 DEF BeginLogin
  <2>2. req'[r] = [NoRequest EXCEPT !.op = "LoginBegin", !.pc = "LoadCredentials",
                                    !.user = u, !.client = c]
    BY <2>1 DEF TypeOK
  <2>3. req'[r] \in RequestState
    BY <2>2 DEF RequestState, Ops, Labels
  <2> QED BY <1>2, <2>1, <2>3 DEF BeginLogin, TypeOK
<1>3. CASE Finish(r)
  <2>1. PICK s \in Session, op \in FinishOps :
          req' = [req EXCEPT ![r] =
              [NoRequest EXCEPT !.op = op,
                                !.pc = "LoadCredentials",
                                !.user = session[s].user,
                                !.sid = s,
                                !.late = session[s].expires < now,
                                !.revoked = {c \in Credential :
                                    cred[c].owner # None /\ ~cred[c].active}]]
    BY <1>3 DEF Finish
  <2>2. (session[s].expires < now) \in BOOLEAN
    BY DEF TypeOK, SessionRow
  <2>3. session[s].user \in User \cup {None}
    BY DEF TypeOK, SessionRow
  <2> DEFINE gone == {c \in Credential : cred[c].owner # None /\ ~cred[c].active}
             overdue == session[s].expires < now
  <2>4. req'[r] = [NoRequest EXCEPT !.op = op, !.pc = "LoadCredentials",
                                    !.user = session[s].user, !.sid = s,
                                    !.late = overdue, !.revoked = gone]
    BY <2>1 DEF TypeOK
  <2>5. gone \in SUBSET Credential /\ overdue \in BOOLEAN
    BY <2>2
  <2> HIDE DEF gone, overdue
  <2>6. req'[r] \in RequestState
    BY <2>3, <2>4, <2>5 DEF RequestState, Ops, Labels, FinishOps
  <2> QED BY <1>3, <2>1, <2>6 DEF Finish, TypeOK
<1>4. CASE RevokeCredential(r)
  <2>1. PICK g \in grants, c \in Credential :
          req' = [req EXCEPT ![r] = [NoRequest EXCEPT !.op = "Revoke",
                                                      !.pc = "Deactivate",
                                                      !.user = g.user,
                                                      !.cred = c]]
    BY <1>4 DEF RevokeCredential
  <2>2. g.user \in User \cup {None}
    BY DEF TypeOK, Token
  <2>3. req'[r] = [NoRequest EXCEPT !.op = "Revoke", !.pc = "Deactivate",
                                    !.user = g.user, !.cred = c]
    BY <2>1 DEF TypeOK
  <2>4. req'[r] \in RequestState
    BY <2>2, <2>3 DEF RequestState, Ops, Labels
  <2> QED BY <1>4, <2>1, <2>4 DEF RevokeCredential, TypeOK
<1> QED BY <1>1, <1>2, <1>3, <1>4 DEF Arrive

\* ---- the statements of the begin handlers
LEMMA TypeBegin ==
    ASSUME TypeOK, NEW r \in Request,
           \/ CreateUser(r) \/ LoadForBegin(r) \/ FindPending(r)
           \/ ExpireOld(r) \/ SaveSession(r)
    PROVE  TypeOK'
<1>0. req[r] \in RequestState
  BY DEF TypeOK
<1>1. CASE CreateUser(r)
  <2>1. "LoadCredentials" \in Labels
    BY DEF Labels
  <2>2. req' \in [Request -> RequestState]
    BY <1>1, <2>1, GotoType, ReturnType DEF CreateUser
  <2>3. email' \in [User -> Email \cup {None}]
    <3>1. CASE UNCHANGED email
      BY <3>1 DEF TypeOK
    <3>2. CASE email' = [email EXCEPT ![req[r].user] = req[r].email]
      BY <1>0, <3>2 DEF TypeOK, RequestState
    <3> QED BY <1>1, <3>1, <3>2 DEF CreateUser
  <2> QED BY <1>1, <2>2, <2>3 DEF CreateUser, TypeOK
<1>2. CASE LoadForBegin(r)
  <2> DEFINE loaded == Snapshot(req[r].user)
  <2>1. loaded \in Loads
    BY SnapshotType
  <2>2. now + Timeout \in Nat
    BY BoundAssumption DEF TypeOK
  <2>3. ASSUME req' = [req EXCEPT ![r].pc = "FindPending",
                                  ![r].expires = now + Timeout,
                                  ![r].loaded = loaded]
        PROVE  req' \in [Request -> RequestState]
    <3> HIDE DEF loaded
    <3>1. req'[r] = [req[r] EXCEPT !.pc = "FindPending",
                                   !.expires = now + Timeout,
                                   !.loaded = loaded]
      BY <2>3 DEF TypeOK
    <3>2. req'[r] \in RequestState
      BY <1>0, <2>1, <2>2, <3>1 DEF RequestState, Labels
    <3> QED BY <2>3, <3>2 DEF TypeOK
  <2>4. req' \in [Request -> RequestState]
    BY <1>2, <2>3, ReturnType DEF LoadForBegin
  <2> QED BY <1>2, <2>4 DEF LoadForBegin, TypeOK
<1>3. CASE FindPending(r)
  <2> DEFINE pair == PairOf(r)
             found == Pending(pair[1], pair[2])
  <2>1. ASSUME NEW s \in found,
               req' = [req EXCEPT ![r].pc = "ExpireOld", ![r].old = s]
        PROVE  req' \in [Request -> RequestState]
    <3>1. s \in Session
      BY DEF Pending
    <3>2. req'[r] = [req[r] EXCEPT !.pc = "ExpireOld", !.old = s]
      BY <2>1 DEF TypeOK
    <3>3. req'[r] \in RequestState
      BY <1>0, <3>1, <3>2 DEF RequestState, Labels
    <3> QED BY <2>1, <3>3 DEF TypeOK
  <2>2. "SaveSession" \in Labels
    BY DEF Labels
  <2>3. req' \in [Request -> RequestState]
    BY <1>3, <2>1, <2>2, GotoType DEF FindPending
  <2>4. pair \in (User \cup {None}) \X Types
    BY <1>0, TypeOfType DEF PairOf, RequestState
  <2>5. tainted' \subseteq (User \cup {None}) \X Types
    <3>1. CASE tainted' = tainted
      BY <3>1 DEF TypeOK
    <3>2. CASE tainted' = tainted \cup {pair}
      BY <2>4, <3>2 DEF TypeOK
    <3> QED BY <1>3, <3>1, <3>2 DEF FindPending
  <2> QED BY <1>3, <2>3, <2>5 DEF FindPending, TypeOK
<1>4. CASE ExpireOld(r)
  <2>1. session' \in [Session -> SessionRow]
    BY <1>4, StatusType DEF ExpireOld, Statuses
  <2>2. "SaveSession" \in Labels
    BY DEF Labels
  <2>3. req' \in [Request -> RequestState]
    BY <1>4, <2>2, GotoType DEF ExpireOld
  <2> QED BY <1>4, <2>1, <2>3 DEF ExpireOld, TypeOK
<1>5. CASE SaveSession(r)
  <2>1. NewSession(r) \in SessionRow
    <3>1. nullIP(RemoteAddr(req[r].client)) \in Client \cup {None}
      BY DEF nullIP
    <3>2. DOMAIN req[r].loaded \in SUBSET Credential
      BY <1>0 DEF RequestState, Loads
    <3> DEFINE allowed == IF req[r].op = "LoginBegin" THEN DOMAIN req[r].loaded ELSE {}
    <3>3. allowed \in SUBSET Credential
      BY <3>2
    <3>4. TypeOf(req[r].op) \in Types
      BY TypeOfType
    <3>5. NewSession(r) = [status |-> "PENDING", user |-> req[r].user,
                           type |-> TypeOf(req[r].op), expires |-> req[r].expires,
                           allowed |-> allowed, agent |-> req[r].client,
                           ip |-> nullIP(RemoteAddr(req[r].client))]
      BY DEF NewSession
    <3> HIDE DEF allowed
    <3> QED BY <1>0, <3>1, <3>3, <3>4, <3>5 DEF RequestState, SessionRow, Statuses
  <2>2. session' \in [Session -> SessionRow]
    BY <1>5, <2>1 DEF SaveSession, TypeOK
  <2>3. req' \in [Request -> RequestState]
    BY <1>5, ReturnType DEF SaveSession
  <2> QED BY <1>5, <2>2, <2>3 DEF SaveSession, TypeOK
<1> QED BY <1>1, <1>2, <1>3, <1>4, <1>5

\* ---- the statements of the finish handlers and of the revocation
LEMMA TypeFinish ==
    ASSUME TypeOK, NEW r \in Request,
           \/ LoadForFinish(r) \/ MarkExpired(r) \/ Validate(r) \/ SaveCredential(r)
           \/ UpdateSignCount(r) \/ ReadAudit(r) \/ UpdateCredentialAudit(r)
           \/ CompleteSession(r) \/ GenerateToken(r) \/ Deactivate(r)
    PROVE  TypeOK'
<1>0. req[r] \in RequestState
  BY DEF TypeOK
<1>1. CASE LoadForFinish(r)
  <2> DEFINE loaded == Snapshot(req[r].user)
  <2>1. loaded \in Loads
    BY SnapshotType
  <2>2. ASSUME req' = [req EXCEPT ![r].pc = "Validate", ![r].loaded = loaded]
        PROVE  req' \in [Request -> RequestState]
    <3> HIDE DEF loaded
    <3>1. req'[r] = [req[r] EXCEPT !.pc = "Validate", !.loaded = loaded]
      BY <2>2 DEF TypeOK
    <3>2. req'[r] \in RequestState
      BY <1>0, <2>1, <3>1 DEF RequestState, Labels
    <3> QED BY <2>2, <3>2 DEF TypeOK
  <2>3. "MarkExpired" \in Labels
    BY DEF Labels
  <2>4. req' \in [Request -> RequestState]
    BY <1>1, <2>2, <2>3, GotoType DEF LoadForFinish
  <2> QED BY <1>1, <2>4 DEF LoadForFinish, TypeOK
<1>2. CASE MarkExpired(r)
  <2>1. session' \in [Session -> SessionRow]
    BY <1>2, StatusType DEF MarkExpired, Statuses
  <2>2. req' \in [Request -> RequestState]
    BY <1>2, ReturnType DEF MarkExpired
  <2> QED BY <1>2, <2>1, <2>2 DEF MarkExpired, TypeOK
<1>3. CASE Validate(r)
  <2>0. NoLoad \in Loads
    BY EmptyTypes
  <2>1. ASSUME NEW c \in Credential, NEW n \in Count,
               req' = [req EXCEPT ![r].pc = "SaveCredential",
                                  ![r].loaded = NoLoad,
                                  ![r].cred = c,
                                  ![r].count = n]
        PROVE  req' \in [Request -> RequestState]
    <3>1. [req[r] EXCEPT !.pc = "SaveCredential", !.loaded = NoLoad,
                         !.cred = c, !.count = n] \in RequestState
      BY <1>0, <2>0 DEF RequestState, Labels
    <3> QED BY <2>1, <3>1 DEF TypeOK
  <2>2. ASSUME NEW c \in Credential, NEW n \in Count, NEW challenge \in Session,
               Verifies(r, c, challenge), req[r].op = "LoginFinish",
               req' = [req EXCEPT ![r].pc = "UpdateSignCount",
                                  ![r].loaded = NoLoad,
                                  ![r].cred = c,
                                  ![r].seen = req[r].loaded[c],
                                  ![r].count = UpdateCounter(req[r].loaded[c], n)]
        PROVE  req' \in [Request -> RequestState]
    <3> DEFINE seen == req[r].loaded[c]
    <3>1. seen \in Count
      BY <1>0, <2>2 DEF RequestState, Loads, Verifies
    <3>2. UpdateCounter(seen, n) \in Count
      BY <2>2, <3>1 DEF UpdateCounter
    <3> HIDE DEF seen
    <3>3. [req[r] EXCEPT !.pc = "UpdateSignCount", !.loaded = NoLoad,
                         !.cred = c, !.seen = seen,
                         !.count = UpdateCounter(seen, n)] \in RequestState
      BY <1>0, <2>0, <3>1, <3>2 DEF RequestState, Labels
    <3> QED BY <2>2, <3>3 DEF TypeOK, seen
  <2>3. req' \in [Request -> RequestState]
    BY <1>3, <2>1, <2>2, ReturnType DEF Validate
  <2> QED BY <1>3, <2>3 DEF Validate, TypeOK
<1>4. CASE SaveCredential(r)
  <2>1. NewCredential(r) \in CredentialRow
    BY <1>0, EmptyTypes DEF NewCredential, RequestState, CredentialRow
  <2>2. cred' \in [Credential -> CredentialRow]
    BY <1>4, <2>1 DEF SaveCredential, TypeOK
  <2>3. "CompleteSession" \in Labels
    BY DEF Labels
  <2>4. req' \in [Request -> RequestState]
    BY <1>4, <2>3, GotoType, ReturnType DEF SaveCredential
  <2> QED BY <1>4, <2>2, <2>4 DEF SaveCredential, TypeOK
<1>5. CASE UpdateSignCount(r)
  <2>0. req[r].count \in Count
    BY <1>0 DEF RequestState
  <2>1. cred' \in [Credential -> CredentialRow]
    BY <1>5, <2>0 DEF UpdateSignCount, TypeOK, CredentialRow
  <2>2. "ReadAudit" \in Labels
    BY DEF Labels
  <2>3. req' \in [Request -> RequestState]
    BY <1>5, <2>2, GotoType DEF UpdateSignCount
  <2> QED BY <1>5, <2>1, <2>3 DEF UpdateSignCount, TypeOK
<1>6. CASE ReadAudit(r)
  <2>1. ASSUME NEW s \in Session,
               req' = [req EXCEPT ![r].pc = "UpdateAudit",
                                  ![r].agent = session[s].agent,
                                  ![r].ip = session[s].ip]
        PROVE  req' \in [Request -> RequestState]
    <3>1. /\ session[s].agent \in Client \cup {None}
          /\ session[s].ip \in Client \cup {None}
      BY DEF TypeOK, SessionRow
    <3>2. req'[r] = [req[r] EXCEPT !.pc = "UpdateAudit", !.agent = session[s].agent,
                                   !.ip = session[s].ip]
      BY <2>1 DEF TypeOK
    <3>3. req'[r] \in RequestState
      BY <1>0, <3>1, <3>2 DEF RequestState, Labels
    <3> QED BY <2>1, <3>3 DEF TypeOK
  <2>2. "UpdateAudit" \in Labels
    BY DEF Labels
  <2>3. req' \in [Request -> RequestState]
    BY <1>6, <2>1, <2>2, GotoType DEF ReadAudit, AuditSessions, Pending
  <2> QED BY <1>6, <2>3 DEF ReadAudit, TypeOK
<1>7. CASE UpdateCredentialAudit(r)
  <2>1. /\ req[r].agent \in Client \cup {None}
        /\ nullIP(req[r].ip) \in Client \cup {None}
    BY <1>0 DEF nullIP, RequestState
  <2>2. cred' \in [Credential -> CredentialRow]
    BY <1>7, <2>1 DEF UpdateCredentialAudit, TypeOK, CredentialRow
  <2>3. "CompleteSession" \in Labels
    BY DEF Labels
  <2>4. req' \in [Request -> RequestState]
    BY <1>7, <2>3, GotoType DEF UpdateCredentialAudit
  <2> QED BY <1>7, <2>2, <2>4 DEF UpdateCredentialAudit, TypeOK
<1>8. CASE CompleteSession(r)
  <2>1. session' \in [Session -> SessionRow]
    BY <1>8, StatusType DEF CompleteSession, Statuses
  <2>2. "GenerateToken" \in Labels
    BY DEF Labels
  <2>3. req' \in [Request -> RequestState]
    BY <1>8, <2>2, GotoType, ReturnType DEF CompleteSession
  <2> QED BY <1>8, <2>1, <2>3 DEF CompleteSession, TypeOK
<1>9. CASE GenerateToken(r)
  <2>1. now + TokenTTL \in Nat
    BY BoundAssumption DEF TypeOK
  <2>2. NewToken(r) \in Token
    BY <1>0, <2>1 DEF RequestState, Token, NewToken
  <2>3. grants' \subseteq Token
    <3>1. grants \subseteq Token
      BY DEF TypeOK
    <3>2. grants' = grants \cup {NewToken(r)}
      BY <1>9 DEF GenerateToken
    <3> QED BY <2>2, <3>1, <3>2
  <2>4. req' \in [Request -> RequestState]
    BY <1>9, ReturnType DEF GenerateToken
  <2> QED BY <1>9, <2>3, <2>4 DEF GenerateToken, TypeOK
<1>10. CASE Deactivate(r)
  <2>1. cred' \in [Credential -> CredentialRow]
    <3>1. cred \in [Credential -> CredentialRow]
      BY DEF TypeOK
    <3>2. CASE cred' = [cred EXCEPT ![req[r].cred].active = FALSE]
      BY <3>1, <3>2 DEF CredentialRow
    <3> QED BY <1>10, <3>1, <3>2 DEF Deactivate
  <2>2. req' \in [Request -> RequestState]
    BY <1>10, ReturnType DEF Deactivate
  <2> QED BY <1>10, <2>1, <2>2 DEF Deactivate, TypeOK
<1> QED BY <1>1, <1>2, <1>3, <1>4, <1>5, <1>6, <1>7, <1>8, <1>9, <1>10

\* ---- faults, the worker, the clock and the process
LEMMA TypeFault ==
    ASSUME TypeOK, NEW r \in Request, Fault(r) PROVE TypeOK'
<1>0. req[r] \in RequestState
  BY DEF TypeOK
<1>1. faults' \in 0 .. MaxFaults
  BY BoundAssumption DEF Fault, StatementFails, ErrorIgnored, TypeOK
<1>2. CASE StatementFails(r)
  <2>1. req' \in [Request -> RequestState]
    BY <1>2, ReturnType DEF StatementFails
  <2> QED BY <1>1, <1>2, <2>1 DEF StatementFails, TypeOK
<1>3. CASE ErrorIgnored(r)
  <2>1. "SaveSession" \in Labels /\ "UpdateAudit" \in Labels
    BY DEF Labels
  <2>2. req' \in [Request -> RequestState]
    BY <1>3, <2>1, GotoType, ReturnType DEF ErrorIgnored
  <2>3. PairOf(r) \in (User \cup {None}) \X Types
    BY <1>0, TypeOfType DEF PairOf, RequestState
  <2>4. tainted' \subseteq (User \cup {None}) \X Types
    BY <1>3, <2>3 DEF ErrorIgnored, TypeOK
  <2> QED BY <1>1, <1>3, <2>2, <2>4 DEF ErrorIgnored, TypeOK
<1> QED BY <1>2, <1>3 DEF Fault

LEMMA TypeSystem ==
    ASSUME TypeOK, CleanupExpiredSessions \/ Tick \/ Restart PROVE TypeOK'
<1>1. CASE CleanupExpiredSessions
  <2>1. session' \in [Session -> SessionRow]
    BY <1>1 DEF CleanupExpiredSessions, TypeOK, SessionRow, Statuses
  <2> QED BY <1>1, <2>1 DEF CleanupExpiredSessions, TypeOK
<1>2. CASE Tick
  BY <1>2, BoundAssumption DEF Tick, TypeOK
<1>3. CASE Restart
  <2>1. session' \in [Session -> SessionRow]
    BY <1>3 DEF Restart, TypeOK, SessionRow, Statuses
  <2>2. req' \in [Request -> RequestState]
    BY <1>3, EmptyTypes DEF Restart
  <2> QED BY <1>3, <2>1, <2>2 DEF Restart, TypeOK
<1> QED BY <1>1, <1>2, <1>3

LEMMA TypeNext == TypeOK /\ [Next]_vars => TypeOK'
<1> SUFFICES ASSUME TypeOK, [Next]_vars PROVE TypeOK'
  OBVIOUS
<1>1. ASSUME NEW r \in Request, Arrive(r) \/ Step(r) \/ Fault(r) PROVE TypeOK'
  BY <1>1, TypeArrive, TypeBegin, TypeFinish, TypeFault DEF Step
<1>2. CASE UNCHANGED vars
  BY <1>2 DEF vars, TypeOK
<1> QED BY <1>1, <1>2, TypeSystem DEF Next

\* The tables, the requests' locals, the tokens and the clock always hold values
\* of their types: in particular no counter and no deadline leaves its range,
\* whatever interleaves, fails or restarts.
THEOREM TypeCorrect == Spec => []TypeOK
  BY TypeInit, TypeNext, PTL DEF Spec
=============================================================================
