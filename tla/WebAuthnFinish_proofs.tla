------------------------ MODULE WebAuthnFinish_proofs -----------------------
(***************************************************************************)
(* What a finish may accept, what a registration leaves behind and who may *)
(* close a session or lower a counter, for every value of the constants.   *)
(* A handler decides with what it read some statements ago: the invariant  *)
(* says which of it still holds at the statement that uses it.             *)
(***************************************************************************)
EXTENDS WebAuthnSafety_proofs

\* A begin: who sent it; a login has credentials to allow; the old session is of
\* its user and type and not from before a restart.
BeginOK(r) ==
    /\ req[r].pc \in {"CreateUser", "FindPending", "ExpireOld", "SaveSession"}
       => req[r].op \in BeginOps
    /\ req[r].op \in BeginOps => req[r].client \in Client
    /\ req[r].pc \in {"FindPending", "ExpireOld", "SaveSession"} /\ req[r].op = "LoginBegin"
       => DOMAIN req[r].loaded # {}
    /\ req[r].pc = "ExpireOld"
       => /\ session[req[r].old].user = req[r].user
          /\ session[req[r].old].type = TypeOf(req[r].op)
          /\ session[req[r].old].status # "DROPPED"

\* A finish and the deadline: a late one finds its session expired and does not
\* get to the validation.
DeadlineOK(r) ==
    /\ req[r].pc # "idle" /\ req[r].op \in FinishOps
       => /\ session[req[r].sid].status # "DROPPED"
          /\ req[r].late => ExpiredForService(req[r].sid)
    /\ req[r].pc = "MarkExpired" => ExpiredForService(req[r].sid)
    /\ req[r].late => /\ req[r].op \in FinishOps
                      /\ req[r].pc \in {"LoadCredentials", "MarkExpired"}

\* A finish and revoked credentials: what was revoked on arrival still is, is not
\* among the credentials loaded, and was not accepted.
RevokedOK(r) ==
    /\ \A c \in req[r].revoked : cred[c].owner # None /\ ~cred[c].active
    /\ req[r].pc = "Validate" => req[r].revoked \cap DOMAIN req[r].loaded = {}
    /\ Verified(r) /\ req[r].op = "LoginFinish" => req[r].cred \notin req[r].revoked

\* What a finish is about to write: a registration its row before it completes its
\* session, a login no smaller counter than it has loaded.
WritesOK(r) ==
    /\ req[r].pc = "SaveCredential"
       => req[r].op = "RegisterFinish" /\ req[r].cred \in Credential
    /\ req[r].pc = "CompleteSession" /\ req[r].op = "RegisterFinish"
       => /\ req[r].cred \in Credential
          /\ cred[req[r].cred].origin = req[r].sid
    /\ req[r].pc = "UpdateSignCount" => req[r].seen <= req[r].count

\* What FinishLogin has read from a pending session is of its own session if that
\* is pending.
AuditOK(r) ==
    /\ req[r].pc = "UpdateAudit"
    /\ <<req[r].user, "AUTHENTICATION">> \notin tainted
    /\ session[req[r].sid].status = "PENDING"
    => req[r].agent = session[req[r].sid].agent

\* A revocation comes from a user with a token.
RevokeOK(r) ==
    req[r].pc = "Deactivate" => \E g \in grants : g.user = req[r].user

RequestOK(r) ==
    BeginOK(r) /\ DeadlineOK(r) /\ RevokedOK(r) /\ WritesOK(r) /\ AuditOK(r) /\ RevokeOK(r)

\* A row stems from a registration of its owner; an empty row is as it was.
RowOK(c) ==
    /\ cred[c].owner = None => cred[c].count = 0 /\ cred[c].origin = None
    /\ cred[c].owner # None
       => /\ cred[c].origin \in Session
          /\ session[cred[c].origin].status # "FREE"
          /\ session[cred[c].origin].type = "REGISTRATION"
          /\ session[cred[c].origin].user = cred[c].owner

\* A session was opened by a client; a completed registration has left its row.
RecordOK(s) ==
    /\ session[s].status # "FREE" => session[s].agent \in Client
    /\ session[s].status = "COMPLETED" /\ session[s].type = "REGISTRATION"
       => \E c \in Credential : cred[c].origin = s

FinishInv ==
    /\ \A r \in Request : RequestOK(r)
    /\ \A c \in Credential : RowOK(c)
    /\ \A s \in Session : RecordOK(s)

----------------------------------------------------------------------------
(* What a step may do to the rows, the clock and the history. *)

\* A session in use keeps its deadline and its client, and its status is written
\* by an UPDATE that replaces, expires or completes it, the worker or a restart.
LEMMA StatusStep ==
    ASSUME TypeOK, [Next]_vars, NEW s \in Session, session[s].status # "FREE"
    PROVE  /\ session'[s].expires = session[s].expires
           /\ session'[s].agent = session[s].agent
           /\ \/ session'[s].status = session[s].status
              \/ /\ session'[s].status = "EXPIRED"
                 /\ \/ \E r \in Request : ExpireOld(r) /\ s = req[r].old
                    \/ \E r \in Request : MarkExpired(r) /\ s = req[r].sid
                    \/ CleanupExpiredSessions /\ s \in Overdue
              \/ /\ session'[s].status = "COMPLETED"
                 /\ \E r \in Request : CompleteSession(r) /\ s = req[r].sid
              \/ session'[s].status = "DROPPED" /\ Restart
<1>0. session \in [Session -> SessionRow]
  BY DEF TypeOK
<1>1. ASSUME UNCHANGED session
      PROVE  /\ session'[s].expires = session[s].expires
             /\ session'[s].agent = session[s].agent
             /\ session'[s].status = session[s].status
  BY <1>1
<1>2. ASSUME NEW t, NEW status, session' = [session EXCEPT ![t].status = status]
      PROVE  /\ session'[s].expires = session[s].expires
             /\ session'[s].agent = session[s].agent
             /\ \/ session'[s].status = session[s].status
                \/ s = t /\ session'[s].status = status
  BY <1>0, <1>2 DEF SessionRow
<1>3. ASSUME NEW r \in Request, Step(r)
      PROVE  /\ session'[s].expires = session[s].expires
             /\ session'[s].agent = session[s].agent
             /\ \/ session'[s].status = session[s].status
                \/ ExpireOld(r) /\ s = req[r].old /\ session'[s].status = "EXPIRED"
                \/ MarkExpired(r) /\ s = req[r].sid /\ session'[s].status = "EXPIRED"
                \/ CompleteSession(r) /\ s = req[r].sid /\ session'[s].status = "COMPLETED"
  <2>1. CASE ExpireOld(r)
    BY <1>2, <2>1 DEF ExpireOld
  <2>2. CASE MarkExpired(r)
    BY <1>2, <2>2 DEF MarkExpired
  <2>3. CASE CompleteSession(r)
    BY <1>2, <2>3 DEF CompleteSession
  <2>4. CASE SaveSession(r)
    BY <1>0, <2>4 DEF SaveSession
  <2>5. CASE \/ CreateUser(r) \/ LoadForBegin(r) \/ FindPending(r)
             \/ LoadForFinish(r) \/ Validate(r) \/ SaveCredential(r)
             \/ UpdateSignCount(r) \/ ReadAudit(r) \/ UpdateCredentialAudit(r)
             \/ GenerateToken(r) \/ Deactivate(r)
    BY <1>1, <2>5 DEF CreateUser, LoadForBegin, FindPending, LoadForFinish, Validate,
       SaveCredential, UpdateSignCount, ReadAudit, UpdateCredentialAudit,
       GenerateToken, Deactivate
  <2> QED BY <1>3, <2>1, <2>2, <2>3, <2>4, <2>5 DEF Step
<1>4. ASSUME NEW r \in Request, Arrive(r) \/ Fault(r) PROVE UNCHANGED session
  BY <1>4 DEF Arrive, BeginRegistration, BeginLogin, Finish, RevokeCredential,
     Fault, StatementFails, ErrorIgnored
<1>5. CASE CleanupExpiredSessions
  BY <1>0, <1>5 DEF CleanupExpiredSessions, SessionRow
<1>6. CASE Restart
  BY <1>0, <1>6 DEF Restart, SessionRow
<1>7. CASE Tick \/ UNCHANGED vars
  BY <1>1, <1>7 DEF Tick, vars
<1> QED BY <1>1, <1>3, <1>4, <1>5, <1>6, <1>7 DEF Next

\* An empty row is filled by the INSERT only: the UPDATEs go to rows with an owner.
LEMMA RowStep ==
    ASSUME TypeOK, IInv, [Next]_vars, NEW c \in Credential, cred[c].owner = None
    PROVE  \/ cred'[c] = cred[c]
           \/ \E r \in Request : /\ SaveCredential(r) /\ c = req[r].cred
                                 /\ cred'[c] = NewCredential(r)
<1>0. cred \in [Credential -> CredentialRow] /\ None \notin User
  BY NoneAssumption DEF TypeOK
<1>1. ASSUME NEW r \in Request, Step(r)
      PROVE  \/ cred'[c] = cred[c]
             \/ /\ SaveCredential(r) /\ c = req[r].cred
                /\ cred'[c] = NewCredential(r)
  <2>0. LocalsOK(r)
    BY DEF IInv
  <2>1. CASE SaveCredential(r)
    BY <1>0, <2>1 DEF SaveCredential
  <2>2. CASE UpdateSignCount(r)
    BY <1>0, <2>0, <2>2 DEF UpdateSignCount, LocalsOK, Verified
  <2>3. CASE UpdateCredentialAudit(r)
    BY <1>0, <2>0, <2>3 DEF UpdateCredentialAudit, LocalsOK, Verified
  <2>4. CASE Deactivate(r)
    BY <1>0, <2>0, <2>4 DEF Deactivate, LocalsOK
  <2>5. CASE \/ CreateUser(r) \/ LoadForBegin(r) \/ FindPending(r) \/ ExpireOld(r)
             \/ SaveSession(r) \/ LoadForFinish(r) \/ MarkExpired(r) \/ Validate(r)
             \/ ReadAudit(r) \/ CompleteSession(r) \/ GenerateToken(r)
    BY <2>5 DEF CreateUser, LoadForBegin, FindPending, ExpireOld, SaveSession,
       LoadForFinish, MarkExpired, Validate, ReadAudit, CompleteSession, GenerateToken
  <2> QED BY <1>1, <2>1, <2>2, <2>3, <2>4, <2>5 DEF Step
<1>2. ASSUME NEW r \in Request, Arrive(r) \/ Fault(r) PROVE UNCHANGED cred
  BY <1>2 DEF Arrive, BeginRegistration, BeginLogin, Finish, RevokeCredential,
     Fault, StatementFails, ErrorIgnored
<1>3. CASE CleanupExpiredSessions \/ Tick \/ Restart \/ UNCHANGED vars
  BY <1>3 DEF CleanupExpiredSessions, Tick, Restart, vars
<1> QED BY <1>1, <1>2, <1>3 DEF Next

\* The counter of a row with an owner is written by the login's UPDATE only.
LEMMA CountStep ==
    ASSUME TypeOK, [Next]_vars, NEW c \in Credential, cred[c].owner # None,
           cred'[c].count # cred[c].count
    PROVE  \E r \in Request : /\ UpdateSignCount(r) /\ c = req[r].cred
                              /\ cred'[c].count = req[r].count
<1>0. cred \in [Credential -> CredentialRow]
  BY DEF TypeOK
<1>1. ASSUME NEW r \in Request, Step(r)
      PROVE  /\ UpdateSignCount(r) /\ c = req[r].cred
             /\ cred'[c].count = req[r].count
  <2>1. CASE SaveCredential(r)
    BY <1>0, <2>1 DEF SaveCredential
  <2>2. CASE UpdateSignCount(r)
    BY <1>0, <2>2 DEF UpdateSignCount, CredentialRow
  <2>3. CASE UpdateCredentialAudit(r)
    BY <1>0, <2>3 DEF UpdateCredentialAudit, CredentialRow
  <2>4. CASE Deactivate(r)
    BY <1>0, <2>4 DEF Deactivate, CredentialRow
  <2>5. CASE \/ CreateUser(r) \/ LoadForBegin(r) \/ FindPending(r) \/ ExpireOld(r)
             \/ SaveSession(r) \/ LoadForFinish(r) \/ MarkExpired(r) \/ Validate(r)
             \/ ReadAudit(r) \/ CompleteSession(r) \/ GenerateToken(r)
    BY <2>5 DEF CreateUser, LoadForBegin, FindPending, ExpireOld, SaveSession,
       LoadForFinish, MarkExpired, Validate, ReadAudit, CompleteSession, GenerateToken
  <2> QED BY <1>1, <2>1, <2>2, <2>3, <2>4, <2>5 DEF Step
<1>2. ASSUME NEW r \in Request, Arrive(r) \/ Fault(r) PROVE UNCHANGED cred
  BY <1>2 DEF Arrive, BeginRegistration, BeginLogin, Finish, RevokeCredential,
     Fault, StatementFails, ErrorIgnored
<1>3. CASE CleanupExpiredSessions \/ Tick \/ Restart \/ UNCHANGED vars
  BY <1>3 DEF CleanupExpiredSessions, Tick, Restart, vars
<1> QED BY <1>1, <1>2, <1>3 DEF Next

\* The clock does not go back, tokens are not taken back, and only a restart
\* forgets a taint.
LEMMA HistoryStep ==
    ASSUME TypeOK, [Next]_vars
    PROVE  /\ now <= now'
           /\ grants \subseteq grants'
           /\ Restart \/ tainted \subseteq tainted'
<1>0. now \in Nat
  BY DEF TypeOK
<1>1. ASSUME NEW r \in Request, Step(r)
      PROVE  now' = now /\ grants \subseteq grants' /\ tainted \subseteq tainted'
  <2>1. CASE FindPending(r)
    BY <2>1 DEF FindPending
  <2>2. CASE GenerateToken(r)
    BY <2>2 DEF GenerateToken
  <2>3. CASE ~FindPending(r) /\ ~GenerateToken(r)
    BY <1>1, <2>3 DEF Step, CreateUser, LoadForBegin, ExpireOld, SaveSession,
       LoadForFinish, MarkExpired, Validate, SaveCredential, UpdateSignCount,
       ReadAudit, UpdateCredentialAudit, CompleteSession, Deactivate
  <2> QED BY <2>1, <2>2, <2>3
<1>2. ASSUME NEW r \in Request, Arrive(r) \/ Fault(r)
      PROVE  now' = now /\ grants' = grants /\ tainted \subseteq tainted'
  BY <1>2 DEF Arrive, BeginRegistration, BeginLogin, Finish, RevokeCredential,
     Fault, StatementFails, ErrorIgnored
<1>3. CASE CleanupExpiredSessions \/ Tick \/ Restart \/ UNCHANGED vars
  BY <1>0, <1>3 DEF CleanupExpiredSessions, Tick, Restart, vars
<1> QED BY <1>0, <1>1, <1>2, <1>3 DEF Next

----------------------------------------------------------------------------
(* The invariant is inductive. *)

LEMMA FinishInit == Init => FinishInv
  BY DEF Init, FinishInv, RequestOK, BeginOK, DeadlineOK, RevokedOK, WritesOK, AuditOK,
     RevokeOK, RowOK, RecordOK, Verified, NoRequest, NoSession, NoCredential, BeginOps, NoLoad

\* What a request under way has established of the rows holds in the next state,
\* whoever takes the step.
LEMMA WorldFacts ==
    ASSUME TypeOK, IInv, FinishInv, [Next]_vars, ~Restart,
           NEW q \in Request, req[q].pc # "idle"
    PROVE  /\ req[q].pc = "ExpireOld"
              => /\ session'[req[q].old].user = req[q].user
                 /\ session'[req[q].old].type = TypeOf(req[q].op)
                 /\ session'[req[q].old].status # "DROPPED"
           /\ req[q].op \in FinishOps
              => /\ req[q].sid \in Session
                 /\ session'[req[q].sid].status # "DROPPED"
                 /\ session'[req[q].sid].expires = session[req[q].sid].expires
                 /\ session'[req[q].sid].agent = session[req[q].sid].agent
                 /\ session'[req[q].sid].status = "PENDING"
                    => session[req[q].sid].status = "PENDING"
                 /\ ExpiredForService(req[q].sid)
                    => session'[req[q].sid].expires < now'
           /\ \A c \in req[q].revoked : cred'[c].owner # None /\ ~cred'[c].active
           /\ req[q].pc = "CompleteSession" /\ req[q].op = "RegisterFinish"
              => /\ req[q].cred \in Credential
                 /\ cred'[req[q].cred].origin = req[q].sid
           /\ req[q].pc = "Deactivate" => \E g \in grants' : g.user = req[q].user
           /\ tainted \subseteq tainted'
<1>0. /\ LocalsOK(q)
      /\ req[q] \in RequestState
      /\ BeginOK(q) /\ DeadlineOK(q) /\ RevokedOK(q) /\ WritesOK(q) /\ RevokeOK(q)
  BY DEF IInv, TypeOK, FinishInv, RequestOK
<1>1. /\ now \in Nat /\ now' \in Nat
      /\ now <= now'
      /\ grants \subseteq grants'
      /\ tainted \subseteq tainted'
  BY HistoryStep, TypeNext DEF TypeOK
<1>2. ASSUME req[q].pc = "ExpireOld"
      PROVE  /\ session'[req[q].old].user = req[q].user
             /\ session'[req[q].old].type = TypeOf(req[q].op)
             /\ session'[req[q].old].status # "DROPPED"
  <2>1. req[q].old \in Session /\ session[req[q].old].status # "FREE"
    BY <1>0, <1>2 DEF LocalsOK
  <2> QED BY <1>0, <1>2, <2>1, StatusStep, SessionStep DEF BeginOK, SessionKept
<1>3. ASSUME req[q].op \in FinishOps
      PROVE  /\ req[q].sid \in Session
             /\ session'[req[q].sid].status # "DROPPED"
             /\ session'[req[q].sid].expires = session[req[q].sid].expires
             /\ session'[req[q].sid].agent = session[req[q].sid].agent
             /\ session'[req[q].sid].status = "PENDING"
                => session[req[q].sid].status = "PENDING"
             /\ ExpiredForService(req[q].sid)
                => session'[req[q].sid].expires < now'
  <2>1. req[q].sid \in Session /\ session[req[q].sid].status # "FREE"
    BY <1>0, <1>3 DEF LocalsOK
  <2>2. session[req[q].sid].expires \in Nat
    BY <2>1 DEF TypeOK, SessionRow
  <2>3. session[req[q].sid].status # "DROPPED"
    BY <1>0, <1>3 DEF DeadlineOK
  <2>4. /\ session'[req[q].sid].expires = session[req[q].sid].expires
        /\ session'[req[q].sid].agent = session[req[q].sid].agent
        /\ session'[req[q].sid].status # "DROPPED"
        /\ session'[req[q].sid].status = "PENDING"
           => session[req[q].sid].status = "PENDING"
    BY <2>1, <2>3, StatusStep
  <2> QED BY <1>1, <2>1, <2>2, <2>4 DEF ExpiredForService
<1>4. \A c \in req[q].revoked : cred'[c].owner # None /\ ~cred'[c].active
  <2>1. \A c \in req[q].revoked : c \in Credential
    BY <1>0 DEF RequestState
  <2> QED BY <1>0, <2>1, CredentialStep DEF RevokedOK, CredentialKept
<1>5. ASSUME req[q].pc = "CompleteSession", req[q].op = "RegisterFinish"
      PROVE  /\ req[q].cred \in Credential
             /\ cred'[req[q].cred].origin = req[q].sid
  <2>1. req[q].cred \in Credential /\ cred[req[q].cred].origin = req[q].sid
    BY <1>0, <1>5 DEF WritesOK
  <2>2. req[q].sid \in Session
    BY <1>3, <1>5 DEF FinishOps
  <2>3. cred[req[q].cred].owner # None
    BY <2>1, <2>2, NoneAssumption DEF FinishInv, RowOK
  <2> QED BY <2>1, <2>3, CredentialStep DEF CredentialKept
<1>6. req[q].pc = "Deactivate" => \E g \in grants' : g.user = req[q].user
  BY <1>0, <1>1 DEF RevokeOK
<1> QED BY <1>1, <1>2, <1>3, <1>4, <1>5, <1>6

\* It holds while other processes act.
LEMMA RequestKept ==
    ASSUME TypeOK, IInv, FinishInv, [Next]_vars, NEW q \in Request, req'[q] = req[q]
    PROVE  RequestOK(q)'
<1>0. RequestOK(q) /\ LocalsOK(q)
  BY DEF FinishInv, IInv
<1>1. CASE req[q].pc = "idle"
  <2>1. \A c \in req[q].revoked : c \in Credential
    BY DEF TypeOK, RequestState
  <2>2. \A c \in req[q].revoked : cred'[c].owner # None /\ ~cred'[c].active
    BY <1>0, <2>1, CredentialStep DEF RequestOK, RevokedOK, CredentialKept
  <2> QED BY <1>0, <1>1, <2>2 DEF RequestOK, BeginOK, DeadlineOK, RevokedOK, WritesOK,
          AuditOK, RevokeOK, Verified
<1>2. CASE req[q].pc # "idle" /\ ~Restart
  <2>1. BeginOK(q)'
    BY <1>0, <1>2, WorldFacts DEF RequestOK, BeginOK
  <2>2. DeadlineOK(q)'
    BY <1>0, <1>2, WorldFacts DEF RequestOK, DeadlineOK, LocalsOK, Verified, ExpiredForService
  <2>3. RevokedOK(q)'
    BY <1>0, <1>2, WorldFacts DEF RequestOK, RevokedOK, Verified
  <2>4. WritesOK(q)'
    BY <1>0, <1>2, WorldFacts DEF RequestOK, WritesOK
  <2>5. AuditOK(q)'
    BY <1>0, <1>2, WorldFacts DEF RequestOK, AuditOK, LocalsOK, FinishOps
  <2>6. RevokeOK(q)'
    BY <1>0, <1>2, WorldFacts DEF RequestOK, RevokeOK
  <2> QED BY <2>1, <2>2, <2>3, <2>4, <2>5, <2>6 DEF RequestOK
<1>3. CASE req[q].pc # "idle" /\ Restart
  <2>1. req'[q].pc = "idle"
    BY <1>3 DEF Restart, NoRequest
  <2> QED BY <1>3, <2>1
<1> QED BY <1>1, <1>2, <1>3

\* An answered request has nothing established.
LEMMA RequestReturned ==
    ASSUME NEW r \in Request, req'[r] = NoRequest PROVE RequestOK(r)'
  BY DEF RequestOK, BeginOK, DeadlineOK, RevokedOK, WritesOK, AuditOK, RevokeOK,
     Verified, NoRequest, BeginOps

\* A request that moves on keeps what it has established, provided it has what the
\* next statement asks for.
LEMMA RequestMoved ==
    ASSUME TypeOK, IInv, FinishInv, [Next]_vars, NEW r \in Request, NEW label \in Labels,
           req[r].pc # "idle", Goto(r, label),
           label \notin {"idle", "CreateUser", "FindPending", "ExpireOld", "Validate",
                         "SaveCredential", "UpdateSignCount", "Deactivate"},
           label = "SaveSession" => req[r].pc \in {"FindPending", "ExpireOld"},
           label = "MarkExpired" => /\ req[r].op \in FinishOps
                                    /\ ExpiredForService(req[r].sid),
           label \in {"ReadAudit", "UpdateAudit", "CompleteSession", "GenerateToken"}
             => Verified(r),
           label = "UpdateAudit"
             => \/ <<req[r].user, "AUTHENTICATION">> \in tainted'
                \/ session'[req[r].sid].status # "PENDING"
                \/ req[r].agent = session'[req[r].sid].agent,
           label = "CompleteSession" /\ req[r].op = "RegisterFinish"
             => req[r].cred \in Credential /\ cred'[req[r].cred].origin = req[r].sid
    PROVE  RequestOK(r)'
<1>0. RequestOK(r) /\ LocalsOK(r) /\ req \in [Request -> RequestState]
  BY DEF FinishInv, IInv, TypeOK
<1>1. req'[r] = [req[r] EXCEPT !.pc = label] /\ req[r] \in RequestState
  BY <1>0 DEF Goto
<1>2. /\ req'[r].pc = label /\ req'[r].op = req[r].op /\ req'[r].user = req[r].user
      /\ req'[r].client = req[r].client /\ req'[r].sid = req[r].sid
      /\ req'[r].old = req[r].old /\ req'[r].loaded = req[r].loaded
      /\ req'[r].cred = req[r].cred /\ req'[r].seen = req[r].seen
      /\ req'[r].count = req[r].count /\ req'[r].agent = req[r].agent
      /\ req'[r].revoked = req[r].revoked
  BY <1>1 DEF RequestState
<1>3. req'[r].late = req[r].late
  BY <1>1 DEF RequestState
<1>4. ~Restart
  BY <1>2 DEF Restart, NoRequest
<1>5. BeginOK(r)'
  BY <1>0, <1>2 DEF RequestOK, BeginOK
<1>6. DeadlineOK(r)'
  <2>1. req[r].op \in FinishOps => /\ session'[req[r].sid].status # "DROPPED"
                                   /\ req[r].late => session'[req[r].sid].expires < now'
    BY <1>0, <1>4, WorldFacts DEF RequestOK, DeadlineOK
  <2>2. label = "MarkExpired" => session'[req[r].sid].expires < now'
    BY <1>4, WorldFacts
  <2>3. req[r].late => /\ req[r].op \in FinishOps
                       /\ label \in {"LoadCredentials", "MarkExpired"}
    BY <1>0 DEF RequestOK, DeadlineOK, Verified, Labels
  <2> QED BY <1>2, <1>3, <2>1, <2>2, <2>3 DEF DeadlineOK, ExpiredForService
<1>7. RevokedOK(r)'
  <2>1. Verified(r)' => Verified(r)
    BY <1>2 DEF Verified
  <2> QED BY <1>0, <1>2, <1>4, <2>1, WorldFacts DEF RequestOK, RevokedOK
<1>8. WritesOK(r)'
  BY <1>2 DEF WritesOK
<1>9. AuditOK(r)'
  BY <1>2 DEF AuditOK
<1>10. RevokeOK(r)'
  BY <1>2 DEF RevokeOK
<1> QED BY <1>5, <1>6, <1>7, <1>8, <1>9, <1>10 DEF RequestOK

\* A request that arrives: a finish takes down what is expired and revoked.
LEMMA RequestArrive ==
    ASSUME TypeOK, IInv, FinishInv, NEW r \in Request, Arrive(r) PROVE RequestOK(r)'
<1>0. req \in [Request -> RequestState]
  BY DEF TypeOK
<1>1. CASE BeginRegistration(r) \/ BeginLogin(r)
  <2>1. /\ req'[r].op \in {"RegisterBegin", "LoginBegin"}
        /\ req'[r].pc \in {"CreateUser", "LoadCredentials"}
        /\ req'[r].client \in Client
        /\ req'[r].revoked = {}
        /\ ~req'[r].late
    <3>1. CASE BeginRegistration(r)
      BY <1>0, <3>1 DEF BeginRegistration, NoRequest
    <3>2. CASE BeginLogin(r)
      BY <1>0, <3>2 DEF BeginLogin, NoRequest
    <3> QED BY <1>1, <3>1, <3>2
  <2> QED BY <2>1 DEF RequestOK, BeginOK, DeadlineOK, RevokedOK, WritesOK, AuditOK,
          RevokeOK, Verified, BeginOps, FinishOps
<1>2. CASE Finish(r)
  <2> DEFINE gone == {c \in Credential : cred[c].owner # None /\ ~cred[c].active}
             overdue(s) == session[s].expires < now
  <2>1. PICK s \in Session, op \in FinishOps :
          /\ session[s].status = "PENDING"
          /\ req' = [req EXCEPT ![r] =
                [NoRequest EXCEPT !.op = op, !.pc = "LoadCredentials",
                                  !.user = session[s].user, !.sid = s,
                                  !.late = overdue(s), !.revoked = gone]]
    BY <1>2 DEF Finish
  <2> HIDE DEF gone
  <2>2. /\ req'[r].op = op
        /\ req'[r].pc = "LoadCredentials"
        /\ req'[r].sid = s
        /\ req'[r].revoked = gone
    BY <1>0, <2>1 DEF NoRequest
  <2>3. req'[r].late = overdue(s)
    BY <1>0, <2>1 DEF NoRequest
  <2>4. UNCHANGED <<session, cred, now>>
    BY <1>2 DEF Finish
  <2>5. \A c \in gone : cred[c].owner # None /\ ~cred[c].active
    BY DEF gone
  <2>6. BeginOK(r)' /\ WritesOK(r)' /\ AuditOK(r)' /\ RevokeOK(r)'
    BY <2>2 DEF BeginOK, WritesOK, AuditOK, RevokeOK, BeginOps, FinishOps
  <2>7. RevokedOK(r)'
    BY <2>2, <2>4, <2>5 DEF RevokedOK, Verified
  <2>8. DeadlineOK(r)'
    <3>1. session'[req'[r].sid].status # "DROPPED"
      BY <2>1, <2>2, <2>4
    <3>2. req'[r].late => session'[req'[r].sid].expires < now'
      BY <2>2, <2>3, <2>4
    <3> QED BY <2>2, <3>1, <3>2 DEF DeadlineOK, Verified, ExpiredForService
  <2> QED BY <2>6, <2>7, <2>8 DEF RequestOK
<1>3. CASE RevokeCredential(r)
  <2>1. PICK g \in grants :
          /\ req'[r].op = "Revoke"
          /\ req'[r].pc = "Deactivate"
          /\ req'[r].user = g.user
          /\ req'[r].revoked = {}
          /\ ~req'[r].late
    BY <1>0, <1>3 DEF RevokeCredential, NoRequest
  <2>2. grants' = grants
    BY <1>3 DEF RevokeCredential
  <2> QED BY <2>1, <2>2 DEF RequestOK, BeginOK, DeadlineOK, RevokedOK, WritesOK, AuditOK,
          RevokeOK, Verified, BeginOps, FinishOps
<1> QED BY <1>1, <1>2, <1>3 DEF Arrive

\* A begin loads what it will allow and finds an old session of its pair.
LEMMA RequestBegin ==
    ASSUME TypeOK, IInv, FinishInv, [Next]_vars, NEW r \in Request,
           \/ CreateUser(r) \/ LoadForBegin(r) \/ FindPending(r)
           \/ ExpireOld(r) \/ SaveSession(r)
    PROVE  RequestOK(r)'
<1>0. /\ RequestOK(r) /\ LocalsOK(r)
      /\ req \in [Request -> RequestState]
      /\ req[r] \in RequestState
  BY DEF FinishInv, IInv, TypeOK
<1>1. Return(r) => RequestOK(r)'
  BY <1>0, RequestReturned DEF Return
<1>2. CASE CreateUser(r)
  BY <1>1, <1>2, RequestMoved DEF CreateUser, Labels
<1>3. CASE LoadForBegin(r)
  <2>1. /\ req[r].op \in BeginOps
        /\ req[r].pc = "LoadCredentials"
    BY <1>3 DEF LoadForBegin
  <2>2. ASSUME ~(req[r].op = "LoginBegin" /\ DOMAIN Snapshot(req[r].user) = {}),
               req' = [req EXCEPT ![r].pc = "FindPending",
                                  ![r].expires = now + Timeout,
                                  ![r].loaded = Snapshot(req[r].user)]
        PROVE  RequestOK(r)'
    <3> HIDE DEF Snapshot
    <3>1. /\ req'[r].pc = "FindPending"
          /\ req'[r].op = req[r].op
          /\ req'[r].client = req[r].client
          /\ req'[r].loaded = Snapshot(req[r].user)
          /\ req'[r].revoked = req[r].revoked
      BY <1>0, <2>2 DEF RequestState
    <3>2. ~Restart
      BY <3>1 DEF Restart, NoRequest
    <3>3. \A c \in req[r].revoked : cred'[c].owner # None /\ ~cred'[c].active
      BY <2>1, <3>2, WorldFacts
    <3>4. req[r].client \in Client
      BY <1>0, <2>1 DEF RequestOK, BeginOK
    <3>5. req[r].op \notin FinishOps /\ ~req'[r].late
      <4>1. req'[r].late = req[r].late
        BY <1>0, <2>2 DEF RequestState
      <4> QED BY <1>0, <2>1, <4>1 DEF RequestOK, DeadlineOK, BeginOps, FinishOps
    <3>6. BeginOK(r)'
      BY <2>1, <2>2, <3>1, <3>4 DEF BeginOK
    <3>7. RevokedOK(r)'
      BY <3>1, <3>3 DEF RevokedOK, Verified
    <3> QED BY <3>1, <3>5, <3>6, <3>7 DEF RequestOK, DeadlineOK, WritesOK, AuditOK,
            RevokeOK, Verified
  <2> QED BY <1>1, <1>3, <2>2 DEF LoadForBegin
<1>4. CASE FindPending(r)
  <2>0. req[r].pc = "FindPending" /\ UNCHANGED <<session, cred>>
    BY <1>4 DEF FindPending
  <2>1. ASSUME NEW s \in Pending(req[r].user, TypeOf(req[r].op)),
               req' = [req EXCEPT ![r].pc = "ExpireOld", ![r].old = s]
        PROVE  RequestOK(r)'
    <3>1. /\ req'[r].pc = "ExpireOld"
          /\ req'[r].old = s
          /\ req'[r].op = req[r].op
          /\ req'[r].user = req[r].user
          /\ req'[r].client = req[r].client
          /\ req'[r].loaded = req[r].loaded
          /\ req'[r].revoked = req[r].revoked
      BY <1>0, <2>1 DEF RequestState
    <3>2. BeginOK(r)'
      BY <1>0, <2>0, <3>1 DEF RequestOK, BeginOK, Pending
    <3>3. RevokedOK(r)'
      BY <1>0, <2>0, <3>1 DEF RequestOK, RevokedOK, Verified
    <3>4. req[r].op \notin FinishOps /\ ~req'[r].late
      <4>1. req'[r].late = req[r].late
        BY <1>0, <2>1 DEF RequestState
      <4> QED BY <1>0, <2>0, <4>1 DEF RequestOK, BeginOK, DeadlineOK, BeginOps, FinishOps
    <3> QED BY <3>1, <3>2, <3>3, <3>4 DEF RequestOK, DeadlineOK, WritesOK, AuditOK,
            RevokeOK, Verified
  <2>2. ASSUME Goto(r, "SaveSession") PROVE RequestOK(r)'
    BY <2>0, <2>2, RequestMoved DEF Labels
  <2> QED BY <1>4, <2>1, <2>2 DEF FindPending, PairOf
<1>5. CASE ExpireOld(r)
  BY <1>5, RequestMoved DEF ExpireOld, Labels
<1>6. CASE SaveSession(r)
  BY <1>1, <1>6 DEF SaveSession
<1> QED BY <1>2, <1>3, <1>4, <1>5, <1>6

\* The checks of a finish: the deadline before it loads, the loaded credentials and
\* the counter in the validation, the row of a registration before its session.
LEMMA RequestFinish ==
    ASSUME TypeOK, IInv, FinishInv, [Next]_vars, NEW r \in Request,
           \/ LoadForFinish(r) \/ MarkExpired(r) \/ Validate(r) \/ SaveCredential(r)
           \/ UpdateSignCount(r) \/ UpdateCredentialAudit(r)
           \/ CompleteSession(r) \/ GenerateToken(r) \/ Deactivate(r)
    PROVE  RequestOK(r)'
<1>0. /\ RequestOK(r) /\ LocalsOK(r)
      /\ req \in [Request -> RequestState]
      /\ req[r] \in RequestState
  BY DEF FinishInv, IInv, TypeOK
<1>1. Return(r) => RequestOK(r)'
  BY <1>0, RequestReturned DEF Return
<1>2. CASE LoadForFinish(r)
  <2>0. /\ req[r].pc = "LoadCredentials" /\ req[r].op \in FinishOps
        /\ UNCHANGED <<session, cred, now>>
    BY <1>2 DEF LoadForFinish
  <2>1. ASSUME ~ExpiredForService(req[r].sid),
               req' = [req EXCEPT ![r].pc = "Validate",
                                  ![r].loaded = Snapshot(req[r].user)]
        PROVE  RequestOK(r)'
    <3>1. \A c \in DOMAIN Snapshot(req[r].user) : cred[c].active
      BY DEF Snapshot, Active
    <3> HIDE DEF Snapshot
    <3>2. /\ req'[r].pc = "Validate"
          /\ req'[r].op = req[r].op
          /\ req'[r].sid = req[r].sid
          /\ req'[r].loaded = Snapshot(req[r].user)
          /\ req'[r].revoked = req[r].revoked
      BY <1>0, <2>1 DEF RequestState
    <3>3. req'[r].late = req[r].late
      BY <1>0, <2>1 DEF RequestState
    <3>4. ~req[r].late /\ session[req[r].sid].status # "DROPPED"
      BY <1>0, <2>0, <2>1 DEF RequestOK, DeadlineOK
    <3>5. DeadlineOK(r)'
      BY <2>0, <3>2, <3>3, <3>4 DEF DeadlineOK
    <3>6. RevokedOK(r)'
      BY <1>0, <2>0, <3>1, <3>2 DEF RequestOK, RevokedOK, Verified
    <3>7. BeginOK(r)'
      BY <2>0, <3>2 DEF BeginOK, BeginOps, FinishOps
    <3> QED BY <3>2, <3>5, <3>6, <3>7 DEF RequestOK, WritesOK, AuditOK, RevokeOK
  <2> QED BY <1>2, <2>0, <2>1, RequestMoved DEF LoadForFinish, Labels
<1>3. CASE MarkExpired(r) \/ GenerateToken(r) \/ Deactivate(r)
  BY <1>1, <1>3 DEF MarkExpired, GenerateToken, Deactivate
<1>4. CASE Validate(r)
  <2>0. /\ req[r].pc = "Validate" /\ req[r].op \in FinishOps
        /\ UNCHANGED <<session, cred, now>>
        /\ ~req[r].late /\ session[req[r].sid].status # "DROPPED"
        /\ req[r].revoked \cap DOMAIN req[r].loaded = {}
        /\ \A c \in req[r].revoked : cred[c].owner # None /\ ~cred[c].active
    BY <1>0, <1>4 DEF Validate, LocalsOK, RequestOK, DeadlineOK, RevokedOK
  <2>1. ASSUME NEW label \in {"SaveCredential", "UpdateSignCount"},
               req'[r].pc = label,
               label = "SaveCredential" <=> req[r].op = "RegisterFinish",
               label = "SaveCredential" => req'[r].cred \in Credential,
               req'[r].op = req[r].op,
               req'[r].sid = req[r].sid,
               req'[r].late = req[r].late,
               req'[r].revoked = req[r].revoked,
               label = "UpdateSignCount"
                 => req'[r].cred \notin req[r].revoked /\ req'[r].seen <= req'[r].count
        PROVE  RequestOK(r)'
    <3>1. BeginOK(r)'
      BY <2>0, <2>1 DEF BeginOK, BeginOps, FinishOps
    <3>2. DeadlineOK(r)'
      BY <2>0, <2>1 DEF DeadlineOK
    <3>3. RevokedOK(r)'
      BY <2>0, <2>1 DEF RevokedOK, FinishOps
    <3> QED BY <2>1, <3>1, <3>2, <3>3 DEF RequestOK, WritesOK, AuditOK, RevokeOK
  <2>2. ASSUME NEW c \in Credential, NEW n,
               req[r].op = "RegisterFinish",
               req' = [req EXCEPT ![r].pc = "SaveCredential", ![r].loaded = NoLoad,
                                  ![r].cred = c, ![r].count = n]
        PROVE  RequestOK(r)'
    <3>1. /\ req'[r].pc = "SaveCredential"
          /\ req'[r].op = req[r].op
          /\ req'[r].sid = req[r].sid
          /\ req'[r].cred = c
          /\ req'[r].revoked = req[r].revoked
      BY <1>0, <2>2 DEF RequestState
    <3>2. req'[r].late = req[r].late
      BY <1>0, <2>2 DEF RequestState
    <3> QED BY <2>1, <2>2, <3>1, <3>2
  <2>3. ASSUME NEW c \in Credential, NEW n \in Count, NEW challenge,
               Verifies(r, c, challenge), req[r].op = "LoginFinish",
               req' = [req EXCEPT ![r].pc = "UpdateSignCount",
                                  ![r].loaded = NoLoad,
                                  ![r].cred = c,
                                  ![r].seen = req[r].loaded[c],
                                  ![r].count = UpdateCounter(req[r].loaded[c], n)]
        PROVE  RequestOK(r)'
    <3> DEFINE seen == req[r].loaded[c]
    <3>1. c \in DOMAIN req[r].loaded
      BY <2>3 DEF Verifies
    <3>2. seen \in Nat /\ n \in Nat
      BY <1>0, <2>3, <3>1 DEF RequestState, Loads, Count
    <3>3. seen <= UpdateCounter(seen, n)
      BY <3>2 DEF UpdateCounter
    <3> HIDE DEF seen
    <3>4. req' = [req EXCEPT ![r].pc = "UpdateSignCount", ![r].loaded = NoLoad,
                             ![r].cred = c, ![r].seen = seen,
                             ![r].count = UpdateCounter(seen, n)]
      BY <2>3 DEF seen
    <3>5. /\ req'[r].pc = "UpdateSignCount"
          /\ req'[r].op = req[r].op
          /\ req'[r].sid = req[r].sid
          /\ req'[r].cred = c
          /\ req'[r].seen = seen
          /\ req'[r].count = UpdateCounter(seen, n)
          /\ req'[r].revoked = req[r].revoked
      BY <1>0, <3>4 DEF RequestState
    <3>6. req'[r].late = req[r].late
      BY <1>0, <3>4 DEF RequestState
    <3> QED BY <2>0, <2>1, <2>3, <3>1, <3>3, <3>5, <3>6
  <2> QED BY <1>1, <1>4, <2>2, <2>3 DEF Validate
<1>5. CASE SaveCredential(r)
  <2>1. /\ req[r].pc = "SaveCredential" /\ req[r].op \in FinishOps
    BY <1>0, <1>5 DEF SaveCredential, LocalsOK
  <2>2. CASE Return(r)
    BY <1>1, <2>2
  <2>3. CASE /\ Goto(r, "CompleteSession")
             /\ cred[req[r].cred].owner = None
             /\ cred' = [cred EXCEPT ![req[r].cred] = NewCredential(r)]
    <3>1. req[r].cred \in Credential
      BY <1>0, <2>1 DEF RequestOK, WritesOK
    <3>2. cred'[req[r].cred].origin = req[r].sid
      BY <2>3, <3>1 DEF NewCredential, NoCredential, TypeOK
    <3> QED BY <2>1, <2>3, <3>1, <3>2, RequestMoved DEF Labels, Verified
  <2> QED BY <1>5, <2>2, <2>3 DEF SaveCredential
<1>6. CASE UpdateSignCount(r)
  BY <1>6, RequestMoved DEF UpdateSignCount, Labels, Verified
<1>7. CASE UpdateCredentialAudit(r)
  <2>1. req[r].pc = "UpdateAudit" /\ req[r].op = "LoginFinish"
    BY <1>0, <1>7 DEF UpdateCredentialAudit, LocalsOK
  <2> QED BY <1>7, <2>1, RequestMoved DEF UpdateCredentialAudit, Labels, Verified
<1>8. CASE CompleteSession(r)
  BY <1>1, <1>8, RequestMoved DEF CompleteSession, Labels, Verified
<1> QED BY <1>2, <1>3, <1>4, <1>5, <1>6, <1>7, <1>8

\* The only pending login of an untainted user is the one being finished, if that
\* is pending at all.
LEMMA RequestReadAudit ==
    ASSUME TypeOK, IInv, WindowInv, FinishInv, [Next]_vars, NEW r \in Request, ReadAudit(r)
    PROVE  RequestOK(r)'
<1>0. /\ RequestOK(r) /\ LocalsOK(r)
      /\ req \in [Request -> RequestState]
      /\ req[r] \in RequestState
      /\ req[r].pc = "ReadAudit"
      /\ UNCHANGED <<session, tainted>>
  BY DEF FinishInv, IInv, TypeOK, ReadAudit
<1>1. /\ req[r].op = "LoginFinish"
      /\ req[r].user \in User
      /\ req[r].sid \in Session
      /\ session[req[r].sid].user = req[r].user
      /\ session[req[r].sid].type = "AUTHENTICATION"
  BY <1>0 DEF LocalsOK, TypeOf, FinishOps
<1> DEFINE found == Pending(req[r].user, "AUTHENTICATION")
<1>2. session[req[r].sid].status = "PENDING" => req[r].sid \in found
  BY <1>1 DEF Pending
<1>3. <<req[r].user, "AUTHENTICATION">> \notin tainted => \A s1, s2 \in found : s1 = s2
  BY <1>1 DEF WindowInv, OnePending, Types
<1>4. ASSUME NEW s \in found,
             req' = [req EXCEPT ![r].pc = "UpdateAudit",
                                ![r].agent = session[s].agent,
                                ![r].ip = session[s].ip]
      PROVE  RequestOK(r)'
  <2>1. /\ req'[r].pc = "UpdateAudit"
        /\ req'[r].op = req[r].op
        /\ req'[r].user = req[r].user
        /\ req'[r].sid = req[r].sid
        /\ req'[r].cred = req[r].cred
        /\ req'[r].agent = session[s].agent
        /\ req'[r].revoked = req[r].revoked
    BY <1>0, <1>4 DEF RequestState
  <2>2. req'[r].late = req[r].late
    BY <1>0, <1>4 DEF RequestState
  <2>3. ~Restart
    BY <2>1 DEF Restart, NoRequest
  <2>4. AuditOK(r)'
    BY <1>0, <1>2, <1>3, <1>4, <2>1 DEF AuditOK
  <2>5. /\ session'[req[r].sid].status # "DROPPED"
        /\ \A c \in req[r].revoked : cred'[c].owner # None /\ ~cred'[c].active
    BY <1>0, <1>1, <2>3, WorldFacts DEF FinishOps
  <2>6. ~req[r].late /\ req[r].cred \notin req[r].revoked
    BY <1>0, <1>1 DEF RequestOK, DeadlineOK, RevokedOK, Verified
  <2>7. DeadlineOK(r)'
    BY <2>1, <2>2, <2>5, <2>6 DEF DeadlineOK
  <2>8. RevokedOK(r)'
    BY <2>1, <2>5, <2>6 DEF RevokedOK
  <2>9. BeginOK(r)'
    BY <1>1, <2>1 DEF BeginOK, BeginOps
  <2> QED BY <2>1, <2>4, <2>7, <2>8, <2>9 DEF RequestOK, WritesOK, RevokeOK
<1>5. ASSUME found = {}, Goto(r, "UpdateAudit") PROVE RequestOK(r)'
  <2>1. session'[req[r].sid].status # "PENDING"
    BY <1>0, <1>2, <1>5
  <2> QED BY <1>0, <1>5, <2>1, RequestMoved DEF Labels, Verified
<1> QED BY <1>4, <1>5 DEF ReadAudit, AuditSessions

\* A failing statement; an ignored error before the user agent is read taints.
LEMMA RequestFault ==
    ASSUME TypeOK, IInv, FinishInv, [Next]_vars, NEW r \in Request, Fault(r)
    PROVE  RequestOK(r)'
<1>0. LocalsOK(r) /\ req \in [Request -> RequestState]
  BY DEF IInv, TypeOK
<1>1. CASE Return(r)
  BY <1>0, <1>1, RequestReturned DEF Return
<1>2. ASSUME req[r].pc \in {"FindPending", "ExpireOld"}, Goto(r, "SaveSession")
      PROVE  RequestOK(r)'
  BY <1>2, RequestMoved DEF Labels
<1>3. ASSUME ErrorIgnored(r), req[r].pc = "ReadAudit", Goto(r, "UpdateAudit")
      PROVE  RequestOK(r)'
  <2>1. <<req[r].user, "AUTHENTICATION">> \in tainted'
    BY <1>0, <1>3 DEF ErrorIgnored, LocalsOK, PairOf, TypeOf
  <2> QED BY <1>3, <2>1, RequestMoved DEF Labels, Verified
<1> QED BY <1>1, <1>2, <1>3 DEF Fault, StatementFails, ErrorIgnored

\* A new row is of the user and the session of its registration, and both stay.
LEMMA RowsOKStep ==
    ASSUME TypeOK, IInv, FinishInv, [Next]_vars, NEW c \in Credential PROVE RowOK(c)'
<1>0. RowOK(c)
  BY DEF FinishInv
<1>1. CASE cred[c].owner # None
  <2>1. CredentialKept(c) /\ cred[c].origin \in Session
    BY <1>0, <1>1, CredentialStep DEF RowOK
  <2>2. SessionKept(cred[c].origin)
    BY <2>1, SessionStep
  <2> QED BY <1>0, <1>1, <2>1, <2>2 DEF RowOK, CredentialKept, SessionKept
<1>2. CASE cred[c].owner = None /\ cred'[c] = cred[c]
  BY <1>0, <1>2 DEF RowOK
<1>3. ASSUME NEW r \in Request, SaveCredential(r), cred'[c] = NewCredential(r)
      PROVE  RowOK(c)'
  <2>1. /\ LocalsOK(r) /\ WritesOK(r)
        /\ req[r].pc = "SaveCredential"
        /\ UNCHANGED session
    BY <1>3 DEF IInv, FinishInv, RequestOK, SaveCredential
  <2>2. /\ req[r].user \in User /\ req[r].user # None
        /\ req[r].sid \in Session
        /\ session[req[r].sid].status # "FREE"
        /\ session[req[r].sid].user = req[r].user
        /\ session[req[r].sid].type = "REGISTRATION"
    BY <2>1, NoneAssumption DEF LocalsOK, WritesOK, FinishOps, TypeOf
  <2>3. cred'[c].owner = req[r].user /\ cred'[c].origin = req[r].sid
    BY <1>3 DEF NewCredential, NoCredential
  <2> QED BY <2>1, <2>2, <2>3 DEF RowOK
<1> QED BY <1>1, <1>2, <1>3, RowStep

\* A registration is completed by a request whose row is there.
LEMMA RecordsOKStep ==
    ASSUME TypeOK, IInv, FinishInv, [Next]_vars, NEW s \in Session PROVE RecordOK(s)'
<1>0. RecordOK(s) /\ None \notin Session
  BY NoneAssumption DEF FinishInv
<1>1. CASE session[s].status # "FREE"
  <2>1. session'[s].agent \in Client /\ session'[s].type = session[s].type
    BY <1>0, <1>1, StatusStep, SessionStep DEF RecordOK, SessionKept
  <2>2. ASSUME session'[s].status = "COMPLETED", session'[s].type = "REGISTRATION"
        PROVE  \E c \in Credential : cred'[c].origin = s
    <3>1. CASE session[s].status = "COMPLETED"
      <4>1. PICK c \in Credential : cred[c].origin = s
        BY <1>0, <2>1, <2>2, <3>1 DEF RecordOK
      <4>2. cred[c].owner # None
        BY <1>0, <4>1 DEF FinishInv, RowOK
      <4> QED BY <4>1, <4>2, CredentialStep DEF CredentialKept
    <3>2. CASE session[s].status # "COMPLETED"
      <4>1. PICK r \in Request : CompleteSession(r) /\ s = req[r].sid
        BY <1>1, <2>2, <3>2, StatusStep
      <4>2. /\ LocalsOK(r) /\ WritesOK(r)
            /\ req[r].pc = "CompleteSession"
            /\ UNCHANGED cred
        BY <4>1 DEF IInv, FinishInv, RequestOK, CompleteSession
      <4>3. req[r].op = "RegisterFinish"
        BY <2>1, <2>2, <4>1, <4>2 DEF LocalsOK, FinishOps, TypeOf
      <4> QED BY <4>1, <4>2, <4>3 DEF WritesOK
    <3> QED BY <3>1, <3>2
  <2> QED BY <2>1, <2>2 DEF RecordOK
<1>2. CASE session[s].status = "FREE" /\ session'[s] = session[s]
  BY <1>2 DEF RecordOK
<1>3. ASSUME NEW r \in Request, SaveSession(r), session'[s] = NewSession(r)
      PROVE  RecordOK(s)'
  <2>1. req[r].client \in Client
    BY <1>3 DEF FinishInv, RequestOK, BeginOK, SaveSession
  <2>2. session'[s].agent \in Client /\ session'[s].status = "PENDING"
    BY <1>3, <2>1 DEF NewSession
  <2> QED BY <2>2 DEF RecordOK
<1> QED BY <1>1, <1>2, <1>3, FreeStep

LEMMA FinishNext == TypeOK /\ IInv /\ WindowInv /\ FinishInv /\ [Next]_vars => FinishInv'
<1> SUFFICES ASSUME TypeOK, IInv, WindowInv, FinishInv, [Next]_vars PROVE FinishInv'
  OBVIOUS
<1>1. ASSUME NEW q \in Request PROVE RequestOK(q)'
  <2>0. req \in [Request -> RequestState]
    BY DEF TypeOK
  <2>1. CASE req'[q] = req[q]
    BY <2>1, RequestKept
  <2>2. CASE Restart
    BY <2>2, RequestReturned DEF Restart
  <2>3. ASSUME NEW r \in Request, Arrive(r) \/ Step(r) \/ Fault(r), r # q
        PROVE  req'[q] = req[q]
    BY <2>0, <2>3 DEF Arrive, BeginRegistration, BeginLogin, Finish, RevokeCredential,
       Step, CreateUser, LoadForBegin, FindPending, ExpireOld, SaveSession,
       LoadForFinish, MarkExpired, Validate, SaveCredential, UpdateSignCount,
       ReadAudit, UpdateCredentialAudit, CompleteSession, GenerateToken, Deactivate,
       Fault, StatementFails, ErrorIgnored, Goto, Return
  <2>4. CASE CleanupExpiredSessions \/ Tick \/ UNCHANGED vars
    BY <2>1, <2>4 DEF CleanupExpiredSessions, Tick, vars
  <2>5. CASE Arrive(q) \/ Step(q) \/ Fault(q)
    BY <2>5, RequestArrive, RequestBegin, RequestFinish, RequestReadAudit, RequestFault
    DEF Step
  <2> QED BY <2>1, <2>2, <2>3, <2>4, <2>5 DEF Next
<1> QED BY <1>1, RowsOKStep, RecordsOKStep DEF FinishInv

\* All four invariants together: each is kept with the help of the earlier ones.
THEOREM ServiceInvariance == Spec => [](TypeOK /\ IInv /\ WindowInv /\ FinishInv)
<1>1. Spec => []WindowInv
  BY WindowInit, WindowNext, TypeCorrect, Invariance, PTL DEF Spec
<1> QED BY <1>1, FinishInit, FinishNext, TypeCorrect, Invariance, PTL DEF Spec

----------------------------------------------------------------------------
(* The properties. *)

\* A credential that was revoked before a finish arrived is not accepted by it.
THEOREM RevokedNeverPasses == Spec => []RevokedIsRefused
<1>1. FinishInv => RevokedIsRefused
  BY DEF FinishInv, RequestOK, RevokedOK, RevokedIsRefused
<1> QED BY <1>1, ServiceInvariance, PTL

\* A finish that arrives after the deadline of its session gets no further than to
\* mark the session.
THEOREM LateNeverPasses == Spec => []ExpiredIsRefused
<1>1. FinishInv => ExpiredIsRefused
  BY DEF FinishInv, RequestOK, DeadlineOK, ExpiredIsRefused
<1> QED BY <1>1, ServiceInvariance, PTL

\* A completed registration has its row, and a row its registration.
THEOREM RegistrationsAreComplete == Spec => []RegistrationLeavesCredential
<1>1. FinishInv => RegistrationLeavesCredential
  BY NoneAssumption DEF FinishInv, RowOK, RecordOK, RegistrationLeavesCredential
<1> QED BY <1>1, ServiceInvariance, PTL

\* The user agent a login writes is its own session's while that is pending, unless
\* begins of its user overlapped or an error was ignored.
THEOREM AuditIsOfTheSession == Spec => []AuditMatchesSession
<1>1. IInv /\ FinishInv => AuditMatchesSession
  <2> SUFFICES ASSUME IInv, FinishInv, NEW r \in Request,
                      req[r].pc = "UpdateAudit",
                      <<req[r].user, "AUTHENTICATION">> \notin tainted,
                      session[req[r].sid].status = "PENDING"
               PROVE  /\ req[r].agent = session[req[r].sid].agent
                      /\ req[r].agent # None
    BY DEF AuditMatchesSession
  <2>1. req[r].agent = session[req[r].sid].agent
    BY DEF FinishInv, RequestOK, AuditOK
  <2>2. req[r].sid \in Session
    BY DEF IInv, LocalsOK, FinishOps
  <2>3. session[req[r].sid].agent \in Client
    BY <2>2 DEF FinishInv, RecordOK
  <2> QED BY <2>1, <2>3, NoneAssumption
<1> QED BY <1>1, ServiceInvariance, PTL

\* A pending session is expired because its deadline has passed or because a newer
\* begin of its user and type replaces it: the statements that write EXPIRED go by
\* id alone, and the id is from an earlier statement.
THEOREM LiveSessionsAreKept == Spec => LiveSessionIsKept
<1>1. ASSUME TypeOK, IInv, FinishInv, [Next]_vars, NEW s \in Session,
             session[s].status = "PENDING", session'[s].status = "EXPIRED"
      PROVE  \/ session[s].expires < now \/ session[s].expires < now + DatabaseAhead
             \/ \E r \in Request :
                  /\ req[r].pc = "ExpireOld"
                  /\ PairOf(r) = <<session[s].user, session[s].type>>
  <2>1. CASE \E r \in Request : ExpireOld(r) /\ s = req[r].old
    BY <1>1, <2>1 DEF ExpireOld, FinishInv, RequestOK, BeginOK, PairOf
  <2>2. CASE \E r \in Request : MarkExpired(r) /\ s = req[r].sid
    BY <1>1, <2>2 DEF MarkExpired, FinishInv, RequestOK, DeadlineOK, ExpiredForService
  <2>3. CASE s \in Overdue
    BY <2>3 DEF Overdue, ExpiredForDatabase
  <2> QED BY <1>1, <2>1, <2>2, <2>3, StatusStep
<1>2. TypeOK /\ IInv /\ FinishInv /\ [Next]_vars
      => [\A s \in Session :
            session[s].status = "PENDING" /\ session'[s].status = "EXPIRED"
            => \/ session[s].expires < now \/ session[s].expires < now + DatabaseAhead
               \/ \E r \in Request :
                    /\ req[r].pc = "ExpireOld"
                    /\ PairOf(r) = <<session[s].user, session[s].type>>]_vars
  BY <1>1
<1> QED BY <1>2, ServiceInvariance, PTL DEF Spec, LiveSessionIsKept

\* A stored counter falls only when the login that writes it has loaded a value that
\* was replaced since.
THEOREM CountersFallWhenStale == Spec => CounterFallsOnlyWhenStale
<1>1. ASSUME TypeOK, IInv, FinishInv, [Next]_vars, NEW c \in Credential,
             cred'[c].count < cred[c].count
      PROVE  \E r \in Request : /\ req[r].pc = "UpdateSignCount"
                                /\ req[r].cred = c
                                /\ req[r].seen # cred[c].count
  <2>0. cred[c].count \in Nat /\ cred'[c].count \in Nat
    BY <1>1, TypeNext DEF TypeOK, CredentialRow, Count
  <2>1. cred[c].owner # None
    BY <1>1, <2>0 DEF FinishInv, RowOK
  <2>2. PICK r \in Request : /\ UpdateSignCount(r) /\ c = req[r].cred
                             /\ cred'[c].count = req[r].count
    BY <1>1, <2>0, <2>1, CountStep
  <2>3. req[r].pc = "UpdateSignCount" /\ req[r].seen <= req[r].count
    BY <1>1, <2>2 DEF UpdateSignCount, FinishInv, RequestOK, WritesOK
  <2>4. req[r].seen \in Nat /\ req[r].count \in Nat
    BY <1>1, <2>2 DEF TypeOK, RequestState, Count
  <2> QED BY <1>1, <2>0, <2>2, <2>3, <2>4
<1>2. TypeOK /\ IInv /\ FinishInv /\ [Next]_vars
      => [\A c \in Credential :
            cred'[c].count < cred[c].count
            => \E r \in Request : /\ req[r].pc = "UpdateSignCount"
                                  /\ req[r].cred = c
                                  /\ req[r].seen # cred[c].count]_vars
  BY <1>1
<1> QED BY <1>2, ServiceInvariance, PTL DEF Spec, CounterFallsOnlyWhenStale

\* Nobody takes up a session that has ended: a finish is sent for a pending one and a
\* begin looks for a pending one to replace.
LEMMA HoldsStep ==
    ASSUME TypeOK, [Next]_vars, NEW s \in Session, Ended(s),
           NEW r \in Request, Holds(r, s)'
    PROVE  Holds(r, s)
<1>0. req \in [Request -> RequestState] /\ session[s].status # "PENDING" /\ s # None
  BY NoneAssumption DEF TypeOK, Ended
<1>1. CASE req'[r] = req[r]
  BY <1>1 DEF Holds
<1>2. ASSUME req'[r] = NoRequest PROVE FALSE
  BY <1>0, <1>2 DEF Holds, NoRequest
<1>3. ASSUME NEW label, Goto(r, label) PROVE Holds(r, s)
  <2>1. req'[r].sid = req[r].sid /\ req'[r].old = req[r].old
    BY <1>0, <1>3 DEF Goto, RequestState
  <2> QED BY <2>1 DEF Holds
<1>4. ASSUME Return(r) PROVE FALSE
  BY <1>0, <1>2, <1>4 DEF Return
<1>5. CASE Arrive(r)
  <2>1. CASE BeginRegistration(r)
    BY <1>0, <2>1 DEF BeginRegistration, NoRequest, Holds
  <2>2. CASE BeginLogin(r)
    BY <1>0, <2>2 DEF BeginLogin, NoRequest, Holds
  <2>3. CASE RevokeCredential(r)
    BY <1>0, <2>3 DEF RevokeCredential, NoRequest, Holds
  <2>4. CASE Finish(r)
    <3>1. PICK t \in Session : /\ session[t].status = "PENDING"
                               /\ req'[r].sid = t
                               /\ req'[r].old = None
      BY <1>0, <2>4 DEF Finish, NoRequest
    <3> QED BY <1>0, <3>1 DEF Holds
  <2> QED BY <1>5, <2>1, <2>2, <2>3, <2>4 DEF Arrive
<1>6. CASE Step(r)
  <2>1. CASE LoadForBegin(r)
    <3>1. ASSUME NEW loaded,
                 req' = [req EXCEPT ![r].pc = "FindPending",
                                    ![r].expires = now + Timeout,
                                    ![r].loaded = loaded]
          PROVE  Holds(r, s)
      BY <1>0, <3>1 DEF RequestState, Holds
    <3> QED BY <1>4, <2>1, <3>1 DEF LoadForBegin
  <2>2. CASE FindPending(r)
    <3>1. ASSUME NEW t \in Pending(req[r].user, TypeOf(req[r].op)),
                 req' = [req EXCEPT ![r].pc = "ExpireOld", ![r].old = t]
          PROVE  Holds(r, s)
      <4>1. req'[r].sid = req[r].sid /\ req'[r].old = t
        BY <1>0, <3>1 DEF RequestState
      <4>2. session[t].status = "PENDING"
        BY <3>1 DEF Pending
      <4> QED BY <1>0, <4>1, <4>2 DEF Holds
    <3> QED BY <1>3, <2>2, <3>1 DEF FindPending, PairOf
  <2>3. CASE LoadForFinish(r)
    <3>1. ASSUME NEW loaded,
                 req' = [req EXCEPT ![r].pc = "Validate", ![r].loaded = loaded]
          PROVE  Holds(r, s)
      BY <1>0, <3>1 DEF RequestState, Holds
    <3> QED BY <1>3, <2>3, <3>1 DEF LoadForFinish
  <2>4. CASE Validate(r)
    <3>1. ASSUME NEW c, NEW n,
                 req' = [req EXCEPT ![r].pc = "SaveCredential", ![r].loaded = NoLoad,
                                    ![r].cred = c, ![r].count = n]
          PROVE  Holds(r, s)
      BY <1>0, <3>1 DEF RequestState, Holds
    <3>2. ASSUME NEW c, NEW seen, NEW n,
                 req' = [req EXCEPT ![r].pc = "UpdateSignCount", ![r].loaded = NoLoad,
                                    ![r].cred = c, ![r].seen = seen, ![r].count = n]
          PROVE  Holds(r, s)
      BY <1>0, <3>2 DEF RequestState, Holds
    <3>3. PICK c \in Credential, n \in Count :
            \/ req' = [req EXCEPT ![r].pc = "SaveCredential", ![r].loaded = NoLoad,
                                  ![r].cred = c, ![r].count = n]
            \/ req' = [req EXCEPT ![r].pc = "UpdateSignCount", ![r].loaded = NoLoad,
                                  ![r].cred = c, ![r].seen = req[r].loaded[c],
                                  ![r].count = UpdateCounter(req[r].loaded[c], n)]
            \/ Return(r)
      BY <2>4, Zenon DEF Validate
    <3> QED BY <1>4, <3>1, <3>2, <3>3
  <2>5. CASE ReadAudit(r)
    <3>1. ASSUME NEW agent, NEW ip,
                 req' = [req EXCEPT ![r].pc = "UpdateAudit", ![r].agent = agent,
                                    ![r].ip = ip]
          PROVE  Holds(r, s)
      BY <1>0, <3>1 DEF RequestState, Holds
    <3> QED BY <1>3, <2>5, <3>1 DEF ReadAudit
  <2>6. CASE \/ CreateUser(r) \/ ExpireOld(r) \/ SaveSession(r) \/ MarkExpired(r)
             \/ SaveCredential(r) \/ UpdateSignCount(r) \/ UpdateCredentialAudit(r)
             \/ CompleteSession(r) \/ GenerateToken(r) \/ Deactivate(r)
    BY <1>3, <1>4, <2>6 DEF CreateUser, ExpireOld, SaveSession, MarkExpired,
       SaveCredential, UpdateSignCount, UpdateCredentialAudit, CompleteSession,
       GenerateToken, Deactivate
  <2> QED BY <1>6, <2>1, <2>2, <2>3, <2>4, <2>5, <2>6 DEF Step
<1>7. CASE Fault(r)
  BY <1>3, <1>4, <1>7 DEF Fault, StatementFails, ErrorIgnored
<1>8. ASSUME NEW q \in Request, Arrive(q) \/ Step(q) \/ Fault(q), q # r
      PROVE  req'[r] = req[r]
  BY <1>0, <1>8 DEF Arrive, BeginRegistration, BeginLogin, Finish, RevokeCredential,
     Step, CreateUser, LoadForBegin, FindPending, ExpireOld, SaveSession,
     LoadForFinish, MarkExpired, Validate, SaveCredential, UpdateSignCount,
     ReadAudit, UpdateCredentialAudit, CompleteSession, GenerateToken, Deactivate,
     Fault, StatementFails, ErrorIgnored, Goto, Return
<1>9. CASE Restart
  BY <1>2, <1>9 DEF Restart
<1>10. CASE CleanupExpiredSessions \/ Tick \/ UNCHANGED vars
  BY <1>1, <1>10 DEF CleanupExpiredSessions, Tick, vars
<1> QED BY <1>1, <1>5, <1>6, <1>7, <1>8, <1>9, <1>10 DEF Next

\* What a session ended as is overwritten by racers only: a begin of its own user and
\* type, a finish that was in time and one that was too late, each of which took the
\* session up while it was pending; a dropped row comes back for nobody.
THEOREM RelabelsAreRaces == Spec => OnlyRacersRelabel
<1>1. ASSUME TypeOK, IInv, FinishInv, [Next]_vars, NEW s \in Session, Ended(s)
      PROVE  /\ \A r \in Request : Holds(r, s)' => Holds(r, s)
             /\ \/ session'[s].status \in {session[s].status, "DROPPED"}
                \/ /\ session[s].status # "DROPPED"
                   /\ \E r \in Request : Relabels(r, s, session'[s].status)
  <2>1. \A r \in Request : Holds(r, s)' => Holds(r, s)
    BY <1>1, HoldsStep
  <2>2. session[s].status # "FREE" /\ session[s].status # "PENDING"
    BY <1>1 DEF Ended
  <2>3. ASSUME NEW r \in Request, ExpireOld(r), s = req[r].old,
               session'[s].status = "EXPIRED"
        PROVE  session[s].status # "DROPPED" /\ Relabels(r, s, session'[s].status)
    <3>1. req[r].pc = "ExpireOld" /\ BeginOK(r)
      BY <1>1, <2>3 DEF ExpireOld, FinishInv, RequestOK
    <3> QED BY <2>3, <3>1 DEF BeginOK, PairOf, Relabels
  <2>4. ASSUME NEW r \in Request, MarkExpired(r), s = req[r].sid,
               session'[s].status = "EXPIRED"
        PROVE  session[s].status # "DROPPED" /\ Relabels(r, s, session'[s].status)
    <3>1. req[r].pc = "MarkExpired" /\ DeadlineOK(r) /\ LocalsOK(r)
      BY <1>1, <2>4 DEF MarkExpired, IInv, FinishInv, RequestOK
    <3> QED BY <2>4, <3>1 DEF DeadlineOK, LocalsOK, ExpiredForService, Relabels
  <2>5. ASSUME NEW r \in Request, CompleteSession(r), s = req[r].sid,
               session'[s].status = "COMPLETED"
        PROVE  session[s].status # "DROPPED" /\ Relabels(r, s, session'[s].status)
    <3>1. req[r].pc = "CompleteSession" /\ DeadlineOK(r) /\ LocalsOK(r)
      BY <1>1, <2>5 DEF CompleteSession, IInv, FinishInv, RequestOK
    <3> QED BY <2>5, <3>1 DEF DeadlineOK, LocalsOK, Relabels
  <2>6. s \notin Overdue
    BY <2>2 DEF Overdue
  <2> QED BY <1>1, <2>1, <2>2, <2>3, <2>4, <2>5, <2>6, StatusStep
<1>2. TypeOK /\ IInv /\ FinishInv /\ [Next]_vars
      => [\A s \in Session :
            Ended(s)
            => /\ \A r \in Request : Holds(r, s)' => Holds(r, s)
               /\ \/ session'[s].status \in {session[s].status, "DROPPED"}
                  \/ /\ session[s].status # "DROPPED"
                     /\ \E r \in Request : Relabels(r, s, session'[s].status)]_vars
  BY <1>1
<1> QED BY <1>2, ServiceInvariance, PTL DEF Spec, OnlyRacersRelabel
=============================================================================
