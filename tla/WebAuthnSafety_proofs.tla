------------------------ MODULE WebAuthnSafety_proofs -----------------------
(***************************************************************************)
(* Tokens, sessions and credential rows of WebAuthnService stay consistent *)
(* for every value of its constants.  GrantsAreOwned and                   *)
(* GrantClosesSession are not inductive: a token is made of the locals of  *)
(* a request, so the invariant must say of every request under way what    *)
(* its locals have to do with the rows, at the statement it has reached.   *)
(* The last part is OnePending, which needs in addition what is true       *)
(* between the look for an old session and the new row (WindowOK).         *)
(***************************************************************************)
EXTENDS WebAuthnProperties, WebAuthnTypes_proofs

\* What a request knows: its user; the credentials it has loaded are the user's;
\* a finish is for a session of its user and type; past the validation of a
\* login, the credential is the user's and the session allows it; before the
\* token the session is closed; and the old session is one in use.
LocalsOK(r) ==
    /\ req[r].pc # "idle"
       => /\ req[r].user \in User
          /\ \A c \in DOMAIN req[r].loaded : cred[c].owner = req[r].user
    /\ req[r].pc # "idle" /\ req[r].op \in FinishOps
       => /\ req[r].sid \in Session
          /\ session[req[r].sid].status # "FREE"
          /\ session[req[r].sid].user = req[r].user
          /\ session[req[r].sid].type = TypeOf(req[r].op)
    /\ req[r].pc \in {"UpdateSignCount", "ReadAudit", "UpdateAudit", "GenerateToken"}
       => req[r].op = "LoginFinish"
    /\ req[r].pc \in {"Validate", "MarkExpired", "SaveCredential", "CompleteSession"}
       => req[r].op \in FinishOps
    /\ Verified(r) /\ req[r].op = "LoginFinish"
       => /\ req[r].cred \in session[req[r].sid].allowed
          /\ cred[req[r].cred].owner = req[r].user
    /\ req[r].pc = "GenerateToken" => session[req[r].sid].status # "PENDING"
    /\ req[r].pc = "ExpireOld"
       => req[r].old \in Session /\ session[req[r].old].status # "FREE"

\* A session allows only credentials of its user.
SessionOK(s) ==
    session[s].status # "FREE"
    => /\ session[s].user \in User
       /\ \A c \in session[s].allowed : cred[c].owner = session[s].user

\* A token's session is an authenticated, closed login of its user.
GrantOK(g) ==
    /\ g.user \in User
    /\ g.session \in Session
    /\ g.cred \in Credential
    /\ session[g.session].status \notin {"FREE", "PENDING"}
    /\ session[g.session].user = g.user
    /\ session[g.session].type = "AUTHENTICATION"
    /\ g.cred \in session[g.session].allowed
    /\ cred[g.cred].owner = g.user

IInv ==
    /\ \A r \in Request : LocalsOK(r)
    /\ \A s \in Session : SessionOK(s)
    /\ \A g \in grants : GrantOK(g)

----------------------------------------------------------------------------
(* What a step may do to a row. *)

\* A session in use keeps its user, type and allowed credentials and stays in
\* use, and one that is closed stays closed.
SessionKept(s) ==
    session[s].status # "FREE"
    => /\ session'[s].user = session[s].user
       /\ session'[s].type = session[s].type
       /\ session'[s].allowed = session[s].allowed
       /\ session'[s].status # "FREE"
       /\ session[s].status # "PENDING" => session'[s].status # "PENDING"

\* A credential row keeps its owner and its ceremony, and stays revoked.
CredentialKept(c) ==
    cred[c].owner # None
    => /\ cred'[c].owner = cred[c].owner
       /\ cred'[c].origin = cred[c].origin
       /\ cred'[c].active => cred[c].active

\* The statements that write sessions write only a status, other than FREE and
\* PENDING, or fill a free row.
LEMMA SessionStep ==
    ASSUME TypeOK, [Next]_vars, NEW s \in Session PROVE SessionKept(s)
<1>0. session \in [Session -> SessionRow]
  BY DEF TypeOK
<1>1. CASE UNCHANGED session
  BY <1>1 DEF SessionKept
<1>2. ASSUME NEW t, NEW status \in {"EXPIRED", "COMPLETED"},
             session' = [session EXCEPT ![t].status = status]
      PROVE  SessionKept(s)
  BY <1>0, <1>2 DEF SessionKept, SessionRow
<1>3. ASSUME NEW r \in Request, SaveSession(r) PROVE SessionKept(s)
  BY <1>0, <1>3 DEF SaveSession, SessionKept
<1>4. CASE CleanupExpiredSessions
  BY <1>0, <1>4 DEF CleanupExpiredSessions, SessionKept, SessionRow
<1>5. CASE Restart
  BY <1>0, <1>5 DEF Restart, SessionKept, SessionRow
<1>6. ASSUME NEW r \in Request, Step(r) PROVE SessionKept(s)
  <2>1. CASE ExpireOld(r)
    BY <1>2, <2>1 DEF ExpireOld
  <2>2. CASE MarkExpired(r)
    BY <1>2, <2>2 DEF MarkExpired
  <2>3. CASE CompleteSession(r)
    BY <1>2, <2>3 DEF CompleteSession
  <2>4. CASE \/ CreateUser(r) \/ LoadForBegin(r) \/ FindPending(r)
             \/ LoadForFinish(r) \/ Validate(r) \/ SaveCredential(r)
             \/ UpdateSignCount(r) \/ ReadAudit(r) \/ UpdateCredentialAudit(r)
             \/ GenerateToken(r) \/ Deactivate(r)
    BY <1>1, <2>4 DEF CreateUser, LoadForBegin, FindPending, LoadForFinish, Validate,
       SaveCredential, UpdateSignCount, ReadAudit, UpdateCredentialAudit,
       GenerateToken, Deactivate
  <2> QED BY <1>3, <1>6, <2>1, <2>2, <2>3, <2>4 DEF Step
<1>7. ASSUME NEW r \in Request, Arrive(r) \/ Fault(r) PROVE SessionKept(s)
  BY <1>1, <1>7 DEF Arrive, BeginRegistration, BeginLogin, Finish, RevokeCredential,
     Fault, StatementFails, ErrorIgnored
<1>8. CASE Tick \/ UNCHANGED vars
  BY <1>1, <1>8 DEF Tick, vars
<1> QED BY <1>4, <1>5, <1>6, <1>7, <1>8 DEF Next

\* Only the INSERT fills a row, and only an empty one; the UPDATEs leave owner
\* and ceremony alone and never set is_active.
LEMMA CredentialStep ==
    ASSUME TypeOK, [Next]_vars, NEW c \in Credential PROVE CredentialKept(c)
<1>0. cred \in [Credential -> CredentialRow]
  BY DEF TypeOK
<1>1. CASE UNCHANGED cred
  BY <1>1 DEF CredentialKept
<1>2. ASSUME NEW r \in Request, Step(r) PROVE CredentialKept(c)
  <2>1. CASE SaveCredential(r)
    BY <1>0, <2>1 DEF SaveCredential, CredentialKept
  <2>2. CASE UpdateSignCount(r)
    BY <1>0, <2>2 DEF UpdateSignCount, CredentialKept, CredentialRow
  <2>3. CASE UpdateCredentialAudit(r)
    BY <1>0, <2>3 DEF UpdateCredentialAudit, CredentialKept, CredentialRow
  <2>4. CASE Deactivate(r)
    BY <1>0, <2>4 DEF Deactivate, CredentialKept, CredentialRow
  <2>5. CASE \/ CreateUser(r) \/ LoadForBegin(r) \/ FindPending(r) \/ ExpireOld(r)
             \/ SaveSession(r) \/ LoadForFinish(r) \/ MarkExpired(r) \/ Validate(r)
             \/ ReadAudit(r) \/ CompleteSession(r) \/ GenerateToken(r)
    BY <1>1, <2>5 DEF CreateUser, LoadForBegin, FindPending, ExpireOld, SaveSession,
       LoadForFinish, MarkExpired, Validate, ReadAudit, CompleteSession, GenerateToken
  <2> QED BY <1>2, <2>1, <2>2, <2>3, <2>4, <2>5 DEF Step
<1>3. ASSUME NEW r \in Request, Arrive(r) \/ Fault(r) PROVE CredentialKept(c)
  BY <1>1, <1>3 DEF Arrive, BeginRegistration, BeginLogin, Finish, RevokeCredential,
     Fault, StatementFails, ErrorIgnored
<1>4. CASE CleanupExpiredSessions \/ Tick \/ Restart \/ UNCHANGED vars
  BY <1>1, <1>4 DEF CleanupExpiredSessions, Tick, Restart, vars
<1> QED BY <1>2, <1>3, <1>4 DEF Next

\* A credential row keeps its owner and its ceremony, and what was revoked stays
\* revoked, under every interleaving of registrations, logins and revocations.
THEOREM CredentialsAreStable == Spec => CredentialRowIsStable
<1>1. TypeOK /\ [Next]_vars
      => [\A c \in Credential :
            cred[c].owner # None
            => /\ cred'[c].owner = cred[c].owner
               /\ cred'[c].origin = cred[c].origin
               /\ cred'[c].active => cred[c].active]_vars
  BY CredentialStep DEF CredentialKept
<1> QED BY <1>1, TypeCorrect, PTL DEF Spec, CredentialRowIsStable

----------------------------------------------------------------------------
(* The invariant is inductive. *)

LEMMA IInvInit == Init => IInv
  BY DEF Init, IInv, LocalsOK, SessionOK, NoRequest, NoSession, Verified

\* What the locals of a request under way have to do with the rows of the next
\* state, whoever takes the step.
LEMMA LocalsFacts ==
    ASSUME TypeOK, IInv, [Next]_vars, NEW q \in Request, req[q].pc # "idle"
    PROVE  /\ req[q].user \in User
           /\ \A c \in DOMAIN req[q].loaded : cred'[c].owner = req[q].user
           /\ req[q].op \in FinishOps
              => /\ req[q].sid \in Session
                 /\ session'[req[q].sid].status # "FREE"
                 /\ session'[req[q].sid].user = req[q].user
                 /\ session'[req[q].sid].type = TypeOf(req[q].op)
                 /\ session[req[q].sid].status # "PENDING"
                    => session'[req[q].sid].status # "PENDING"
           /\ Verified(q) /\ req[q].op = "LoginFinish"
              => /\ req[q].cred \in session'[req[q].sid].allowed
                 /\ cred'[req[q].cred].owner = req[q].user
           /\ req[q].pc = "ExpireOld"
              => /\ req[q].old \in Session
                 /\ session'[req[q].old].status # "FREE"
<1>0. LocalsOK(q) /\ req[q] \in RequestState
  BY DEF IInv, TypeOK
<1>1. /\ req[q].user \in User
      /\ req[q].user # None
  BY <1>0, NoneAssumption DEF LocalsOK
<1>2. \A c \in DOMAIN req[q].loaded : c \in Credential
  BY <1>0 DEF RequestState, Loads
<1>3. \A c \in DOMAIN req[q].loaded : cred'[c].owner = req[q].user
  BY <1>0, <1>1, <1>2, CredentialStep DEF LocalsOK, CredentialKept
<1>4. req[q].op \in FinishOps
      => /\ req[q].sid \in Session
         /\ session'[req[q].sid].status # "FREE"
         /\ session'[req[q].sid].user = req[q].user
         /\ session'[req[q].sid].type = TypeOf(req[q].op)
         /\ session'[req[q].sid].allowed = session[req[q].sid].allowed
         /\ session[req[q].sid].status # "PENDING"
            => session'[req[q].sid].status # "PENDING"
  BY <1>0, SessionStep DEF LocalsOK, SessionKept
<1>5. ASSUME Verified(q), req[q].op = "LoginFinish"
      PROVE  /\ req[q].cred \in session'[req[q].sid].allowed
             /\ cred'[req[q].cred].owner = req[q].user
  <2>1. session[req[q].sid] \in SessionRow
    BY <1>4, <1>5 DEF TypeOK, FinishOps
  <2>2. req[q].cred \in Credential /\ cred[req[q].cred].owner = req[q].user
    BY <1>0, <1>5, <2>1 DEF LocalsOK, SessionRow
  <2> QED BY <1>0, <1>1, <1>4, <1>5, <2>2, CredentialStep DEF LocalsOK, CredentialKept, FinishOps
<1>6. req[q].pc = "ExpireOld"
      => /\ req[q].old \in Session
         /\ session'[req[q].old].status # "FREE"
  BY <1>0, SessionStep DEF LocalsOK, SessionKept
<1> QED BY <1>1, <1>3, <1>4, <1>5, <1>6

\* What a request knows stays true while other processes act.
LEMMA LocalsKept ==
    ASSUME TypeOK, IInv, [Next]_vars, NEW q \in Request, req'[q] = req[q]
    PROVE  LocalsOK(q)'
<1>0. LocalsOK(q)
  BY DEF IInv
<1>1. CASE req[q].pc = "idle"
  BY <1>1 DEF LocalsOK, Verified
<1>2. CASE req[q].pc # "idle"
  BY <1>0, <1>2, LocalsFacts DEF LocalsOK, Verified, FinishOps
<1> QED BY <1>1, <1>2

\* It stays true when the request itself moves to another statement, provided it
\* knows what that statement asks for.
LEMMA LocalsMoved ==
    ASSUME TypeOK, IInv, [Next]_vars, NEW r \in Request, NEW label \in Labels,
           req[r].pc # "idle",
           req'[r].pc = label,
           req'[r].op = req[r].op,
           req'[r].user = req[r].user,
           req'[r].sid = req[r].sid,
           req'[r].cred = req[r].cred,
           req'[r].loaded = req[r].loaded,
           label \notin {"Validate", "SaveCredential", "UpdateSignCount", "ExpireOld"},
           label \in {"ReadAudit", "UpdateAudit", "CompleteSession", "GenerateToken"}
             => Verified(r),
           label \in {"ReadAudit", "UpdateAudit", "GenerateToken"}
             => req[r].op = "LoginFinish",
           label \in {"MarkExpired", "CompleteSession"} => req[r].op \in FinishOps,
           label = "GenerateToken" => session'[req[r].sid].status # "PENDING"
    PROVE  LocalsOK(r)'
  BY LocalsFacts DEF LocalsOK, Verified, FinishOps

\* An answered request knows nothing.
LEMMA LocalsReturned ==
    ASSUME TypeOK, NEW r \in Request, Return(r) PROVE LocalsOK(r)'
<1>1. req'[r] = NoRequest
  BY DEF TypeOK, Return
<1> QED BY <1>1 DEF LocalsOK, NoRequest, Verified

\* A free row is only filled by the INSERT of saveSession: the updates of a
\* status go to rows in use.
LEMMA FreeStep ==
    ASSUME TypeOK, IInv, [Next]_vars, NEW s \in Session, session[s].status = "FREE"
    PROVE  \/ session'[s] = session[s]
           \/ \E r \in Request : SaveSession(r) /\ session'[s] = NewSession(r)
<1>0. session \in [Session -> SessionRow]
  BY DEF TypeOK
<1>1. ASSUME NEW r \in Request, Step(r)
      PROVE  \/ session'[s] = session[s]
             \/ SaveSession(r) /\ session'[s] = NewSession(r)
  <2>0. LocalsOK(r)
    BY DEF IInv
  <2>1. CASE ExpireOld(r)
    BY <1>0, <2>0, <2>1 DEF ExpireOld, LocalsOK
  <2>2. CASE MarkExpired(r)
    BY <1>0, <2>0, <2>2 DEF MarkExpired, LocalsOK
  <2>3. CASE CompleteSession(r)
    BY <1>0, <2>0, <2>3 DEF CompleteSession, LocalsOK
  <2>4. CASE SaveSession(r)
    BY <1>0, <2>4 DEF SaveSession
  <2>5. CASE \/ CreateUser(r) \/ LoadForBegin(r) \/ FindPending(r)
             \/ LoadForFinish(r) \/ Validate(r) \/ SaveCredential(r)
             \/ UpdateSignCount(r) \/ ReadAudit(r) \/ UpdateCredentialAudit(r)
             \/ GenerateToken(r) \/ Deactivate(r)
    BY <2>5 DEF CreateUser, LoadForBegin, FindPending, LoadForFinish, Validate,
       SaveCredential, UpdateSignCount, ReadAudit, UpdateCredentialAudit,
       GenerateToken, Deactivate
  <2> QED BY <1>1, <2>1, <2>2, <2>3, <2>4, <2>5 DEF Step
<1>2. ASSUME NEW r \in Request, Arrive(r) \/ Fault(r) PROVE session'[s] = session[s]
  BY <1>2 DEF Arrive, BeginRegistration, BeginLogin, Finish, RevokeCredential,
     Fault, StatementFails, ErrorIgnored
<1>3. CASE CleanupExpiredSessions \/ Restart
  BY <1>0, <1>3 DEF CleanupExpiredSessions, Overdue, Restart
<1>4. CASE Tick \/ UNCHANGED vars
  BY <1>4 DEF Tick, vars
<1> QED BY <1>1, <1>2, <1>3, <1>4 DEF Next

\* A session allows its user's credentials only, in the next state too.
LEMMA SessionsOKStep ==
    ASSUME TypeOK, IInv, [Next]_vars, NEW s \in Session PROVE SessionOK(s)'
<1>1. CASE session[s].status # "FREE"
  <2>1. SessionOK(s) /\ session[s] \in SessionRow
    BY DEF IInv, TypeOK
  <2>2. \A c \in session[s].allowed : cred'[c].owner = session[s].user
    BY <1>1, <2>1, NoneAssumption, CredentialStep
    DEF SessionOK, SessionRow, CredentialKept
  <2> QED BY <1>1, <2>1, <2>2, SessionStep DEF SessionOK, SessionKept
<1>2. CASE session[s].status = "FREE" /\ session'[s] = session[s]
  BY <1>2 DEF SessionOK
<1>3. ASSUME NEW r \in Request, SaveSession(r), session'[s] = NewSession(r)
      PROVE  SessionOK(s)'
  <2>1. LocalsOK(r) /\ req[r].pc = "SaveSession" /\ UNCHANGED cred
    BY <1>3 DEF IInv, SaveSession
  <2> QED BY <1>3, <2>1 DEF LocalsOK, SessionOK, NewSession
<1> QED BY <1>1, <1>2, <1>3, FreeStep

\* A token's session and credential stay what they were when it was made.
LEMMA GrantsOKStep ==
    ASSUME TypeOK, IInv, [Next]_vars PROVE \A g \in grants' : GrantOK(g)'
<1>1. ASSUME NEW g \in grants PROVE GrantOK(g)'
  <2>1. GrantOK(g)
    BY DEF IInv
  <2>2. g.user # None
    BY <2>1, NoneAssumption DEF GrantOK
  <2>3. SessionKept(g.session) /\ CredentialKept(g.cred)
    BY <2>1, SessionStep, CredentialStep DEF GrantOK
  <2> QED BY <2>1, <2>2, <2>3 DEF GrantOK, SessionKept, CredentialKept
<1>2. ASSUME NEW r \in Request, GenerateToken(r), NEW g, g = NewToken(r)
      PROVE  GrantOK(g)'
  <2>1. LocalsOK(r) /\ req[r].pc = "GenerateToken"
    BY <1>2 DEF IInv, GenerateToken
  <2>2. session[req[r].sid] \in SessionRow /\ req[r].sid \in Session
    BY <2>1 DEF LocalsOK, TypeOK, FinishOps
  <2>3. req[r].cred \in Credential
    BY <2>1, <2>2 DEF LocalsOK, Verified, SessionRow
  <2>4. GrantOK(g)
    BY <1>2, <2>1, <2>2, <2>3 DEF LocalsOK, Verified, FinishOps, TypeOf, GrantOK, NewToken
  <2> QED BY <1>2, <2>4 DEF GenerateToken, GrantOK
<1>3. ASSUME NEW g \in grants', g \notin grants
      PROVE  \E r \in Request : GenerateToken(r) /\ g = NewToken(r)
  <2>1. ASSUME NEW r \in Request, Step(r), ~GenerateToken(r) PROVE UNCHANGED grants
    BY <2>1 DEF Step, CreateUser, LoadForBegin, FindPending, ExpireOld, SaveSession,
       LoadForFinish, MarkExpired, Validate, SaveCredential, UpdateSignCount,
       ReadAudit, UpdateCredentialAudit, CompleteSession, Deactivate
  <2>2. ASSUME NEW r \in Request, Arrive(r) \/ Fault(r) PROVE UNCHANGED grants
    BY <2>2 DEF Arrive, BeginRegistration, BeginLogin, Finish, RevokeCredential,
       Fault, StatementFails, ErrorIgnored
  <2>3. CASE CleanupExpiredSessions \/ Tick \/ Restart \/ UNCHANGED vars
    BY <1>3, <2>3 DEF CleanupExpiredSessions, Tick, Restart, vars
  <2>4. PICK r \in Request : GenerateToken(r)
    BY <1>3, <2>1, <2>2, <2>3 DEF Next
  <2>5. grants' = grants \cup {NewToken(r)}
    BY <2>4 DEF GenerateToken
  <2> QED BY <1>3, <2>4, <2>5
<1> QED BY <1>1, <1>2, <1>3

\* A request that arrives has loaded nothing; a finish was sent for a pending
\* session of its type, a revocation by the user of a token.
LEMMA LocalsArrive ==
    ASSUME TypeOK, IInv, NEW r \in Request, Arrive(r) PROVE LocalsOK(r)'
<1>1. CASE BeginRegistration(r) \/ BeginLogin(r)
  <2>1. /\ req'[r].user \in User
        /\ req'[r].op \in {"RegisterBegin", "LoginBegin"}
        /\ req'[r].pc \in {"CreateUser", "LoadCredentials"}
        /\ req'[r].loaded = NoLoad
    <3>0. req \in [Request -> RequestState]
      BY DEF TypeOK
    <3>1. CASE BeginRegistration(r)
      BY <3>0, <3>1 DEF BeginRegistration, NoRequest
    <3>2. CASE BeginLogin(r)
      BY <3>0, <3>2 DEF BeginLogin, NoRequest
    <3> QED BY <1>1, <3>1, <3>2
  <2> QED BY <2>1 DEF LocalsOK, Verified, FinishOps, NoLoad
<1>2. CASE Finish(r)
  <2>1. PICK s \in Session, op \in FinishOps :
          /\ session[s].status = "PENDING"
          /\ session[s].type = TypeOf(op)
          /\ req'[r].op = op
          /\ req'[r].pc = "LoadCredentials"
          /\ req'[r].user = session[s].user
          /\ req'[r].sid = s
          /\ req'[r].loaded = NoLoad
    BY <1>2 DEF Finish, TypeOK, NoRequest
  <2>2. session[s].user \in User
    BY <2>1 DEF IInv, SessionOK
  <2>3. UNCHANGED <<session, cred>>
    BY <1>2 DEF Finish
  <2> QED BY <2>1, <2>2, <2>3 DEF LocalsOK, Verified, NoLoad
<1>3. CASE RevokeCredential(r)
  <2>1. PICK g \in grants :
          /\ req'[r].op = "Revoke"
          /\ req'[r].pc = "Deactivate"
          /\ req'[r].user = g.user
          /\ req'[r].loaded = NoLoad
    BY <1>3 DEF RevokeCredential, TypeOK, NoRequest
  <2>2. g.user \in User
    BY DEF IInv, GrantOK
  <2> QED BY <2>1, <2>2 DEF LocalsOK, Verified, FinishOps, NoLoad
<1> QED BY <1>1, <1>2, <1>3 DEF Arrive

\* A begin loads credentials of its user and picks a pending old session.
LEMMA LocalsBegin ==
    ASSUME TypeOK, IInv, [Next]_vars, NEW r \in Request,
           \/ CreateUser(r) \/ LoadForBegin(r) \/ FindPending(r)
           \/ ExpireOld(r) \/ SaveSession(r)
    PROVE  LocalsOK(r)'
<1>0. LocalsOK(r) /\ req \in [Request -> RequestState]
  BY DEF IInv, TypeOK
<1>1. ASSUME NEW label \in {"LoadCredentials", "SaveSession"}, Goto(r, label),
             req[r].pc # "idle"
      PROVE  LocalsOK(r)'
  <2>1. label \in Labels
    BY DEF Labels
  <2>2. req'[r] = [req[r] EXCEPT !.pc = label]
    BY <1>0, <1>1 DEF Goto
  <2>3. req[r] \in RequestState
    BY <1>0
  <2>4. /\ req'[r].pc = label
        /\ req'[r].op = req[r].op
        /\ req'[r].user = req[r].user
        /\ req'[r].sid = req[r].sid
        /\ req'[r].cred = req[r].cred
        /\ req'[r].loaded = req[r].loaded
    BY <2>2, <2>3 DEF RequestState
  <2> QED BY <1>1, <2>1, <2>4, LocalsMoved
<1>2. CASE CreateUser(r)
  BY <1>1, <1>2, LocalsReturned DEF CreateUser
<1>3. CASE LoadForBegin(r)
  <2>1. ASSUME req' = [req EXCEPT ![r].pc = "FindPending",
                                  ![r].expires = now + Timeout,
                                  ![r].loaded = Snapshot(req[r].user)]
        PROVE  LocalsOK(r)'
    <3>1. \A c \in DOMAIN Snapshot(req[r].user) : cred[c].owner = req[r].user
      BY DEF Snapshot, Active
    <3>2. /\ req'[r].pc = "FindPending"
          /\ req'[r].op = req[r].op
          /\ req'[r].user = req[r].user
          /\ req'[r].loaded = Snapshot(req[r].user)
      BY <1>0, <2>1 DEF RequestState
    <3>3. /\ req[r].op \notin FinishOps
          /\ req[r].pc = "LoadCredentials"
          /\ cred' = cred
      BY <1>3 DEF LoadForBegin, BeginOps, FinishOps
    <3>4. req[r].user \in User
      BY <1>0, <3>3 DEF LocalsOK
    <3> HIDE DEF Snapshot
    <3> QED BY <3>1, <3>2, <3>3, <3>4 DEF LocalsOK, Verified
  <2> QED BY <1>3, <2>1, LocalsReturned DEF LoadForBegin
<1>4. CASE FindPending(r)
  <2>1. ASSUME NEW s \in Session, session[s].status = "PENDING",
               req' = [req EXCEPT ![r].pc = "ExpireOld", ![r].old = s]
        PROVE  LocalsOK(r)'
    <3>1. /\ req'[r].pc = "ExpireOld"
          /\ req'[r].op = req[r].op
          /\ req'[r].user = req[r].user
          /\ req'[r].sid = req[r].sid
          /\ req'[r].loaded = req[r].loaded
          /\ req'[r].old = s
      BY <1>0, <2>1 DEF RequestState
    <3>2. req[r].pc = "FindPending" /\ session' = session
      BY <1>4 DEF FindPending
    <3> QED BY <2>1, <3>1, <3>2, LocalsFacts DEF LocalsOK, Verified
  <2> QED BY <1>1, <1>4, <2>1 DEF FindPending, Pending
<1>5. CASE ExpireOld(r)
  BY <1>1, <1>5 DEF ExpireOld
<1>6. CASE SaveSession(r)
  BY <1>6, LocalsReturned DEF SaveSession
<1> QED BY <1>2, <1>3, <1>4, <1>5, <1>6

\* A finish validates against its own session and its user's credentials; it
\* closes the session before it makes the token.
LEMMA LocalsFinish ==
    ASSUME TypeOK, IInv, [Next]_vars, NEW r \in Request,
           \/ LoadForFinish(r) \/ MarkExpired(r) \/ Validate(r) \/ SaveCredential(r)
           \/ UpdateSignCount(r) \/ ReadAudit(r) \/ UpdateCredentialAudit(r)
           \/ CompleteSession(r) \/ GenerateToken(r) \/ Deactivate(r)
    PROVE  LocalsOK(r)'
<1>0. LocalsOK(r) /\ req \in [Request -> RequestState]
  BY DEF IInv, TypeOK
<1>1. ASSUME NEW label \in Labels, Goto(r, label)
      PROVE  /\ req'[r].pc = label
             /\ req'[r].op = req[r].op
             /\ req'[r].user = req[r].user
             /\ req'[r].sid = req[r].sid
             /\ req'[r].cred = req[r].cred
             /\ req'[r].loaded = req[r].loaded
  <2>1. req'[r] = [req[r] EXCEPT !.pc = label] /\ req[r] \in RequestState
    BY <1>0, <1>1 DEF Goto
  <2> QED BY <2>1 DEF RequestState
<1>2. CASE LoadForFinish(r)
  <2>0. /\ req[r].op \in FinishOps
        /\ req[r].pc = "LoadCredentials"
        /\ cred' = cred
    BY <1>2 DEF LoadForFinish
  <2>1. ASSUME req' = [req EXCEPT ![r].pc = "Validate",
                                  ![r].loaded = Snapshot(req[r].user)]
        PROVE  LocalsOK(r)'
    <3>1. \A c \in DOMAIN Snapshot(req[r].user) : cred[c].owner = req[r].user
      BY DEF Snapshot, Active
    <3>2. /\ req'[r].pc = "Validate"
          /\ req'[r].op = req[r].op
          /\ req'[r].user = req[r].user
          /\ req'[r].sid = req[r].sid
          /\ req'[r].loaded = Snapshot(req[r].user)
      BY <1>0, <2>1 DEF RequestState
    <3> HIDE DEF Snapshot
    <3> QED BY <2>0, <3>1, <3>2, LocalsFacts DEF LocalsOK, Verified
  <2>2. ASSUME Goto(r, "MarkExpired") PROVE LocalsOK(r)'
    BY <1>1, <2>0, <2>2, LocalsMoved DEF Labels
  <2> QED BY <1>2, <2>1, <2>2 DEF LoadForFinish
<1>3. CASE MarkExpired(r) \/ GenerateToken(r) \/ Deactivate(r)
  BY <1>3, LocalsReturned DEF MarkExpired, GenerateToken, Deactivate
<1>4. CASE Validate(r)
  <2>0. /\ req[r].pc = "Validate"
        /\ req[r].op \in FinishOps
        /\ cred' = cred
        /\ session' = session
    BY <1>0, <1>4 DEF Validate, LocalsOK
  <2>1. ASSUME NEW c \in Credential, NEW n \in Count, NEW challenge \in Session,
               Verifies(r, c, challenge),
               req[r].op = "LoginFinish",
               req' = [req EXCEPT ![r].pc = "UpdateSignCount",
                                  ![r].loaded = NoLoad,
                                  ![r].cred = c,
                                  ![r].seen = req[r].loaded[c],
                                  ![r].count = UpdateCounter(req[r].loaded[c], n)]
        PROVE  LocalsOK(r)'
    <3>1. c \in session[req[r].sid].allowed /\ cred[c].owner = req[r].user
      BY <1>0, <2>0, <2>1 DEF Verifies, LocalsOK
    <3>2. /\ req'[r].pc = "UpdateSignCount"
          /\ req'[r].op = req[r].op
          /\ req'[r].user = req[r].user
          /\ req'[r].sid = req[r].sid
          /\ req'[r].cred = c
          /\ req'[r].loaded = NoLoad
      BY <1>0, <2>1 DEF RequestState
    <3> QED BY <2>0, <2>1, <3>1, <3>2, LocalsFacts DEF LocalsOK, Verified, NoLoad
  <2>2. ASSUME NEW c \in Credential, NEW n \in Count,
               req[r].op = "RegisterFinish",
               req' = [req EXCEPT ![r].pc = "SaveCredential",
                                  ![r].loaded = NoLoad,
                                  ![r].cred = c,
                                  ![r].count = n]
        PROVE  LocalsOK(r)'
    <3>1. /\ req'[r].pc = "SaveCredential"
          /\ req'[r].op = req[r].op
          /\ req'[r].user = req[r].user
          /\ req'[r].sid = req[r].sid
          /\ req'[r].loaded = NoLoad
      BY <1>0, <2>2 DEF RequestState
    <3> QED BY <2>0, <2>2, <3>1, LocalsFacts DEF LocalsOK, Verified, NoLoad
  <2> QED BY <1>4, <2>1, <2>2, LocalsReturned DEF Validate
<1>5. CASE SaveCredential(r)
  <2>1. req[r].pc = "SaveCredential" /\ req[r].op \in FinishOps
    BY <1>0, <1>5 DEF SaveCredential, LocalsOK
  <2>2. ASSUME Goto(r, "CompleteSession") PROVE LocalsOK(r)'
    BY <1>1, <2>1, <2>2, LocalsMoved DEF Labels, Verified
  <2> QED BY <1>5, <2>2, LocalsReturned DEF SaveCredential
<1>6. CASE UpdateSignCount(r)
  <2>1. req[r].pc = "UpdateSignCount" /\ req[r].op = "LoginFinish"
    BY <1>0, <1>6 DEF UpdateSignCount, LocalsOK
  <2>2. Goto(r, "ReadAudit")
    BY <1>6 DEF UpdateSignCount
  <2> QED BY <1>1, <2>1, <2>2, LocalsMoved DEF Labels, Verified
<1>7. CASE ReadAudit(r)
  <2>1. req[r].pc = "ReadAudit" /\ req[r].op = "LoginFinish"
    BY <1>0, <1>7 DEF ReadAudit, LocalsOK
  <2>2. ASSUME NEW s \in Session,
               req' = [req EXCEPT ![r].pc = "UpdateAudit",
                                  ![r].agent = session[s].agent,
                                  ![r].ip = session[s].ip]
        PROVE  LocalsOK(r)'
    <3>1. /\ req'[r].pc = "UpdateAudit"
          /\ req'[r].op = req[r].op
          /\ req'[r].user = req[r].user
          /\ req'[r].sid = req[r].sid
          /\ req'[r].cred = req[r].cred
          /\ req'[r].loaded = req[r].loaded
      BY <1>0, <2>2 DEF RequestState
    <3> QED BY <2>1, <3>1, LocalsMoved DEF Labels, Verified
  <2>3. ASSUME Goto(r, "UpdateAudit") PROVE LocalsOK(r)'
    BY <1>1, <2>1, <2>3, LocalsMoved DEF Labels, Verified
  <2> QED BY <1>7, <2>2, <2>3 DEF ReadAudit, AuditSessions, Pending
<1>8. CASE UpdateCredentialAudit(r)
  <2>1. req[r].pc = "UpdateAudit" /\ req[r].op = "LoginFinish"
    BY <1>0, <1>8 DEF UpdateCredentialAudit, LocalsOK
  <2>2. Goto(r, "CompleteSession")
    BY <1>8 DEF UpdateCredentialAudit
  <2> QED BY <1>1, <2>1, <2>2, LocalsMoved DEF Labels, Verified, FinishOps
<1>9. CASE CompleteSession(r)
  <2>1. req[r].pc = "CompleteSession" /\ req[r].sid \in Session
    BY <1>0, <1>9 DEF CompleteSession, LocalsOK
  <2>2. session'[req[r].sid].status = "COMPLETED"
    BY <1>9, <2>1 DEF CompleteSession, TypeOK, SessionRow
  <2>3. ASSUME Goto(r, "GenerateToken"), req[r].op = "LoginFinish" PROVE LocalsOK(r)'
    BY <1>1, <2>1, <2>2, <2>3, LocalsMoved DEF Labels, Verified
  <2> QED BY <1>9, <2>3, LocalsReturned DEF CompleteSession
<1> QED BY <1>2, <1>3, <1>4, <1>5, <1>6, <1>7, <1>8, <1>9

\* A statement whose error is ignored is skipped.
LEMMA LocalsFault ==
    ASSUME TypeOK, IInv, [Next]_vars, NEW r \in Request, Fault(r) PROVE LocalsOK(r)'
<1>0. LocalsOK(r) /\ req \in [Request -> RequestState]
  BY DEF IInv, TypeOK
<1>1. CASE Return(r)
  BY <1>1, LocalsReturned
<1>2. ASSUME NEW label \in {"SaveSession", "UpdateAudit"}, Goto(r, label),
             req[r].pc # "idle", label = "UpdateAudit" => req[r].pc = "ReadAudit"
      PROVE  LocalsOK(r)'
  <2>1. req'[r] = [req[r] EXCEPT !.pc = label] /\ req[r] \in RequestState
    BY <1>0, <1>2 DEF Goto
  <2>2. /\ req'[r].pc = label
        /\ req'[r].op = req[r].op
        /\ req'[r].user = req[r].user
        /\ req'[r].sid = req[r].sid
        /\ req'[r].cred = req[r].cred
        /\ req'[r].loaded = req[r].loaded
    BY <2>1 DEF RequestState
  <2>3. label = "UpdateAudit" => Verified(r) /\ req[r].op = "LoginFinish"
    BY <1>0, <1>2 DEF LocalsOK, Verified
  <2>4. label \in Labels
    BY DEF Labels
  <2> QED BY <1>2, <2>2, <2>3, <2>4, LocalsMoved
<1> QED BY <1>1, <1>2 DEF Fault, StatementFails, ErrorIgnored

LEMMA IInvNext == TypeOK /\ IInv /\ [Next]_vars => IInv'
<1> SUFFICES ASSUME TypeOK, IInv, [Next]_vars PROVE IInv'
  OBVIOUS
<1>1. ASSUME NEW q \in Request PROVE LocalsOK(q)'
  <2>0. req \in [Request -> RequestState]
    BY DEF TypeOK
  <2>1. CASE req'[q] = req[q]
    BY <2>1, LocalsKept
  <2>2. CASE Restart
    <3>1. req'[q] = NoRequest
      BY <2>2 DEF Restart
    <3> QED BY <3>1 DEF LocalsOK, NoRequest, Verified
  <2>3. ASSUME NEW r \in Request, Arrive(r) \/ Step(r) \/ Fault(r), r # q
        PROVE  req'[q] = req[q]
    BY <2>0, <2>3 DEF Arrive, BeginRegistration, BeginLogin, Finish, RevokeCredential,
       Step, CreateUser, LoadForBegin, FindPending, ExpireOld, SaveSession,
       LoadForFinish, MarkExpired, Validate, SaveCredential, UpdateSignCount,
       ReadAudit, UpdateCredentialAudit, CompleteSession, GenerateToken, Deactivate,
       Fault, StatementFails, ErrorIgnored, Goto, Return
  <2>4. CASE CleanupExpiredSessions \/ Tick \/ UNCHANGED vars
    BY <2>1, <2>4 DEF CleanupExpiredSessions, Tick, vars
  <2>5. CASE Arrive(q) \/ Step(q) \/ Fault(q)
    BY <2>5, LocalsArrive, LocalsBegin, LocalsFinish, LocalsFault DEF Step
  <2> QED BY <2>1, <2>2, <2>3, <2>4, <2>5 DEF Next
<1> QED BY <1>1, SessionsOKStep, GrantsOKStep DEF IInv

THEOREM Invariance == Spec => []IInv
  BY IInvInit, IInvNext, TypeCorrect, PTL DEF Spec

\* A token belongs to the user of a login ceremony and was earned with a
\* credential row of that user which the ceremony allowed.
THEOREM TokensAreOwned == Spec => []GrantsAreOwned
<1>1. IInv => GrantsAreOwned
  BY DEF IInv, GrantOK, GrantsAreOwned
<1> QED BY <1>1, Invariance, PTL

\* Once a token is out, its ceremony cannot be finished again.
THEOREM TokensCloseSessions == Spec => []GrantClosesSession
<1>1. IInv => GrantClosesSession
  BY DEF IInv, GrantOK, GrantClosesSession
<1> QED BY <1>1, Invariance, PTL

----------------------------------------------------------------------------
(* At most one pending session for a user and type.  OnePending is not     *)
(* inductive either: saveSession is three statements, and between them the *)
(* invariant must say what the request has found out, and that it is alone *)
(* between its SELECT and its INSERT.                                      *)

\* The pending sessions of the pair r opens a session for.
PendingOf(r) == Pending(req[r].user, TypeOf(req[r].op))

\* Between the SELECT and the INSERT of an untainted pair: before the UPDATE only
\* the old session can be pending, after it none; and no other request is
\* between the two for the same pair.
WindowOK(r) ==
    InWindow(r) /\ PairOf(r) \notin tainted
    => /\ req[r].pc = "ExpireOld" => PendingOf(r) \subseteq {req[r].old}
       /\ req[r].pc = "SaveSession" => PendingOf(r) = {}
       /\ \A q \in Request : InWindow(q) /\ PairOf(q) = PairOf(r) => q = r

WindowInv == OnePending /\ \A r \in Request : WindowOK(r)

----------------------------------------------------------------------------
\* No session of the user and type becomes pending.
NonePending(u, t) == Pending(u, t)' \subseteq Pending(u, t)

\* The request is not in its window after the step, or was there before and
\* stands where it stood.
WindowKept(r) ==
    InWindow(r)' => /\ InWindow(r)
                    /\ req'[r] = req[r]

\* Only the INSERT of saveSession makes a session pending.
LEMMA PendingStep ==
    ASSUME TypeOK, [Next]_vars, \A r \in Request : ~SaveSession(r),
           NEW u, NEW t
    PROVE  NonePending(u, t)
<1>0. session \in [Session -> SessionRow]
  BY DEF TypeOK
<1>1. SUFFICES ASSUME NEW s \in Session, session'[s].status = "PENDING"
               PROVE  session[s].status = "PENDING"
  BY SessionStep DEF NonePending, Pending, SessionKept
<1>2. CASE UNCHANGED session
  BY <1>1, <1>2
<1>3. ASSUME NEW x, NEW status \in {"EXPIRED", "COMPLETED"},
             session' = [session EXCEPT ![x].status = status]
      PROVE  session[s].status = "PENDING"
  BY <1>0, <1>1, <1>3 DEF SessionRow
<1>4. CASE CleanupExpiredSessions
  BY <1>0, <1>1, <1>4 DEF CleanupExpiredSessions, Overdue, SessionRow
<1>5. CASE Restart
  BY <1>0, <1>1, <1>5 DEF Restart, SessionRow
<1>6. ASSUME NEW r \in Request, Step(r) PROVE session[s].status = "PENDING"
  <2>1. CASE ExpireOld(r)
    BY <1>3, <2>1 DEF ExpireOld
  <2>2. CASE MarkExpired(r)
    BY <1>3, <2>2 DEF MarkExpired
  <2>3. CASE CompleteSession(r)
    BY <1>3, <2>3 DEF CompleteSession
  <2>4. CASE \/ CreateUser(r) \/ LoadForBegin(r) \/ FindPending(r)
             \/ LoadForFinish(r) \/ Validate(r) \/ SaveCredential(r)
             \/ UpdateSignCount(r) \/ ReadAudit(r) \/ UpdateCredentialAudit(r)
             \/ GenerateToken(r) \/ Deactivate(r)
    BY <1>2, <2>4 DEF CreateUser, LoadForBegin, FindPending, LoadForFinish, Validate,
       SaveCredential, UpdateSignCount, ReadAudit, UpdateCredentialAudit,
       GenerateToken, Deactivate
  <2> QED BY <1>6, <2>1, <2>2, <2>3, <2>4 DEF Step
<1>7. ASSUME NEW r \in Request, Arrive(r) \/ Fault(r)
      PROVE  session[s].status = "PENDING"
  BY <1>2, <1>7 DEF Arrive, BeginRegistration, BeginLogin, Finish, RevokeCredential,
     Fault, StatementFails, ErrorIgnored
<1>8. CASE Tick \/ UNCHANGED vars
  BY <1>2, <1>8 DEF Tick, vars
<1> QED BY <1>4, <1>5, <1>6, <1>7, <1>8 DEF Next

\* A step that makes no session pending, forgets no taint and brings no request
\* into its window keeps the invariant.
LEMMA QuietStep ==
    ASSUME WindowInv, tainted \subseteq tainted',
           \A u, t : NonePending(u, t),
           \A r \in Request : WindowKept(r)
    PROVE  WindowInv'
<1>1. OnePending'
  BY DEF WindowInv, OnePending, NonePending
<1>2. ASSUME NEW r \in Request PROVE WindowOK(r)'
  <2>1. SUFFICES ASSUME InWindow(r)', PairOf(r)' \notin tainted'
                 PROVE  WindowOK(r)'
    BY DEF WindowOK
  <2>2. WindowOK(r) /\ WindowKept(r)
    BY DEF WindowInv
  <2>3. InWindow(r) /\ req'[r] = req[r] /\ PairOf(r) \notin tainted
    BY <2>1, <2>2 DEF WindowKept, PairOf
  <2>4. \A q \in Request : InWindow(q)' /\ PairOf(q)' = PairOf(r)' => q = r
    BY <2>2, <2>3 DEF WindowKept, WindowOK, PairOf
  <2>5. PendingOf(r)' \subseteq PendingOf(r)
    BY <2>3 DEF PendingOf, NonePending, Pending
  <2> QED BY <2>2, <2>3, <2>4, <2>5 DEF WindowOK
<1> QED BY <1>1, <1>2 DEF WindowInv

\* The SELECT finds at most one pending session, which is the old one; a second
\* request in the window of the pair taints it.
LEMMA FindPendingStep ==
    ASSUME TypeOK, IInv, WindowInv, NEW r \in Request, FindPending(r)
    PROVE  WindowInv'
<1>0. /\ req \in [Request -> RequestState]
      /\ req[r].pc = "FindPending"
      /\ UNCHANGED session
      /\ req[r].user \in User
      /\ TypeOf(req[r].op) \in Types
  BY DEF TypeOK, FindPending, IInv, LocalsOK, TypeOf, Types
<1>1. \A u, t : Pending(u, t)' = Pending(u, t)
  BY <1>0 DEF Pending
<1>2. tainted \subseteq tainted'
  BY DEF FindPending
<1>3. OnePending'
  BY <1>1, <1>2 DEF WindowInv, OnePending
<1>4. \A q \in Request : q # r => req'[q] = req[q]
  BY <1>0 DEF FindPending, Goto
<1>5. /\ req'[r].user = req[r].user
      /\ req'[r].op = req[r].op
      /\ \/ /\ req'[r].pc = "ExpireOld"
            /\ req'[r].old \in PendingOf(r)
         \/ req'[r].pc = "SaveSession" /\ PendingOf(r) = {}
  <2>1. ASSUME NEW s \in PendingOf(r),
               req' = [req EXCEPT ![r].pc = "ExpireOld", ![r].old = s]
        PROVE  /\ req'[r].user = req[r].user
               /\ req'[r].op = req[r].op
               /\ req'[r].pc = "ExpireOld"
               /\ req'[r].old = s
    BY <1>0, <2>1 DEF RequestState
  <2>2. ASSUME Goto(r, "SaveSession")
        PROVE  /\ req'[r].user = req[r].user
               /\ req'[r].op = req[r].op
               /\ req'[r].pc = "SaveSession"
    BY <1>0, <2>2 DEF RequestState, Goto
  <2> QED BY <2>1, <2>2 DEF FindPending, PairOf, PendingOf
<1>6. PairOf(r)' = PairOf(r) /\ PendingOf(r)' = PendingOf(r)
  BY <1>1, <1>5 DEF PairOf, PendingOf
<1>7. ASSUME NEW q \in Request, q # r
      PROVE  PairOf(q)' = PairOf(q) /\ PendingOf(q)' = PendingOf(q) /\ InWindow(q)' = InWindow(q)
  BY <1>1, <1>4, <1>7 DEF PairOf, PendingOf, InWindow
<1>8. ASSUME NEW q \in Request, InWindow(q), PairOf(q) = PairOf(r)
      PROVE  PairOf(r) \in tainted'
  BY <1>8 DEF FindPending
<1>9. ASSUME NEW q \in Request PROVE WindowOK(q)'
  <2>1. CASE q = r
    <3>1. SUFFICES ASSUME PairOf(r)' \notin tainted' PROVE WindowOK(r)'
      BY <2>1 DEF WindowOK
    <3>2. PairOf(r) \notin tainted
      BY <1>2, <1>6, <3>1
    <3>3. \A s1, s2 \in PendingOf(r) : s1 = s2
      BY <1>0, <3>2 DEF WindowInv, OnePending, PairOf, PendingOf
    <3>4. \A p \in Request : InWindow(p)' /\ PairOf(p)' = PairOf(r)' => p = r
      BY <1>6, <1>7, <1>8, <3>1
    <3> QED BY <1>5, <1>6, <3>3, <3>4 DEF WindowOK
  <2>2. CASE q # r
    <3>1. SUFFICES ASSUME InWindow(q)', PairOf(q)' \notin tainted' PROVE WindowOK(q)'
      BY DEF WindowOK
    <3>2. InWindow(q) /\ PairOf(q) \notin tainted /\ req'[q] = req[q]
      BY <1>2, <1>4, <1>7, <2>2, <3>1
    <3>3. PairOf(q) # PairOf(r)
      BY <1>7, <1>8, <2>2, <3>1, <3>2
    <3>4. \A p \in Request : InWindow(p)' /\ PairOf(p)' = PairOf(q)' => p = q
      BY <1>6, <1>7, <2>2, <3>2, <3>3 DEF WindowInv, WindowOK
    <3> QED BY <1>7, <2>2, <3>2, <3>4 DEF WindowInv, WindowOK
  <2> QED BY <2>1, <2>2
<1> QED BY <1>3, <1>9 DEF WindowInv

\* The UPDATE closes the only session that could be pending.
LEMMA ExpireOldStep ==
    ASSUME TypeOK, WindowInv, [Next]_vars, NEW r \in Request, ExpireOld(r)
    PROVE  WindowInv'
<1>0. /\ req \in [Request -> RequestState]
      /\ session \in [Session -> SessionRow]
      /\ req[r].pc = "ExpireOld"
      /\ UNCHANGED tainted
  BY DEF TypeOK, ExpireOld
<1>1. \A u, t : NonePending(u, t)
  <2>1. \A q \in Request : ~SaveSession(q)
    <3>1. SUFFICES ASSUME NEW q \in Request, SaveSession(q) PROVE FALSE
      OBVIOUS
    <3>2. req[q].pc = "SaveSession" /\ req' = [req EXCEPT ![q] = NoRequest]
      BY <3>1 DEF SaveSession, Return
    <3>3. req' = [req EXCEPT ![r].pc = "SaveSession"]
      BY DEF ExpireOld, Goto
    <3>4. req'[q].pc = "idle" /\ req'[r].pc = "SaveSession"
      BY <1>0, <3>2, <3>3 DEF NoRequest, RequestState
    <3> QED BY <1>0, <3>2, <3>3, <3>4
  <2> QED BY <2>1, PendingStep
<1>2. OnePending'
  BY <1>0, <1>1 DEF WindowInv, OnePending, NonePending
<1>3. req' = [req EXCEPT ![r].pc = "SaveSession"]
  BY DEF ExpireOld, Goto
<1>4. \A q \in Request : q # r => req'[q] = req[q]
  BY <1>0, <1>3
<1>5. /\ req'[r].pc = "SaveSession"
      /\ req'[r].user = req[r].user
      /\ req'[r].op = req[r].op
  BY <1>0, <1>3 DEF RequestState
<1>6. \A q \in Request : /\ InWindow(q)' = InWindow(q)
                         /\ PairOf(q)' = PairOf(q)
                         /\ PendingOf(q)' \subseteq PendingOf(q)
  BY <1>0, <1>1, <1>4, <1>5 DEF InWindow, PairOf, PendingOf, NonePending, Pending
<1>7. req[r].old \notin PendingOf(r)'
  <2>1. SUFFICES ASSUME req[r].old \in Session
                 PROVE  session'[req[r].old].status = "EXPIRED"
    BY DEF PendingOf, Pending
  <2> QED BY <1>0, <2>1 DEF ExpireOld, SessionRow
<1>8. ASSUME NEW q \in Request PROVE WindowOK(q)'
  <2>1. SUFFICES ASSUME InWindow(q), PairOf(q) \notin tainted PROVE WindowOK(q)'
    BY <1>0, <1>6 DEF WindowOK
  <2>2. \A p \in Request : InWindow(p)' /\ PairOf(p)' = PairOf(q)' => p = q
    BY <1>6, <2>1 DEF WindowInv, WindowOK
  <2>3. CASE q = r
    <3>1. PendingOf(r) \subseteq {req[r].old}
      BY <1>0, <2>1, <2>3 DEF WindowInv, WindowOK
    <3>2. PendingOf(r)' = {}
      BY <1>6, <1>7, <3>1
    <3> QED BY <1>5, <2>2, <2>3, <3>2 DEF WindowOK
  <2>4. CASE q # r
    <3>1. req'[q] = req[q] /\ WindowOK(q)
      BY <1>4, <2>4 DEF WindowInv
    <3>2. /\ req[q].pc = "ExpireOld" => PendingOf(q) \subseteq {req[q].old}
          /\ req[q].pc = "SaveSession" => PendingOf(q) = {}
      BY <2>1, <3>1 DEF WindowOK
    <3>3. PendingOf(q)' \subseteq PendingOf(q)
      BY <1>6
    <3> QED BY <2>2, <3>1, <3>2, <3>3 DEF WindowOK
  <2> QED BY <2>3, <2>4
<1> QED BY <1>2, <1>8 DEF WindowInv

\* The INSERT adds the one pending session of a pair that has none, and no other
\* request is in the window of that pair.
LEMMA SaveSessionStep ==
    ASSUME TypeOK, WindowInv, NEW r \in Request, SaveSession(r)
    PROVE  WindowInv'
<1>0. /\ req \in [Request -> RequestState]
      /\ session \in [Session -> SessionRow]
      /\ req[r].pc = "SaveSession"
      /\ UNCHANGED tainted
      /\ req' = [req EXCEPT ![r] = NoRequest]
  BY DEF TypeOK, SaveSession, Return
<1>1. PICK s \in Session : session' = [session EXCEPT ![s] = NewSession(r)]
  BY DEF SaveSession
<1>2. \A u, t : <<u, t>> # PairOf(r) => Pending(u, t)' \subseteq Pending(u, t)
  BY <1>0, <1>1 DEF Pending, NewSession, PairOf
<1>3. PendingOf(r) = {} => \A u, t : Pending(u, t)' \subseteq Pending(u, t) \cup {s}
  BY <1>0, <1>1 DEF Pending
<1>4. PairOf(r) \notin tainted => PendingOf(r) = {}
  BY <1>0 DEF WindowInv, WindowOK, InWindow
<1>5. ASSUME NEW u \in User, NEW t \in Types, <<u, t>> \notin tainted,
             NEW s1 \in Pending(u, t)', NEW s2 \in Pending(u, t)'
      PROVE  s1 = s2
  <2>1. CASE <<u, t>> # PairOf(r)
    BY <1>2, <1>5, <2>1 DEF WindowInv, OnePending
  <2>2. CASE <<u, t>> = PairOf(r)
    <3>1. Pending(u, t) = {}
      BY <1>4, <1>5, <2>2 DEF PairOf, PendingOf
    <3> QED BY <1>3, <1>4, <1>5, <2>2, <3>1
  <2> QED BY <2>1, <2>2
<1>6. ASSUME NEW q \in Request PROVE WindowOK(q)'
  <2>1. SUFFICES ASSUME InWindow(q)', PairOf(q)' \notin tainted' PROVE WindowOK(q)'
    BY DEF WindowOK
  <2>2. ~InWindow(r)'
    BY <1>0 DEF InWindow, NoRequest
  <2>3. \A p \in Request : p # r => req'[p] = req[p]
    BY <1>0
  <2>4. q # r /\ req'[q] = req[q] /\ WindowOK(q)
    BY <2>1, <2>2, <2>3 DEF WindowInv
  <2>5. InWindow(q) /\ PairOf(q)' = PairOf(q) /\ PairOf(q) \notin tainted
    BY <1>0, <2>1, <2>4 DEF InWindow, PairOf
  <2>6. PairOf(q) # PairOf(r)
    BY <1>0, <2>4, <2>5 DEF WindowOK, InWindow
  <2>7. PendingOf(q)' \subseteq PendingOf(q)
    BY <1>2, <2>4, <2>6 DEF PendingOf, PairOf, Pending
  <2>8. \A p \in Request : InWindow(p)' /\ PairOf(p)' = PairOf(q)' => p = q
    BY <2>2, <2>3, <2>4, <2>5 DEF WindowOK, InWindow, PairOf
  <2> QED BY <2>4, <2>5, <2>7, <2>8 DEF WindowOK
<1> QED BY <1>0, <1>5, <1>6 DEF WindowInv, OnePending

\* An ignored error may skip the SELECT or the UPDATE: it taints the pair.
LEMMA ErrorIgnoredStep ==
    ASSUME TypeOK, WindowInv, NEW r \in Request, ErrorIgnored(r)
    PROVE  WindowInv'
<1>0. /\ req \in [Request -> RequestState]
      /\ UNCHANGED session
      /\ tainted' = tainted \cup {PairOf(r)}
  BY DEF TypeOK, ErrorIgnored
<1>1. \A u, t : Pending(u, t)' = Pending(u, t)
  BY <1>0 DEF Pending
<1>2. OnePending'
  BY <1>0, <1>1 DEF WindowInv, OnePending
<1>3. \A q \in Request : q # r => req'[q] = req[q]
  BY <1>0 DEF ErrorIgnored, Goto, Return
<1>4. InWindow(r)' => PairOf(r)' = PairOf(r)
  <2>1. ASSUME NEW label \in {"SaveSession", "UpdateAudit"}, Goto(r, label)
        PROVE  PairOf(r)' = PairOf(r)
    BY <1>0, <2>1 DEF Goto, PairOf, RequestState
  <2>2. ASSUME Return(r) PROVE ~InWindow(r)'
    BY <1>0, <2>2 DEF Return, InWindow, NoRequest
  <2> QED BY <2>1, <2>2 DEF ErrorIgnored
<1>5. ASSUME NEW q \in Request PROVE WindowOK(q)'
  <2>1. SUFFICES ASSUME InWindow(q)', PairOf(q)' \notin tainted' PROVE WindowOK(q)'
    BY DEF WindowOK
  <2>2. q # r
    BY <1>0, <1>4, <2>1
  <2>3. req'[q] = req[q] /\ WindowOK(q)
    BY <1>3, <2>2 DEF WindowInv
  <2>4. /\ InWindow(q) /\ PairOf(q)' = PairOf(q) /\ PairOf(q) \notin tainted
        /\ PairOf(q) # PairOf(r)
        /\ PendingOf(q)' = PendingOf(q)
    BY <1>0, <1>1, <2>1, <2>3 DEF InWindow, PairOf, PendingOf
  <2>5. \A p \in Request : InWindow(p)' /\ PairOf(p)' = PairOf(q)' => p = q
    BY <1>3, <1>4, <2>3, <2>4 DEF WindowOK, InWindow, PairOf
  <2> QED BY <2>3, <2>4, <2>5 DEF WindowOK
<1> QED BY <1>2, <1>5 DEF WindowInv

\* After a restart nothing is pending and no request is under way.
LEMMA RestartStep ==
    ASSUME TypeOK, Restart PROVE WindowInv'
<1>1. \A u, t : Pending(u, t)' = {}
  BY DEF Restart, Pending, TypeOK, SessionRow
<1>2. \A r \in Request : ~InWindow(r)'
  BY DEF Restart, InWindow, NoRequest
<1> QED BY <1>1, <1>2 DEF WindowInv, OnePending, WindowOK

\* The other statements and processes.
LEMMA OtherStep ==
    ASSUME TypeOK, WindowInv, [Next]_vars,
           \/ \E r \in Request :
                \/ Arrive(r) \/ CreateUser(r) \/ LoadForBegin(r) \/ LoadForFinish(r)
                \/ MarkExpired(r) \/ Validate(r) \/ SaveCredential(r)
                \/ UpdateSignCount(r) \/ ReadAudit(r) \/ UpdateCredentialAudit(r)
                \/ CompleteSession(r) \/ GenerateToken(r) \/ Deactivate(r)
                \/ StatementFails(r)
           \/ CleanupExpiredSessions \/ Tick \/ UNCHANGED vars
    PROVE  WindowInv'
<1>0. req \in [Request -> RequestState]
  BY DEF TypeOK
<1>1. CASE CleanupExpiredSessions \/ Tick \/ UNCHANGED vars
  <2>1. UNCHANGED <<req, tainted>>
    BY <1>1 DEF CleanupExpiredSessions, Tick, vars
  <2>2. \A q \in Request : ~SaveSession(q)
    BY <1>0, <2>1 DEF SaveSession, Return, NoRequest
  <2>3. \A u, t : NonePending(u, t)
    BY <2>2, PendingStep
  <2>4. \A q \in Request : WindowKept(q)
    BY <2>1 DEF WindowKept, InWindow
  <2> QED BY <2>1, <2>3, <2>4, QuietStep
<1>2. ASSUME NEW r \in Request,
             \/ Arrive(r) \/ CreateUser(r) \/ LoadForBegin(r) \/ LoadForFinish(r)
             \/ MarkExpired(r) \/ Validate(r) \/ SaveCredential(r)
             \/ UpdateSignCount(r) \/ ReadAudit(r) \/ UpdateCredentialAudit(r)
             \/ CompleteSession(r) \/ GenerateToken(r) \/ Deactivate(r)
             \/ StatementFails(r)
      PROVE  WindowInv'
  <2>1. \A q \in Request : q # r => req'[q] = req[q]
    BY <1>0, <1>2 DEF Arrive, BeginRegistration, BeginLogin, Finish, RevokeCredential,
       CreateUser, LoadForBegin, LoadForFinish, MarkExpired, Validate, SaveCredential,
       UpdateSignCount, ReadAudit, UpdateCredentialAudit, CompleteSession,
       GenerateToken, Deactivate, StatementFails, Goto, Return
  <2>2. ~InWindow(r)'
    <3>1. ASSUME NEW label \in Labels \ {"ExpireOld", "SaveSession"}, Goto(r, label)
          PROVE  ~InWindow(r)'
      BY <1>0, <3>1 DEF Goto, InWindow, RequestState
    <3>2. ASSUME Return(r) PROVE ~InWindow(r)'
      BY <1>0, <3>2 DEF Return, InWindow, NoRequest
    <3>3. CASE CreateUser(r) \/ MarkExpired(r) \/ SaveCredential(r) \/ UpdateSignCount(r)
               \/ UpdateCredentialAudit(r) \/ CompleteSession(r) \/ GenerateToken(r)
               \/ Deactivate(r) \/ StatementFails(r)
      BY <3>1, <3>2, <3>3 DEF CreateUser, MarkExpired, SaveCredential, UpdateSignCount,
         UpdateCredentialAudit, CompleteSession, GenerateToken, Deactivate, StatementFails, Labels
    <3>4. CASE LoadForBegin(r) \/ LoadForFinish(r) \/ ReadAudit(r)
      <4>1. CASE LoadForBegin(r)
        BY <1>0, <3>2, <4>1 DEF LoadForBegin, InWindow, RequestState
      <4>2. CASE LoadForFinish(r)
        BY <1>0, <3>1, <4>2 DEF LoadForFinish, InWindow, RequestState, Labels
      <4>3. CASE ReadAudit(r)
        <5>1. ASSUME NEW agent, NEW ip,
                     req' = [req EXCEPT ![r].pc = "UpdateAudit", ![r].agent = agent,
                                        ![r].ip = ip]
              PROVE  ~InWindow(r)'
          BY <1>0, <5>1 DEF InWindow, RequestState
        <5>2. ASSUME Goto(r, "UpdateAudit") PROVE ~InWindow(r)'
          BY <3>1, <5>2 DEF Labels
        <5> QED BY <4>3, <5>1, <5>2 DEF ReadAudit
      <4> QED BY <3>4, <4>1, <4>2, <4>3
    <3>5. CASE Validate(r)
      <4>1. ASSUME NEW c, NEW n,
                   req' = [req EXCEPT ![r].pc = "SaveCredential", ![r].loaded = NoLoad,
                                      ![r].cred = c, ![r].count = n]
            PROVE  ~InWindow(r)'
        BY <1>0, <4>1 DEF InWindow, RequestState
      <4>2. ASSUME NEW c, NEW n,
                   req' = [req EXCEPT ![r].pc = "UpdateSignCount",
                                      ![r].loaded = NoLoad,
                                      ![r].cred = c,
                                      ![r].seen = req[r].loaded[c],
                                      ![r].count = UpdateCounter(req[r].loaded[c], n)]
            PROVE  ~InWindow(r)'
        BY <1>0, <4>2 DEF InWindow, RequestState
      <4> QED BY <3>2, <3>5, <4>1, <4>2 DEF Validate
    <3>6. CASE Arrive(r)
      <4>1. CASE BeginRegistration(r)
        BY <1>0, <4>1 DEF BeginRegistration, InWindow, NoRequest
      <4>2. CASE BeginLogin(r)
        BY <1>0, <4>2 DEF BeginLogin, InWindow, NoRequest
      <4>3. CASE Finish(r)
        BY <1>0, <4>3 DEF Finish, InWindow, NoRequest
      <4>4. CASE RevokeCredential(r)
        BY <1>0, <4>4 DEF RevokeCredential, InWindow, NoRequest
      <4> QED BY <3>6, <4>1, <4>2, <4>3, <4>4 DEF Arrive
    <3> QED BY <1>2, <3>3, <3>4, <3>5, <3>6
  <2>3. ASSUME NEW q \in Request PROVE WindowKept(q)
    <3>1. CASE q = r
      BY <2>2, <3>1 DEF WindowKept
    <3>2. CASE q # r
      BY <2>1, <3>2 DEF WindowKept, InWindow
    <3> QED BY <3>1, <3>2
  <2>4. UNCHANGED tainted
    BY <1>2 DEF Arrive, BeginRegistration, BeginLogin, Finish, RevokeCredential,
       CreateUser, LoadForBegin, LoadForFinish, MarkExpired, Validate, SaveCredential,
       UpdateSignCount, ReadAudit, UpdateCredentialAudit, CompleteSession,
       GenerateToken, Deactivate, StatementFails
  <2>5. CASE \E q \in Request : SaveSession(q)
    BY <2>5, SaveSessionStep
  <2>6. CASE \A q \in Request : ~SaveSession(q)
    <3>1. \A u, t : NonePending(u, t)
      BY <2>6, PendingStep
    <3> QED BY <2>3, <2>4, <3>1, QuietStep
  <2> QED BY <2>5, <2>6
<1> QED BY <1>1, <1>2

----------------------------------------------------------------------------
LEMMA WindowInit == Init => WindowInv
  BY DEF Init, WindowInv, OnePending, WindowOK, InWindow, Pending, NoRequest, NoSession

LEMMA WindowNext == TypeOK /\ IInv /\ WindowInv /\ [Next]_vars => WindowInv'
  BY FindPendingStep, ExpireOldStep, SaveSessionStep, ErrorIgnoredStep, RestartStep,
     OtherStep DEF Next, Step, Fault

\* A user has at most one pending session of a type, as long as no two begins of
\* the user and type overlapped and no error was ignored.
THEOREM OneSessionPending == Spec => []OnePending
<1>1. Spec => []WindowInv
  BY WindowInit, WindowNext, TypeCorrect, Invariance, PTL DEF Spec
<1>2. WindowInv => OnePending
  BY DEF WindowInv
<1> QED BY <1>1, <1>2, PTL
=============================================================================
