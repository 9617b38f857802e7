---------------------- MODULE WebAuthnRefinement_proofs ---------------------
(***************************************************************************)
(* WebAuthnService implements Ceremonies, for every value of the           *)
(* constants: under the mapping of Promised the initial state is initial   *)
(* and every statement is one operation, or one that closes nothing.       *)
(***************************************************************************)
EXTENDS WebAuthnFinish_proofs

\* The values the mapping of Promised gives to the variables of Ceremonies.
Ceremony == [s \in Session |-> [state |-> CeremonyState(s), user |-> session[s].user,
                                type |-> session[s].type,
                                allowed |-> session[s].allowed]]
Passkey == [c \in Credential |-> [owner |-> cred[c].owner, active |-> cred[c].active]]
Issued == {[user |-> g.user, session |-> g.session, cred |-> g.cred] : g \in grants}

\* What the mapping makes of a status.
LEMMA StateOfStatus ==
    ASSUME TypeOK, NEW s \in Session
    PROVE  /\ CeremonyState(s) = "unused" <=> session[s].status = "FREE"
           /\ CeremonyState(s) = "open" <=> session[s].status = "PENDING"
           /\ CeremonyState(s) = "gone" <=> session[s].status = "DROPPED"
           /\ CeremonyState(s) = "closed" <=> session[s].status \in {"COMPLETED", "EXPIRED"}
<1>1. session[s].status \in Statuses
  BY DEF TypeOK, SessionRow
<1>2. CASE session[s].status = "FREE"
  BY <1>2 DEF CeremonyState
<1>3. CASE session[s].status = "PENDING"
  BY <1>3 DEF CeremonyState
<1>4. CASE session[s].status = "DROPPED"
  BY <1>4 DEF CeremonyState
<1>5. CASE session[s].status \in {"COMPLETED", "EXPIRED"}
  BY <1>5 DEF CeremonyState
<1> QED BY <1>1, <1>2, <1>3, <1>4, <1>5 DEF Statuses

LEMMA InitImplements == Init => Promised!Init
<1> SUFFICES ASSUME Init PROVE Promised!Init
  OBVIOUS
<1>1. \A s \in Session : CeremonyState(s) = "unused"
  BY DEF Init, NoSession, CeremonyState
<1> QED BY <1>1 DEF Init, NoSession, NoCredential, Promised!Init

\* A statement that registers, revokes and grants nothing closes the open sessions
\* it writes to, or nothing: no statement under way has a session from before a
\* restart, or a free one.
LEMMA CloseImplements ==
    ASSUME TypeOK, IInv, FinishInv, [Next]_vars,
           ~Restart,
           \A r \in Request : ~SaveSession(r),
           \A c \in Credential : /\ cred'[c].owner = cred[c].owner
                                 /\ cred'[c].active = cred[c].active,
           grants' = grants
    PROVE  Promised!Close
<1> DEFINE closing == {s \in Session : session[s].status = "PENDING"
                                       /\ session'[s].status # "PENDING"}
<1>0. TypeOK'
  BY TypeNext
<1>1. ASSUME NEW s \in Session
      PROVE  /\ session'[s].user = session[s].user
             /\ session'[s].type = session[s].type
             /\ session'[s].allowed = session[s].allowed
             /\ \/ session'[s].status = session[s].status
                \/ /\ session[s].status \notin {"FREE", "DROPPED"}
                   /\ session'[s].status \in {"COMPLETED", "EXPIRED"}
  <2>1. CASE session[s].status = "FREE"
    BY <2>1, FreeStep
  <2>2. CASE session[s].status # "FREE"
    <3>1. ASSUME NEW r \in Request, ExpireOld(r) /\ s = req[r].old
          PROVE  session[s].status # "DROPPED"
      BY <3>1 DEF ExpireOld, FinishInv, RequestOK, BeginOK
    <3>2. ASSUME NEW r \in Request, MarkExpired(r) \/ CompleteSession(r), s = req[r].sid
          PROVE  session[s].status # "DROPPED"
      <4>1. req[r].pc # "idle" /\ req[r].op \in FinishOps
        BY <3>2 DEF MarkExpired, CompleteSession, IInv, LocalsOK
      <4> QED BY <3>2, <4>1 DEF FinishInv, RequestOK, DeadlineOK
    <3>3. s \in Overdue => session[s].status # "DROPPED"
      BY DEF Overdue
    <3> QED BY <2>2, <3>1, <3>2, <3>3, StatusStep, SessionStep DEF SessionKept
  <2> QED BY <2>1, <2>2
<1>2. ASSUME NEW s \in Session
      PROVE  CeremonyState(s)' = IF s \in closing THEN "closed" ELSE CeremonyState(s)
  <2>1. CASE session'[s].status = session[s].status
    BY <2>1 DEF CeremonyState
  <2>2. CASE session'[s].status # session[s].status
    <3>1. CeremonyState(s)' = "closed"
      BY <1>1, <2>2 DEF CeremonyState
    <3>2. ASSUME s \notin closing PROVE CeremonyState(s) = "closed"
      <4>1. session[s].status \in Statuses
        BY DEF TypeOK, SessionRow
      <4>2. /\ session[s].status \notin {"FREE", "DROPPED"}
            /\ session'[s].status \in {"COMPLETED", "EXPIRED"}
        BY <1>1, <2>2
      <4>3. session[s].status # "PENDING"
        BY <3>2, <4>2
      <4> QED BY <1>2, <4>1, <4>2, <4>3, StateOfStatus DEF Statuses
    <3> QED BY <3>1, <3>2
  <2> QED BY <2>1, <2>2
<1>3. \A s \in closing : CeremonyState(s) = "open"
  BY DEF CeremonyState
<1> HIDE DEF closing
<1>4. closing \subseteq Session
  BY DEF closing
<1> HIDE DEF CeremonyState
<1>5. Ceremony' = [s \in Session |-> IF s \in closing
                                     THEN [Ceremony[s] EXCEPT !.state = "closed"]
                                     ELSE Ceremony[s]]
  BY <1>1, <1>2 DEF Ceremony
<1>6. closing \in SUBSET {s \in Session : Ceremony[s].state = "open"}
  BY <1>3, <1>4 DEF Ceremony
<1>7. Passkey' = Passkey /\ Issued' = Issued
  BY DEF Passkey, Issued
<1> QED BY <1>5, <1>6, <1>7 DEF Promised!Close, Ceremony, Passkey, Issued

\* The INSERT of saveSession opens a ceremony: a login for credentials of its user,
\* at least one, and a registration for none.
LEMMA OpenImplements ==
    ASSUME TypeOK, IInv, FinishInv, [Next]_vars, NEW r \in Request, SaveSession(r)
    PROVE  \E s \in Session : Promised!Open(s)
<1>0. /\ LocalsOK(r) /\ BeginOK(r)
      /\ req[r].pc = "SaveSession"
      /\ req[r].op \in BeginOps
      /\ req[r] \in RequestState
      /\ UNCHANGED <<cred, grants>>
  BY DEF IInv, FinishInv, RequestOK, BeginOK, SaveSession, TypeOK
<1>1. PICK s \in Session : /\ session[s].status = "FREE"
                           /\ session' = [session EXCEPT ![s] = NewSession(r)]
  BY DEF SaveSession
<1> DEFINE u == req[r].user
           type == TypeOf(req[r].op)
           allowed == IF req[r].op = "LoginBegin" THEN DOMAIN req[r].loaded ELSE {}
<1>2. /\ session'[s].status = "PENDING"
      /\ session'[s].user = u
      /\ session'[s].type = type
      /\ session'[s].allowed = allowed
      /\ \A t \in Session : t # s => session'[t] = session[t]
  BY <1>1 DEF NewSession, TypeOK
<1>3. u \in User /\ \A c \in DOMAIN req[r].loaded : cred[c].owner = u
  BY <1>0 DEF LocalsOK
<1>4. DOMAIN req[r].loaded \subseteq Credential
  BY <1>0 DEF RequestState, Loads
<1>5. req[r].op = "LoginBegin" => DOMAIN req[r].loaded # {}
  BY <1>0 DEF BeginOK
<1>6. allowed \in SUBSET Credential
  BY <1>4
<1>7. IF type = "REGISTRATION" THEN allowed = {}
      ELSE allowed # {} /\ allowed \subseteq {c \in Credential : Passkey[c].owner = u}
  <2>1. CASE req[r].op = "RegisterBegin"
    BY <2>1 DEF TypeOf
  <2>2. CASE req[r].op = "LoginBegin"
    BY <1>3, <1>4, <1>5, <2>2 DEF TypeOf, Passkey
  <2> QED BY <1>0, <2>1, <2>2 DEF BeginOps
<1>8. type \in {"REGISTRATION", "AUTHENTICATION"}
  BY DEF TypeOf
<1> HIDE DEF u, type, allowed
<1>9. Ceremony[s].state = "unused"
  BY <1>1, StateOfStatus DEF Ceremony
<1>10. Ceremony' = [Ceremony EXCEPT ![s] = [state |-> "open", user |-> u,
                                            type |-> type, allowed |-> allowed]]
  <2>1. CeremonyState(s)' = "open"
    BY <1>2 DEF CeremonyState
  <2>2. \A t \in Session : t # s => CeremonyState(t)' = CeremonyState(t)
    BY <1>2 DEF CeremonyState
  <2> HIDE DEF CeremonyState
  <2> QED BY <1>2, <2>1, <2>2 DEF Ceremony
<1>11. Passkey' = Passkey /\ Issued' = Issued
  BY <1>0 DEF Passkey, Issued
<1>12. \E v \in User, t \in {"REGISTRATION", "AUTHENTICATION"}, a \in SUBSET Credential :
         /\ IF t = "REGISTRATION" THEN a = {}
            ELSE a # {} /\ a \subseteq {c \in Credential : Passkey[c].owner = v}
         /\ Ceremony' = [Ceremony EXCEPT ![s] = [state |-> "open", user |-> v,
                                                 type |-> t, allowed |-> a]]
  <2> u \in User
    BY <1>3
  <2> type \in {"REGISTRATION", "AUTHENTICATION"} /\ allowed \in SUBSET Credential
    BY <1>6, <1>8
  <2> WITNESS u \in User, type \in {"REGISTRATION", "AUTHENTICATION"},
              allowed \in SUBSET Credential
  <2> QED BY <1>7, <1>10
<1>13. Promised!Open(s)
  BY <1>9, <1>11, <1>12 DEF Promised!Open, Promised!OwnedBy, Ceremony, Passkey, Issued
<1> QED BY <1>13

\* The INSERT of FinishRegistration enrols a passkey for the user of its session.
LEMMA EnrolImplements ==
    ASSUME TypeOK, IInv, FinishInv, [Next]_vars, NEW r \in Request, SaveCredential(r),
           cred[req[r].cred].owner = None
    PROVE  \E c \in Credential : Promised!Enrol(c)
<1> DEFINE c == req[r].cred
           s == req[r].sid
<1>0. /\ LocalsOK(r) /\ DeadlineOK(r)
      /\ req[r].pc = "SaveCredential"
      /\ req[r].op = "RegisterFinish"
      /\ c \in Credential
      /\ UNCHANGED <<session, grants>>
      /\ cred' = [cred EXCEPT ![c] = NewCredential(r)]
  BY DEF IInv, FinishInv, RequestOK, WritesOK, SaveCredential
<1>1. /\ s \in Session
      /\ session[s].status \notin {"FREE", "DROPPED"}
      /\ session[s].user = req[r].user
      /\ session[s].type = "REGISTRATION"
  BY <1>0 DEF LocalsOK, DeadlineOK, FinishOps, TypeOf
<1>2. /\ cred'[c].owner = req[r].user
      /\ cred'[c].active = TRUE
      /\ \A d \in Credential : d # c => cred'[d] = cred[d]
  BY <1>0 DEF NewCredential, NoCredential, TypeOK
<1> HIDE DEF c, s
<1>3. Ceremony[s].type = "REGISTRATION" /\ Ceremony[s].state \in {"open", "closed"}
  <2>1. session[s].status \in Statuses
    BY <1>1 DEF TypeOK, SessionRow
  <2>2. CeremonyState(s) \in {"open", "closed"}
    BY <1>1, <2>1, StateOfStatus DEF Statuses
  <2> QED BY <1>1, <2>2 DEF Ceremony
<1>4. Passkey' = [Passkey EXCEPT ![c] = [owner |-> Ceremony[s].user, active |-> TRUE]]
  BY <1>0, <1>1, <1>2 DEF Passkey, Ceremony
<1>5. Passkey[c].owner = None
  BY <1>0 DEF Passkey, c
<1>6. Ceremony' = Ceremony /\ Issued' = Issued
  BY <1>0 DEF Ceremony, CeremonyState, Issued
<1> QED BY <1>0, <1>1, <1>3, <1>4, <1>5, <1>6
        DEF Promised!Enrol, Promised!Counts, Ceremony, Passkey, Issued

\* GenerateToken issues a token for the closed login that was finished.
LEMMA IssueImplements ==
    ASSUME TypeOK, IInv, FinishInv, [Next]_vars, NEW r \in Request, GenerateToken(r)
    PROVE  \E s \in Session, c \in Credential : Promised!Issue(s, c)
<1> DEFINE c == req[r].cred
           s == req[r].sid
           u == req[r].user
<1>0. /\ LocalsOK(r) /\ DeadlineOK(r)
      /\ req[r].pc = "GenerateToken"
      /\ UNCHANGED <<session, cred>>
      /\ grants' = grants \cup {NewToken(r)}
  BY DEF IInv, FinishInv, RequestOK, GenerateToken
<1>1. /\ s \in Session
      /\ session[s].status \notin {"FREE", "DROPPED", "PENDING"}
      /\ session[s].user = u
      /\ session[s].type = "AUTHENTICATION"
      /\ c \in session[s].allowed
      /\ cred[c].owner = u
  BY <1>0 DEF LocalsOK, DeadlineOK, FinishOps, TypeOf, Verified
<1>2. c \in Credential
  BY <1>1 DEF TypeOK, SessionRow
<1>3. NewToken(r).user = u /\ NewToken(r).session = s /\ NewToken(r).cred = c
  BY DEF NewToken
<1> HIDE DEF c, s, u
<1>4. /\ Ceremony[s].type = "AUTHENTICATION" /\ Ceremony[s].state = "closed"
      /\ Ceremony[s].user = u /\ c \in Ceremony[s].allowed
  <2>1. session[s].status \in Statuses
    BY <1>1 DEF TypeOK, SessionRow
  <2>2. CeremonyState(s) = "closed"
    BY <1>1, <2>1, StateOfStatus DEF Statuses
  <2> QED BY <1>1, <2>2 DEF Ceremony
<1>5. Passkey[c].owner = u
  BY <1>1, <1>2 DEF Passkey
<1>6. Issued' = Issued \cup {[user |-> Ceremony[s].user, session |-> s, cred |-> c]}
  BY <1>0, <1>3, <1>4 DEF Issued
<1>7. Ceremony' = Ceremony /\ Passkey' = Passkey
  BY <1>0 DEF Ceremony, CeremonyState, Passkey
<1> QED BY <1>1, <1>2, <1>4, <1>5, <1>6, <1>7
        DEF Promised!Issue, Promised!Counts, Promised!OwnedBy, Ceremony, Passkey, Issued

\* The UPDATE of a revocation revokes a passkey of a user who has a token.
LEMMA RevokeImplements ==
    ASSUME TypeOK, IInv, FinishInv, [Next]_vars, NEW r \in Request, Deactivate(r),
           cred[req[r].cred].owner = req[r].user, req[r].cred \in Credential
    PROVE  \E c \in Credential : Promised!Revoke(c)
<1> DEFINE c == req[r].cred
<1>0. /\ RevokeOK(r)
      /\ req[r].pc = "Deactivate"
      /\ UNCHANGED <<session, grants>>
      /\ cred' = [cred EXCEPT ![c].active = FALSE]
  BY DEF FinishInv, RequestOK, Deactivate
<1>1. PICK g \in grants : g.user = cred[c].owner
  BY <1>0 DEF RevokeOK
<1>2. /\ cred'[c].owner = cred[c].owner
      /\ cred'[c].active = FALSE
      /\ \A d \in Credential : d # c => cred'[d] = cred[d]
  BY <1>0 DEF TypeOK, CredentialRow
<1>3. c \in Credential
  OBVIOUS
<1> HIDE DEF c
<1>4. \E t \in Issued : t.user = Passkey[c].owner
  <2> DEFINE t == [user |-> g.user, session |-> g.session, cred |-> g.cred]
  <2>1. t \in Issued
    BY DEF Issued
  <2>2. t.user = Passkey[c].owner
    BY <1>1, <1>3 DEF Passkey
  <2> QED BY <2>1, <2>2
<1>5. Passkey' = [Passkey EXCEPT ![c].active = FALSE]
  BY <1>2, <1>3 DEF Passkey
<1>6. Ceremony' = Ceremony /\ Issued' = Issued
  BY <1>0 DEF Ceremony, CeremonyState, Issued
<1> QED BY <1>3, <1>4, <1>5, <1>6 DEF Promised!Revoke, Ceremony, Passkey, Issued

\* A restart drops the table of sessions.
LEMMA ForgetImplements ==
    ASSUME TypeOK, Restart PROVE Promised!Forget
<1>1. ASSUME NEW s \in Session
      PROVE  /\ session'[s].user = session[s].user
             /\ session'[s].type = session[s].type
             /\ session'[s].allowed = session[s].allowed
             /\ CeremonyState(s)' = IF CeremonyState(s) = "unused" THEN CeremonyState(s)
                                    ELSE "gone"
  <2>1. session[s] \in SessionRow
    BY <1>1 DEF TypeOK
  <2>2. CASE session[s].status = "FREE"
    <3>1. session'[s] = session[s]
      BY <1>1, <2>2 DEF Restart
    <3> QED BY <2>2, <3>1 DEF CeremonyState
  <2>3. CASE session[s].status # "FREE"
    <3>1. session'[s] = [session[s] EXCEPT !.status = "DROPPED"]
      BY <1>1, <2>3 DEF Restart
    <3>2. /\ session'[s].user = session[s].user
          /\ session'[s].type = session[s].type
          /\ session'[s].allowed = session[s].allowed
          /\ session'[s].status = "DROPPED"
      BY <2>1, <3>1 DEF SessionRow
    <3>3. CeremonyState(s)' = "gone"
      BY <3>2 DEF CeremonyState
    <3>4. CeremonyState(s) # "unused"
      BY <1>1, <2>3, StateOfStatus
    <3> QED BY <3>2, <3>3, <3>4
  <2> QED BY <2>2, <2>3
<1> HIDE DEF CeremonyState
<1>2. Ceremony' = [s \in Session |-> IF Ceremony[s].state = "unused" THEN Ceremony[s]
                                     ELSE [Ceremony[s] EXCEPT !.state = "gone"]]
  BY <1>1 DEF Ceremony
<1>3. Passkey' = Passkey /\ Issued' = Issued
  BY DEF Restart, Passkey, Issued
<1> QED BY <1>2, <1>3 DEF Promised!Forget, Ceremony, Passkey, Issued

\* Only three statements register, revoke or grant: the other UPDATEs of a row write
\* counters, user agents and addresses.
Registers(r) == SaveCredential(r) /\ cred[req[r].cred].owner = None
Revokes(r) == Deactivate(r) /\ cred[req[r].cred].owner = req[r].user
                            /\ req[r].cred \in Credential

LEMMA QuietStatements ==
    ASSUME TypeOK, [Next]_vars,
           \A r \in Request : ~Registers(r) /\ ~Revokes(r) /\ ~GenerateToken(r)
    PROVE  /\ grants' = grants
           /\ \A c \in Credential : /\ cred'[c].owner = cred[c].owner
                                    /\ cred'[c].active = cred[c].active
<1>0. cred \in [Credential -> CredentialRow]
  BY DEF TypeOK
<1>1. ASSUME NEW r \in Request, Step(r)
      PROVE  /\ grants' = grants
             /\ \A c \in Credential : /\ cred'[c].owner = cred[c].owner
                                      /\ cred'[c].active = cred[c].active
  <2>1. CASE SaveCredential(r)
    BY <2>1 DEF SaveCredential, Registers
  <2>2. CASE UpdateSignCount(r)
    BY <1>0, <2>2 DEF UpdateSignCount, CredentialRow
  <2>3. CASE UpdateCredentialAudit(r)
    BY <1>0, <2>3 DEF UpdateCredentialAudit, CredentialRow
  <2>4. CASE Deactivate(r)
    BY <1>0, <2>4 DEF Deactivate, Revokes
  <2>5. CASE \/ CreateUser(r) \/ LoadForBegin(r) \/ FindPending(r) \/ ExpireOld(r)
             \/ SaveSession(r) \/ LoadForFinish(r) \/ MarkExpired(r) \/ Validate(r)
             \/ ReadAudit(r) \/ CompleteSession(r)
    BY <2>5 DEF CreateUser, LoadForBegin, FindPending, ExpireOld, SaveSession,
       LoadForFinish, MarkExpired, Validate, ReadAudit, CompleteSession
  <2> QED BY <1>1, <2>1, <2>2, <2>3, <2>4, <2>5 DEF Step
<1>2. ASSUME NEW r \in Request, Arrive(r) \/ Fault(r) PROVE UNCHANGED <<cred, grants>>
  BY <1>2 DEF Arrive, BeginRegistration, BeginLogin, Finish, RevokeCredential,
     Fault, StatementFails, ErrorIgnored
<1>3. CASE CleanupExpiredSessions \/ Tick \/ Restart \/ UNCHANGED vars
  BY <1>3 DEF CleanupExpiredSessions, Tick, Restart, vars
<1> QED BY <1>1, <1>2, <1>3 DEF Next

\* Every step is one operation of Ceremonies.
LEMMA StepImplements ==
    ASSUME TypeOK, IInv, FinishInv, [Next]_vars PROVE Promised!Next
<1>1. CASE Restart
  BY <1>1, ForgetImplements DEF Promised!Next
<1>2. CASE \E r \in Request : SaveSession(r)
  BY <1>2, OpenImplements DEF Promised!Next
<1>3. CASE \E r \in Request : Registers(r)
  BY <1>3, EnrolImplements DEF Promised!Next, Registers
<1>4. CASE \E r \in Request : Revokes(r)
  BY <1>4, RevokeImplements DEF Promised!Next, Revokes
<1>5. CASE \E r \in Request : GenerateToken(r)
  BY <1>5, IssueImplements DEF Promised!Next
<1>6. CASE /\ ~Restart
           /\ \A r \in Request : /\ ~SaveSession(r) /\ ~Registers(r)
                                 /\ ~Revokes(r) /\ ~GenerateToken(r)
  BY <1>6, QuietStatements, CloseImplements DEF Promised!Next
<1> QED BY <1>1, <1>2, <1>3, <1>4, <1>5, <1>6

\* The service, with its interleaved statements, faults and restarts, changes
\* sessions, credentials and tokens as if every operation took effect at once.
THEOREM ServiceImplementsCeremonies == Spec => ImplementsCeremonies
<1>1. TypeOK /\ IInv /\ FinishInv /\ [Next]_vars => Promised!Next
  BY StepImplements
<1> QED BY <1>1, InitImplements, ServiceInvariance, PTL
        DEF Spec, ImplementsCeremonies, Promised!Spec
=============================================================================
