------------------------- MODULE WebAuthnProperties -------------------------
(***************************************************************************)
(* What the application service promises about its sessions, credentials   *)
(* and tokens.  WebAuthnService gives the behaviours.                      *)
(***************************************************************************)
EXTENDS WebAuthnService

\* A finish request whose response the library has accepted.
Verified(r) ==
    req[r].pc \in {"SaveCredential", "UpdateSignCount", "ReadAudit", "UpdateAudit",
                   "CompleteSession", "GenerateToken"}

(* ------------------------------ invariants ------------------------------ *)

\* saveSession expires the old session before it saves the new one, so a user
\* has at most one pending session of a type - as long as no two begins of the
\* user and type overlapped and no error was ignored.
OnePending ==
    \A u \in User, t \in Types :
        <<u, t>> \notin tainted => \A s1, s2 \in Pending(u, t) : s1 = s2

\* FinishLogin looks for "the" pending session of the user instead of using the
\* one it was sent for; while that one is still pending, and under the proviso
\* of OnePending, the user agent it writes is nevertheless the one of the
\* ceremony being finished.
AuditMatchesSession ==
    \A r \in Request :
        /\ req[r].pc = "UpdateAudit"
        /\ <<req[r].user, "AUTHENTICATION">> \notin tainted
        /\ session[req[r].sid].status = "PENDING"
        => /\ req[r].agent = session[req[r].sid].agent
           /\ req[r].agent # None

\* A token is for the user of a login ceremony and was earned with a credential
\* row of that user which the ceremony allowed - although the row, the session
\* and the user come from four separate statements.
GrantsAreOwned ==
    \A g \in grants :
        /\ cred[g.cred].owner = g.user
        /\ session[g.session].user = g.user
        /\ session[g.session].type = "AUTHENTICATION"
        /\ g.cred \in session[g.session].allowed

\* Once a token is out its session is not pending, so no request that arrives
\* later can finish the same ceremony: late replays are refused.
GrantClosesSession ==
    \A g \in grants : session[g.session].status \notin {"FREE", "PENDING"}

\* A registration is only reported complete after its credential row is there;
\* and a row stems from a registration ceremony of its owner.
RegistrationLeavesCredential ==
    /\ \A s \in Session :
         session[s].status = "COMPLETED" /\ session[s].type = "REGISTRATION"
         => \E c \in Credential : cred[c].origin = s
    /\ \A c \in Credential :
         cred[c].owner # None
         => /\ cred[c].origin # None
            /\ session[cred[c].origin].type = "REGISTRATION"
            /\ session[cred[c].origin].user = cred[c].owner

\* A credential that was revoked before a finish request arrived never passes,
\* even if the ceremony began, and listed the credential, before it was revoked.
RevokedIsRefused ==
    \A r \in Request :
        Verified(r) /\ req[r].op = "LoginFinish" => req[r].cred \notin req[r].revoked

\* A finish request that arrives after the deadline is turned away by the service
\* before its response is looked at, whether or not the worker has swept the
\* session yet, whatever the database's clock says and whatever statements failed.
ExpiredIsRefused ==
    \A r \in Request : req[r].late => req[r].pc \in {"LoadCredentials", "MarkExpired"}

(* --------------------------- action properties -------------------------- *)

\* UpdateSessionStatus writes by id and never looks at the status it replaces, so
\* what a session ended as may be overwritten - but only by a request that was under
\* way when it ended: a begin of the same user and type that is to replace it, a
\* finish that was in time, or one that was too late.  Nobody takes up a session that
\* has ended, neither the worker nor a request that comes later relabels it, and a
\* row that went with the table stays gone.
Ended(s) == session[s].status \in {"COMPLETED", "EXPIRED", "DROPPED"}
Holds(r, s) == s \in {req[r].sid, req[r].old}
Relabels(r, s, status) ==
    \/ /\ status = "COMPLETED"
       /\ req[r].pc = "CompleteSession" /\ req[r].sid = s
       /\ ~req[r].late
    \/ /\ status = "EXPIRED"
       /\ req[r].pc = "ExpireOld" /\ req[r].old = s
       /\ PairOf(r) = <<session[s].user, session[s].type>>
    \/ /\ status = "EXPIRED"
       /\ req[r].pc = "MarkExpired" /\ req[r].sid = s
       /\ session[s].expires < now
OnlyRacersRelabel ==
    [][\A s \in Session :
         Ended(s)
         => /\ \A r \in Request : Holds(r, s)' => Holds(r, s)
            /\ \/ session'[s].status \in {session[s].status, "DROPPED"}
               \/ /\ session[s].status # "DROPPED"
                  /\ \E r \in Request : Relabels(r, s, session'[s].status)]_vars

\* A pending session is expired under its user for two reasons only: its
\* deadline has passed, by the clock of the server or of the database, or a newer
\* begin of the same user and type replaces it.
LiveSessionIsKept ==
    [][\A s \in Session :
         session[s].status = "PENDING" /\ session'[s].status = "EXPIRED"
         => \/ session[s].expires < now \/ session[s].expires < now + DatabaseAhead
            \/ \E r \in Request :
                 /\ req[r].pc = "ExpireOld"
                 /\ PairOf(r) = <<session[s].user, session[s].type>>]_vars

\* A credential row keeps its owner and its ceremony, and what was revoked
\* stays revoked, whatever registrations, logins and revocations interleave.
CredentialRowIsStable ==
    [][\A c \in Credential :
         cred[c].owner # None
         => /\ cred'[c].owner = cred[c].owner
            /\ cred'[c].origin = cred[c].origin
            /\ cred'[c].active => cred[c].active]_vars

\* A stored signature counter goes down only by a lost update: the login that
\* writes it had loaded a value another login has replaced since.
CounterFallsOnlyWhenStale ==
    [][\A c \in Credential :
         cred'[c].count < cred[c].count
         => \E r \in Request : /\ req[r].pc = "UpdateSignCount"
                               /\ req[r].cred = c
                               /\ req[r].seen # cred[c].count]_vars

(* ------------------------------ refinement ------------------------------ *)

CeremonyState(s) ==
    CASE session[s].status = "FREE"    -> "unused"
      [] session[s].status = "PENDING" -> "open"
      [] session[s].status = "DROPPED" -> "gone"
      [] OTHER                         -> "closed"

Promised == INSTANCE Ceremonies WITH
    ceremony <- [s \in Session |-> [state |-> CeremonyState(s), user |-> session[s].user,
                                    type |-> session[s].type,
                                    allowed |-> session[s].allowed]],
    passkey <- [c \in Credential |-> [owner |-> cred[c].owner, active |-> cred[c].active]],
    issued <- {[user |-> g.user, session |-> g.session, cred |-> g.cred] : g \in grants}

\* Nobody can tell that a ceremony is a dozen statements that interleave with other
\* requests, fail and are cut off by restarts: sessions, credentials and tokens
\* change as if every operation took effect at once.
ImplementsCeremonies == Promised!Spec

(* -------------------------------- liveness ------------------------------ *)

\* A ceremony nobody finishes does not stay open: once its deadline has passed by
\* the database's clock the worker, a finish or a newer begin closes the session.
OverdueIsClosed ==
    \A s \in Session :
        (session[s].status = "PENDING" /\ session[s].expires < now + DatabaseAhead)
            ~> session[s].status # "PENDING"

(* -------------- what the documents say and the code does not ------------- *)

\* specification.md:98 - the counter of a login must be strictly greater than
\* the stored one, otherwise the login is aborted.
CounterStrictlyGrows ==
    \A r \in Request : req[r].pc = "UpdateSignCount" => req[r].count > req[r].seen

\* specification.md:68-70 - one transaction inserts the credential and deletes
\* the challenge, so with no request under way no registered credential has its
\* ceremony still open.
RegistrationIsTransaction ==
    (\A r \in Request : req[r].pc = "idle")
    => \A c \in Credential :
         cred[c].origin # None => session[cred[c].origin].status # "PENDING"

\* database.md:101-108 - the login's UPDATE stores the address the client came
\* from beside its user agent.
AuditRecordsAddress ==
    \A c \in Credential : cred[c].agent # None => cred[c].ip = cred[c].agent
=============================================================================
