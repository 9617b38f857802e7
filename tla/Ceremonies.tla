----------------------------- MODULE Ceremonies -----------------------------
(***************************************************************************)
(* What the application service promises about ceremonies, passkeys and    *)
(* tokens, without requests, statements, clocks or failures: everything    *)
(* takes effect in one step.                                               *)
(***************************************************************************)
CONSTANTS User, Credential, Session, None

VARIABLES
    ceremony,  \* what became of each session id, and what it was opened for
    passkey,   \* owner of each credential, None for unregistered, and whether
               \* it is active
    issued     \* the tokens given out: for whom, in which ceremony, for which
               \* passkey

vars == <<ceremony, passkey, issued>>

Init ==
    /\ ceremony = [s \in Session |-> [state |-> "unused", user |-> None,
                                      type |-> "REGISTRATION", allowed |-> {}]]
    /\ passkey = [c \in Credential |-> [owner |-> None, active |-> FALSE]]
    /\ issued = {}

OwnedBy(u) == {c \in Credential : passkey[c].owner = u}

\* A ceremony begins under an id never used before, a login for some of the
\* passkeys of its user.
Open(s) ==
    /\ ceremony[s].state = "unused"
    /\ \E u \in User, type \in {"REGISTRATION", "AUTHENTICATION"},
          allowed \in SUBSET Credential :
         /\ IF type = "REGISTRATION" THEN allowed = {}
            ELSE allowed # {} /\ allowed \subseteq OwnedBy(u)
         /\ ceremony' = [ceremony EXCEPT ![s] = [state |-> "open", user |-> u,
                                                 type |-> type, allowed |-> allowed]]
    /\ UNCHANGED <<passkey, issued>>

\* Open ceremonies end: one that is finished or replaced, or all that are overdue.
Close ==
    /\ \E closing \in SUBSET {s \in Session : ceremony[s].state = "open"} :
         ceremony' = [s \in Session |-> IF s \in closing
                                        THEN [ceremony[s] EXCEPT !.state = "closed"]
                                        ELSE ceremony[s]]
    /\ UNCHANGED <<passkey, issued>>

\* A ceremony of this life of the server: finishing it may still take effect.
Counts(s, type) == ceremony[s].type = type /\ ceremony[s].state \in {"open", "closed"}

\* A passkey is registered once, to the user of a registration ceremony.
Enrol(c) ==
    /\ passkey[c].owner = None
    /\ \E s \in Session :
         /\ Counts(s, "REGISTRATION")
         /\ passkey' = [passkey EXCEPT ![c] = [owner |-> ceremony[s].user,
                                               active |-> TRUE]]
    /\ UNCHANGED <<ceremony, issued>>

\* A token is for the user of a login ceremony that is over, and for a passkey of
\* the user's that the ceremony was opened for.
Issue(s, c) ==
    /\ Counts(s, "AUTHENTICATION") /\ ceremony[s].state = "closed"
    /\ c \in ceremony[s].allowed \cap OwnedBy(ceremony[s].user)
    /\ issued' = issued \cup {[user |-> ceremony[s].user, session |-> s, cred |-> c]}
    /\ UNCHANGED <<ceremony, passkey>>

\* Revoked for good, by a user with a token.
Revoke(c) ==
    /\ \E t \in issued : t.user = passkey[c].owner
    /\ passkey' = [passkey EXCEPT ![c].active = FALSE]
    /\ UNCHANGED <<ceremony, issued>>

\* A restart forgets ceremonies and nothing else.
Forget ==
    /\ ceremony' = [s \in Session |-> IF ceremony[s].state = "unused" THEN ceremony[s]
                                      ELSE [ceremony[s] EXCEPT !.state = "gone"]]
    /\ UNCHANGED <<passkey, issued>>

Next ==
    \/ \E s \in Session : Open(s) \/ \E c \in Credential : Issue(s, c)
    \/ \E c \in Credential : Enrol(c) \/ Revoke(c)
    \/ Close
    \/ Forget

Spec == Init /\ [][Next]_vars
=============================================================================
