----------------------------- MODULE MCWebAuthn -----------------------------
(***************************************************************************)
(* WebAuthnService on small instances for TLC.                             *)
(***************************************************************************)
EXTENDS WebAuthnProperties, TLC

\* Elements of these sets are only ever compared for equality.
Symmetry ==
    Permutations(User) \cup Permutations(Email) \cup Permutations(Credential)
    \cup Permutations(Session) \cup Permutations(Client) \cup Permutations(Request)

\* The database after every credential was registered and the server started
\* again: nothing is left of the registration ceremonies.
EnrolledInit ==
    /\ email \in [User -> Email]
    /\ \A u, v \in User : u # v => email[u] # email[v]
    /\ \E owner \in [Credential -> User] :
         cred = [c \in Credential |-> [NoCredential EXCEPT !.owner = owner[c],
                                                           !.active = TRUE]]
    /\ session = [s \in Session |-> NoSession]
    /\ req = [r \in Request |-> NoRequest]
    /\ grants = {}
    /\ now = 0
    /\ faults = 0
    /\ tainted = {}

EnrolledSpec == EnrolledInit /\ [][Next]_vars
FairEnrolledSpec == EnrolledInit /\ [][Next]_vars /\ Fairness
=============================================================================
