SPECIFICATION Spec
CONSTANTS
    User = {u1, u2}
    Email = {e1, e2}
    Credential = {c1, c2}
    Session = {s1, s2}
    Client = {a1}
    Request = {r1, r2}
    None = None
    MaxCount = 0
    MaxTime = 2
    Timeout = 1
    TokenTTL = 1
    DatabaseAhead = 1
    MaxFaults = 1
SYMMETRY Symmetry
CHECK_DEADLOCK FALSE
INVARIANTS TypeOK OnePending GrantsAreOwned RegistrationLeavesCredential ExpiredIsRefused
PROPERTIES ImplementsCeremonies OnlyRacersRelabel LiveSessionIsKept CredentialRowIsStable
