SPECIFICATION EnrolledSpec
CONSTANTS
    User = {u1}
    Email = {e1}
    Credential = {c1}
    Session = {s1, s2}
    Client = {a1, a2}
    Request = {r1, r2}
    None = None
    MaxCount = 1
    MaxTime = 2
    Timeout = 1
    TokenTTL = 1
    DatabaseAhead = 1
    MaxFaults = 1
SYMMETRY Symmetry
CHECK_DEADLOCK FALSE
INVARIANTS OnePending AuditMatchesSession GrantClosesSession RevokedIsRefused
PROPERTIES LiveSessionIsKept CounterFallsOnlyWhenStale
