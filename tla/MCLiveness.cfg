SPECIFICATION FairEnrolledSpec
CONSTANTS
    User = {u1}
    Email = {e1}
    Credential = {c1}
    Session = {s1, s2}
    Client = {a1}
    Request = {r1, r2}
    None = None
    MaxCount = 0
    MaxTime = 1
    Timeout = 0
    TokenTTL = 0
    DatabaseAhead = 0
    MaxFaults = 1
CHECK_DEADLOCK FALSE
PROPERTIES OverdueIsClosed
