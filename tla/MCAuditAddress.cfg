SPECIFICATION EnrolledSpec
CONSTANTS
    User = {u1}
    Email = {e1}
    Credential = {c1}
    Session = {s1}
    Client = {a1}
    Request = {r1, r2}
    None = None
    MaxCount = 1
    MaxTime = 1
    Timeout = 1
    TokenTTL = 1
    DatabaseAhead = 0
    MaxFaults = 0
CHECK_DEADLOCK FALSE
INVARIANT AuditRecordsAddress
