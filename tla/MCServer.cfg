\* Two requests and the worker for one connection, a bucket of one, and a restart
\* with the same secret or another.  Half-second ticks: a token issued before the
\* first second ends is still shown when no token that old may be good.
SPECIFICATION FairSpec
CONSTANTS
    None = None
    Secret = {k1, k2}
    Second = 2
    TokenTTL = 2
    Period = 2
    Request = {r1, r2}
    Worker = Worker
    MaxConns = 1
    MaxStatements = 2
    Burst = 1
    MaxTime = 5
    MaxStarts = 2
INVARIANTS
    TypeOK
    Accounts
    PoolOutlivesRequests
    CeremoniesAreLimited
    TokenLife
PROPERTIES
    RequestsEnd
    SignalStops
CHECK_DEADLOCK FALSE
