\* Two hosts, two ports each, and two requests at a time; a bucket is filled by two
\* ticks, and an entry idle for longer than three is forgotten.  Liveness, so no
\* symmetry.
SPECIFICATION FairSpec
CONSTANTS
    Host = {h1, h2}
    Port = {p1, p2}
    Request = {r1, r2}
    Limiter = {l1, l2}
    None = None
    Burst = 1
    Period = 2
    IdleLimit = 3
    MaxStall = 1
    MaxTime = 6
INVARIANTS
    TypeOK
    HeldIsCurrent
    WindowBound
PROPERTIES
    ImplementsBuckets
    IdleIsEvicted
CHECK_DEADLOCK FALSE
