\* Two users of one phone; a coroutine that was cancelled beside a new one.
SPECIFICATION Spec
CONSTANTS
    User = {u1, u2}
    Task = {t1, t2}
    None = None
SYMMETRY Symmetry
INVARIANTS
    TypeOK
    TokenMatchesUser
    HomeShowsSession
    OneCeremony
PROPERTIES
    HomeIsEarned
