\* One user; a coroutine that was cancelled beside a new one.  Liveness, so no symmetry.
SPECIFICATION FairSpec
CONSTANTS
    User = {u1}
    Task = {t1, t2}
    None = None
PROPERTIES
    LoadingEnds
