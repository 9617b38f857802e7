\* One user, one coroutine.
SPECIFICATION Spec
CONSTANTS
    User = {u1}
    Task = {t1}
    None = None
INVARIANTS
    RevokedMustRegister
