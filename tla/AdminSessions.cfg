CONSTANTS
    Users = {u1, u2}
    Tokens = {t1, t2, t3}
    Threads = {h1, h2}
    MaxInvalidations = 1
    None = None
SPECIFICATION Spec
SYMMETRY Symmetry
INVARIANTS
    SessionsEnd
    OneTokenPerFamily
    OneSuperAdmin
CHECK_DEADLOCK FALSE
