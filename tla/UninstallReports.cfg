CONSTANTS
    AlertIds = {r1, r2}
    Handlers = {h1, h2}
    None = None
    Attempts = {a1, a2, a3}
    MaxMishaps = 1
SPECIFICATION Spec
SYMMETRY Symmetry
INVARIANTS
    
    AuditedAttemptsAlert
    OneOpenAlert
CHECK_DEADLOCK FALSE
