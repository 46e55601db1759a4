CONSTANTS
    AlertIds = {r1, r2}
    Handlers = {h1, h2}
    None = None
    Attempts = {a1, a2}
    MaxMishaps = 0
SPECIFICATION Spec
PROPERTY NewAttemptIsRaised
CHECK_DEADLOCK FALSE
