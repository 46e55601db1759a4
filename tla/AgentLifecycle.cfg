SPECIFICATION AgentSpec
CONSTANTS
    Tokens = {t1}
    EndpointIds = {e1, e2}
    CredentialIds = {c1, c2}
    Workers = {w1, w2}
    Admins = {a1}
    UseLimits = {0, 1}
    None = None
    MaxMishaps = 1
    MaxPackages = 1
SYMMETRY Symmetry
INVARIANTS
    TurnedAwayStaysOut
    EveryWorkingCredentialIsHeld
    EnrollmentsWithinLimit
    OneLiveCredential
PROPERTY NoEnrollmentAfterRevocation
CHECK_DEADLOCK FALSE
