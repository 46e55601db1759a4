SPECIFICATION AgentSpec
CONSTANTS
    Tokens = {t1}
    EndpointIds = {e1}
    CredentialIds = {c1, c2}
    Workers = {w1, w2}
    Admins = {}
    UseLimits = {1}
    None = None
    MaxMishaps = 1
    MaxPackages = 0
INVARIANT OnlyAdministratorsTurnAway
CHECK_DEADLOCK FALSE
