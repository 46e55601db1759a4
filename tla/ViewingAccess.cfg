CONSTANTS
    Endpoints = {e1, e2}
    Groups = {g1}
    Sessions = {s1}
    Threads = {h1, h2}
    MaxRestarts = 1
    None = None
SPECIFICATION Spec
SYMMETRY Symmetry
INVARIANTS
    DeletedGroupGrantsNothing
    ShowsWhatWasAudited
PROPERTIES
    SessionsKeepPromise
CHECK_DEADLOCK FALSE
