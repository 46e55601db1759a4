CONSTANTS
    Files = {f1, f2}
    Targets = {n1}
    Hosts = {x1, x2}
    Threads = {h1, h2}
    MaxMishaps = 1
    Local = Local
    None = None
SPECIFICATION Spec
SYMMETRY Symmetry
INVARIANTS
    RowsAreReadable
    
    ExportAccountsForAll
CHECK_DEADLOCK FALSE
