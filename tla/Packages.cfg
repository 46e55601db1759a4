CONSTANTS
    Packages = {p1, p2}
    Signing = TRUE
    MaxEdits = 1
    MaxMishaps = 1
SPECIFICATION Spec
INVARIANTS
    GoodBuildIsSigned
    ReadyPackagesAreSigned
    
    TokensDieWithTheirPackage
    LiveFilesAreListed

    
CHECK_DEADLOCK FALSE
