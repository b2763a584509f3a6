CONSTANTS
    d1 = d1
    d2 = d2
    r1 = r1
    r2 = r2
    Docs = {d1, d2}
    Untemplated = {d2}
    Requests = {r1, r2}
    MaxEdits = 1
    MaxRuns = 3
    MaxFaults = 1
    None = None
SPECIFICATION Spec
INVARIANTS
    TypeOK
    
    SetupIsWhole
PROPERTIES
    DownloadEnds
CHECK_DEADLOCK FALSE
