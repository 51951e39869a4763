SPECIFICATION RetrySpec
CONSTANTS
    p1 = p1
    p2 = p2
    i1 = i1
    w1 = w1
    w2 = w2
    t1 = t1
    t2 = t2
    NoUndo = NoUndo
    None = None
    Workers = {w1}
    Primaries = {p1}
    Incidents = {i1}
    Tokens = {t1}
    IncidentOf <- MCIncidentOf
    Kinds <- MCKinds
    UndoOf <- MCUndoOf
    ForcesL3 <- MCForcesL3
    Runbooks <- UndoRunbooks
    MaxCrashes = 1
    MaxErrors = 0
PROPERTIES
    RetryStartsApproved
CHECK_DEADLOCK FALSE
