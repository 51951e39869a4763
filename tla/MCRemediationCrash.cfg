SPECIFICATION Spec
CONSTANTS
    p1 = p1
    p2 = p2
    i1 = i1
    w1 = w1
    w2 = w2
    t1 = t1
    t2 = t2
    NoUndo = NoUndo
    None = None
    Workers = {w1}
    Primaries = {p1}
    Incidents = {i1}
    Tokens = {t1, t2}
    IncidentOf <- MCIncidentOf
    Kinds <- MCKinds
    UndoOf <- MCUndoOf
    ForcesL3 <- MCForcesL3
    Runbooks <- CrashRunbooks
    MaxCrashes = 2
    MaxErrors = 1
SYMMETRY Symmetry
INVARIANTS
    TypeOK
    ExecuteInv
    LedgerTracksHost
PROPERTIES
    ImplementsLifecycle
CHECK_DEADLOCK FALSE
