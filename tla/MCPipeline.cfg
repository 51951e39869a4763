SPECIFICATION PipelineSpec
CONSTANTS
    Appenders = 2
    MaxConns = 2
    ChanCap = 1
    SendCap = 1
    MaxEvents = 2
    Monitors = {m1, m2}
    MaxQueueTime = 2
    MaxQueue = 4
    MaxSteps = 6
    MaxTime = 4
    MaxLevel = 2
    MaxBoots = 3
    MaxBudget = 4
INVARIANTS
    NoDuplicates
    NothingMissed
    NothingStuck
    CondensesToLastPair
    ProtectedIsNeverTouched
    CleanUpsHelp
    RebootAnnouncedOnce
    CulpritIsNamed
PROPERTIES
    EpisodeEndsOnEvidence
CHECK_DEADLOCK FALSE
