SPECIFICATION ServicesSpec
CONSTANTS
    Targets = {t1}
    Wildcard = wildcard
    FailureThreshold = 2
    RecoveryThreshold = 2
    Cooldown = 1
    MaxFail = 2
    MaxFaults = 1
    MaxAgents = 2
    MaxSeq = 2
    MaxRelayFaults = 2
    Incidents = {i1, i2}
    Workers = {w1, w2}
    MaxPreparing = 1
    MaxDeclines = 1
    MaxBookFaults = 1
    Requests = {a, b, c, d}
    Cap = 2
    TTL = 2
    Projects = {p, q}
    Ids = {x, y}
    MaxEvents = 1
    MaxEntries = 3
    MaxTime = 2
    MaxRows = 2
    MaxPage = 2
    DefaultPage = 1
    MaxHappenings = 3
    MaxPolls = 3
INVARIANTS
    PageNeedsStreak
    EpisodeWasPaged
    NeverReusesSeq
    RestartResumes
    OnePlaybookPerIncident
    NotDispatchedTwice
    NoOrphans
    PagesAreComplete
    VerifiedIsSteady
    OnlyTheMeantIsSignalled
PROPERTIES
    EpisodesAreClosed
    SustainedFailureFires
    PreparationEnds
    StoreOpens
    HistoryIsKept
    AccessIsKept
CHECK_DEADLOCK FALSE
