SPECIFICATION FairSpec
CONSTANTS
    m1 = m1
    m2 = m2
    Torn = Torn
    Monitors = {m1, m2}
    MaxEvents = 3
    MaxCrashes = 1
    MaxFaults = 1
INVARIANTS
    LossNeedsOverlapOrTornFile
    OneIdPerEvent
    RecoveryHasItsFiring
PROPERTIES
    EventsReachRelay
