SPECIFICATION Spec
CONSTANTS
    m1 = m1
    m2 = m2
    Torn = Torn
    Monitors = {m1}
    MaxEvents = 3
    MaxCrashes = 0
    MaxFaults = 0
SYMMETRY Symmetry
INVARIANTS
    NothingIsLost
