SPECIFICATION Spec
CONSTANTS
    MaxEvents = 3
    MaxPolls = 3
INVARIANTS
    RestartedContainerStays
CHECK_DEADLOCK FALSE
