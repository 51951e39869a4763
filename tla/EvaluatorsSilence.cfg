SPECIFICATION Spec
CONSTANTS
    MaxTime = 4
    MaxLevel = 2
    MaxBoots = 3
PROPERTIES
    SilenceNeverHeals
CHECK_DEADLOCK FALSE
