SPECIFICATION Spec
CONSTANTS
    MaxSteps = 6
INVARIANTS
    JournalIsOffered
