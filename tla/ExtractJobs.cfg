SPECIFICATION FairSpec
CONSTANTS
    N = 3
    MaxCost = 2
INVARIANTS
    RecordSound
    CreditsExact
PROPERTIES
    ImplementsLifecycle
    JobSettles
CHECK_DEADLOCK FALSE
