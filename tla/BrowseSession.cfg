SPECIFICATION FairSpec
CONSTANTS
    Calls = {c1, c2, c3}
    Targets = {t1, t2}
    None = none
    MaxDocs = 2
INVARIANTS
    ServerSound
    GuardFirst
    RefsFollow

    
CHECK_DEADLOCK FALSE
