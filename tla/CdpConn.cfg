SPECIFICATION FairSpec
CONSTANTS
    Calls = {c1, c2}
    Closer = closer
INVARIANTS
    WaitersSound
    OthersTold
PROPERTIES
    ImplementsCalls
    CallsEnd
CHECK_DEADLOCK FALSE
