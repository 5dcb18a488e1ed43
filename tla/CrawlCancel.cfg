SPECIFICATION FairSpec
CONSTANTS
    Pages = {p1, p2}
    Seed = p1
    MaxPages = 2
    MaxDepth = 1
    MaxUrls = 1
PROPERTIES
    CancelledEvicted
CHECK_DEADLOCK FALSE
