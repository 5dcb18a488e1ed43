SPECIFICATION FairSpec
CONSTANTS
    Pages = {p1, p2, p3, p4}
    Seed = p1
    MaxPages = 4
    MaxDepth = 2
    MaxUrls = 3
INVARIANTS
    Bookkeeping
    WithinLimits
    ReportHonest
PROPERTIES
    VerdictKept
    JobEnds
CHECK_DEADLOCK FALSE
