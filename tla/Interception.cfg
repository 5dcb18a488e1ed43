SPECIFICATION FairSpec
CONSTANTS
    Requests = {r1}
    Children = {k1, k2}
    Page = page
    RingSize = 1
INVARIANTS
    NothingUnjudged
    FramesGuarded
    RenderSound
PROPERTIES
    ClosedBeforeDetach
    PausedResolved
CHECK_DEADLOCK FALSE
