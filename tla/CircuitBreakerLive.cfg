SPECIFICATION FairSpec
CONSTANTS
    Callers = {c1}
    Hosts = {h1}
    Arcs = {a1, a2}
    Global = global
    WindowSize = 1
    MinCalls = 1
    FailPct = 50
    BaseCooldown = 1
    MaxCooldown = 1
    MaxProbes = 1
    SuccessPct = 60
    EvalTimeout = 1
    ResetAfter = 0
    MaxEjections = 1
    CountTruncated = FALSE
    RecoveryArm = TRUE
PROPERTIES
    HalfOpenResolves
