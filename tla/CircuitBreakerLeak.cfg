SPECIFICATION Spec
CONSTANTS
    Callers = {c1, c2, c3}
    Hosts = {h1}
    Arcs = {a1}
    Global = global
    WindowSize = 1
    MinCalls = 1
    FailPct = 50
    BaseCooldown = 1
    MaxCooldown = 1
    MaxProbes = 1
    SuccessPct = 60
    EvalTimeout = 1
    ResetAfter = 1
    MaxEjections = 1
    CountTruncated = FALSE
    RecoveryArm = FALSE
VIEW View
SYMMETRY Symmetry
PROPERTIES
    LeakLeavesGlobal
