SPECIFICATION Spec
CONSTANTS
    Callers = {c1, c2}
    Hosts = {h1}
    Arcs = {a1}
    Global = global
    WindowSize = 2
    MinCalls = 2
    FailPct = 50
    BaseCooldown = 1
    MaxCooldown = 1
    MaxProbes = 2
    SuccessPct = 60
    EvalTimeout = 1
    ResetAfter = 0
    MaxEjections = 1
    CountTruncated = FALSE
    RecoveryArm = FALSE
VIEW View
SYMMETRY Symmetry
INVARIANTS
    RecoverySound
    SlotAccounted
PROPERTIES
    GlobalSlotsGuarded
    ExcessExplained
    CooldownKept
    CloseNeedsEvidence
