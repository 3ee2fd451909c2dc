SPECIFICATION Spec
CONSTANTS
    a = a
    b = b
    c = c
    fresh = fresh
    None = None
    Corrupt = Corrupt
    Targets <- BothTargets
    Uninitialized = fresh
    MarkerMoves = "switch"
    RollsBack <- EveryClosure
    Reconciles = {}
    Limits = {}
    Reimages = {}
    Faults = {}
    MaxFaults = 0
    MaxPublications = 2
INVARIANT
    HealthyPathClearsPin
