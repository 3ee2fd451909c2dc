SPECIFICATION Spec
CONSTANTS
    a = a
    b = b
    c = c
    fresh = fresh
    None = None
    Corrupt = Corrupt
    Targets <- BothTargets
    Uninitialized = fresh
    MarkerMoves = "register"
    RollsBack <- EveryClosure
    Reconciles <- EveryClosure
    Limits = {}
    Reimages = {}
    Faults = {"kill"}
    MaxFaults = 1
    MaxPublications = 0
INVARIANTS
    ReconciledByItsOwn
