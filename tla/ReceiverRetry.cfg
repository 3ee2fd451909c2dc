SPECIFICATION Spec
CONSTANTS
    a = a
    b = b
    c = c
    fresh = fresh
    None = None
    Corrupt = Corrupt
    Targets <- ThreeTargets
    Uninitialized = fresh
    MarkerMoves = "switch"
    RollsBack <- EveryClosure
    Reconciles = {}
    Limits = {}
    Reimages = {}
    Faults = {}
    MaxFaults = 0
    MaxPublications = 2
PROPERTIES
    NeverRetriesRejected
