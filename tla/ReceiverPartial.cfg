SPECIFICATION Spec
CONSTANTS
    a = a
    b = b
    c = c
    fresh = fresh
    None = None
    Corrupt = Corrupt
    Targets <- BothTargets
    Uninitialized = fresh
    MarkerMoves = "switch"
    RollsBack <- EveryClosure
    Reconciles = {}
    Limits = {}
    Reimages = {}
    Faults = {"kill"}
    MaxFaults = 1
    MaxPublications = 0
INVARIANTS
    CurrentIsWhole
