SPECIFICATION Spec
CONSTANTS
    a = a
    b = b
    c = c
    fresh = fresh
    None = None
    Corrupt = Corrupt
    Targets <- BothTargets
    Uninitialized = fresh
    MarkerMoves = "switch"
    RollsBack <- EveryClosure
    Reconciles = {}
    Limits <- EveryClosure
    Reimages = {}
    Faults = {"damage"}
    MaxFaults = 1
    MaxPublications = 0
PROPERTIES
    DebtRemainsVisible
