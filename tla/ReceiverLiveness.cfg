SPECIFICATION FairSpec
CONSTANTS
    a = a
    b = b
    c = c
    fresh = fresh
    None = None
    Corrupt = Corrupt
    Targets <- BothTargets
    Uninitialized = fresh
    MarkerMoves = "end"
    RollsBack <- FirstOnly
    Reconciles <- FirstOnly
    Limits <- EveryClosure
    Reimages <- EveryClosure
    Faults = {"kill", "stage", "write", "operator"}
    MaxFaults = 2
    MaxPublications = 1
PROPERTIES
    DebtRemainsVisible
    Settles
