SPECIFICATION FairSpecOnceByHand
CONSTANTS
    a = a
    b = b
    fresh = fresh
    None = None
    Corrupt = Corrupt
    Targets <- BothTargets
    Uninitialized = fresh
    MarkerMoves = "end"
    RollsBack <- EveryClosure
    Reconciles = {}
    Limits <- EveryClosure
    Reimages <- EveryClosure
    Faults = {"kill", "operator", "damage"}
    MaxFaults = 1
    MaxPublications = 0
PROPERTY BothSettle
