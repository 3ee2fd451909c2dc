SPECIFICATION SpecBoth
CONSTANTS
    a = a
    b = b
    fresh = fresh
    None = None
    Corrupt = Corrupt
    Targets <- BothTargets
    Uninitialized = fresh
    MarkerMoves = "end"
    RollsBack <- EveryClosure
    Reconciles <- EveryClosure
    Limits = {}
    Reimages = {}
    Faults = {}
    MaxFaults = 0
    MaxPublications = 0
PROPERTY WholeMachineReconcilesItself
