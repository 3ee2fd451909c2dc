SPECIFICATION Spec
CONSTANTS
    a = a
    b = b
    c = c
    fresh = fresh
    None = None
    Corrupt = Corrupt
    Targets <- BothTargets
    Uninitialized = fresh
    MarkerMoves = "switch"
    RollsBack <- FirstOnly
    Reconciles <- EveryClosure
    Limits <- EveryClosure
    Reimages <- FirstOnly
    Faults = {"kill", "stage", "read", "write", "damage", "operator"}
    MaxFaults = 2
    MaxPublications = 2
INVARIANTS
    ConvergedIsWhole
    RollbackIsExact
    PinnedIsNeverActivated
    ProviderCallIsOnRecord
    IInv
PROPERTY WholeMachineReconcilesItself
