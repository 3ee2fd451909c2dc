SPECIFICATION FairSpec
CONSTANTS
    Paths <- AllPaths
    Target = 1
    NoPath = 0
    References <- AllGraphs
    Sizes <- SomeSizes
    MaxBytes = 7
    Ceilings = {2, 6}
    NoCeiling = NoCeiling
    MaxSubstituters = 1
INVARIANTS IInv WalkIsExact VerdictIsRight
CHECK_DEADLOCK FALSE
PROPERTY VerdictReached
