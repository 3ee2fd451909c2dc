SPECIFICATION Spec
CONSTANTS
    h1 = h1
    h2 = h2
    plane = plane
    plane2 = plane2
    a = a
    b = b
    t1 = t1
    t2 = t2
    Hosts <- MCHosts
    Planes <- MCPlanes
    Artifacts = {a, b}
    Absent = Absent
    NoSet = NoSet
    Times = {t1, t2}
    Promoters = {p1, p2}
    Requests <- MCRequests
    RecoverOnly = RecoverOnly
    Free = Free
    Missing = Missing
    Garbage = Garbage
    NoBytes = NoBytes
    NoOutcome = NoOutcome
    MaxGenerations = 3
SYMMETRY MCSymmetry
INVARIANTS
    IInv
    JournalIsChain
    JournalIsBacked
    ChannelIsJournaled
    EveryGenerationMoves
    SuccessIsJournaled
PROPERTIES
    NoLostUpdate
    ChannelGetsNewest
