SPECIFICATION FairSpec
CONSTANTS
    h1 = h1
    h2 = h2
    pl = pl
    a = a
    b = b
    Hosts = {h1, h2}
    Planes = {pl}
    Artifacts = {a, b}
    Absent = Absent
    NoSet = NoSet
    Times = {t1, t2}
    Publishers = {p1}
    Receivers = {r1, r2}
    Jobs <- WholeJobs
    Missing = Missing
    MaxRenders = 3
    MaxStops = 2
INVARIANT AcceptedWasComplete
PROPERTY WindowCloses
CHECK_DEADLOCK FALSE
