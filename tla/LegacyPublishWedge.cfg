SPECIFICATION PartialUnitSpec
CONSTANTS
    h1 = h1
    h2 = h2
    pl = pl
    a = a
    b = b
    Hosts = {h1, h2}
    Planes = {pl}
    Artifacts = {a, b}
    Absent = Absent
    NoSet = NoSet
    Times = {t1, t2}
    Publishers = {p1}
    Receivers = {r1}
    Jobs <- PartialJobs
    Missing = Missing
    MaxRenders = 3
    MaxStops = 1
PROPERTY WindowCloses
CHECK_DEADLOCK FALSE
