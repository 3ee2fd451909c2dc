SPECIFICATION Spec
CONSTANTS
    Docs = {d1, d2}
    Pids = {p1}
    Jobs = {"promote"}
    p1 = p1
    p2 = p2
    d1 = d1
    None = None
    Linked = Linked
    MaxGenerations = 2
    MaxFaults = 2
    Journaled = TRUE
INVARIANT UnchangedSurvives
CHECK_DEADLOCK FALSE
