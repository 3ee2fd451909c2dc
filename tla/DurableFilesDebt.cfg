SPECIFICATION Spec
CONSTANTS
    Docs = {d1, d2}
    Pids = {p1}
    Jobs = {"debt"}
    p1 = p1
    p2 = p2
    d1 = d1
    None = None
    Linked = Linked
    MaxGenerations = 1
    MaxFaults = 1
    Journaled = TRUE
INVARIANT DebtIsDurable
CHECK_DEADLOCK FALSE
