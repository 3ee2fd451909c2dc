SPECIFICATION OneMachineSpec
CONSTANTS
    p1 = p1
    d1 = d1
    p2 = p2
    Docs = {d1, d2}
    Pids = {p1, p2}
    Jobs = {"promote", "unlocked", "debt"}
    None = None
    Linked = Linked
    MaxGenerations = 2
    MaxFaults = 1
    Journaled = TRUE
INVARIANTS NeverTorn JournalSurvives
PROPERTIES WriteOnce LeftoversAreRemoved
CHECK_DEADLOCK FALSE
