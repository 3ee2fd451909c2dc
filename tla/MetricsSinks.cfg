SPECIFICATION Spec
CONSTANTS
    Processes = {p1}
    Deltas = {0, 5}
    Ceilings = {None, 4}
    None = None
    Faults = {"load", "persist", "clear", "textfile", "push", "kill"}
    MaxFaults = 3
    MaxReports = 4
INVARIANTS OneOutcomeStands RefusalIsExplained LastWordsAreTheRefusal NoSinkHidesTheOther
CHECK_DEADLOCK FALSE
