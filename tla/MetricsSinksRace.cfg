SPECIFICATION Spec
CONSTANTS
    Processes = {p1, p2}
    Deltas = {0, 5}
    Ceilings = {4}
    None = None
    Faults = {}
    MaxFaults = 0
    MaxReports = 3
PROPERTY RecordedDebtStaysVisible
CHECK_DEADLOCK FALSE
