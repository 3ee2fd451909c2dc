SPECIFICATION Spec
CONSTANTS
    Processes = {p1}
    Deltas = {0, 5}
    Ceilings = {4}
    None = None
    Faults = {}
    MaxFaults = 0
    MaxReports = 3
INVARIANT AbsentUnlessMeasured
CHECK_DEADLOCK FALSE
