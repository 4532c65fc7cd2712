CONSTANTS
    p1 = p1
    p2 = p2
    Processes = {p1}
    Classifications <- TwoClassifications
    MaxFaults = 0
    Actors <- Authors
    Keys <- DecisionOnly
    Evidence = {"list"}
    Ticks = {1}
    MaxClock = 6
SPECIFICATION Spec
INVARIANTS
    HistoryNewestFirst
\* The model stops when the clock has reached its bound.
CHECK_DEADLOCK FALSE
