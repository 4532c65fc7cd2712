CONSTANTS
    Actors <- ThreeActors
    InitialStates <- MiddleStates
    MaxRepair = 1
    MaxRequests = 3
    MaxLog = 5
SPECIFICATION LoggedSpec
INVARIANTS
    EscalationHappens
CHECK_DEADLOCK FALSE
