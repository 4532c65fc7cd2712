CONSTANTS
    Actors <- AllRoles
    InitialStates <- DefaultState
    MaxRepair = 2
    MaxRequests = 4
SPECIFICATION Spec
PROPERTIES
    ReleaseIsApproved
CHECK_DEADLOCK FALSE
