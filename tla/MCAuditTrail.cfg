CONSTANTS
    Actors <- ThreeActors
    InitialStates <- MiddleStates
    MaxRepair = 1
    MaxRequests = 3
    MaxLog = 6
SPECIFICATION LoggedSpec
INVARIANTS
    LoggedTypeOK
    LogIsTheWalk
    NoStationIsSkipped
    RepairsAreLogged
    ApprovalsAreLogged
    HaltingVerdictsEscalate
    OneAnswerPerRequest
PROPERTIES
    FailuresNeverForward
\* The workflow stops in its terminal states, the model at MaxLog entries.
CHECK_DEADLOCK FALSE
