CONSTANTS
    Actors <- Roles
    InitialStates <- Proposal
    MaxRepair = 1
    MaxRequests = 2
    c1 = c1
    c2 = c2
    Commits = {c1, c2}
    Defined <- EveryTool
    Custom <- ProjectsOwn
    DefaultScanner = "gitleaks"
SYMMETRY CommitSymmetry
SPECIFICATION PipelineSpec
PROPERTIES
    EachReleaseHasItsAnswer
CHECK_DEADLOCK FALSE
