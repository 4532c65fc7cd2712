CONSTANTS
    Actors <- Roles
    InitialStates <- Proposal
    MaxRepair = 1
    MaxRequests = 2
    c1 = c1
    c2 = c2
    Commits = {c1, c2}
    Defined <- EveryTool
    Custom <- ProjectsOwn
    DefaultScanner = "gitleaks"
SYMMETRY CommitSymmetry
SPECIFICATION PipelineSpec
INVARIANTS
    PipelineTypeOK
    ReleasePathIsScanned
    AuditedIsReleased
    ResultsAreRoutable
PROPERTIES
    GatesAreAnswered
    NoFreeWayBack
    RunsAreAudits
\* PRODUCTION, ABORTED and ESCALATED are terminal: the workflow really stops.
CHECK_DEADLOCK FALSE
