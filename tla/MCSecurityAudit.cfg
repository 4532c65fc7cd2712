CONSTANTS
    Defined <- AllButOne
    Custom <- ProjectsOwn
    DefaultScanner = "gitleaks"
    InitialHosts <- FullHost
    InitialFlaws <- AtMostOne
    MaxChanges = 2
SPECIFICATION Spec
INVARIANTS
    AuditTypeOK
    PassIsTrue
    RunsGoOn
PROPERTIES
    AuditImplements
    EveryStepCounts
    AuditEnds
