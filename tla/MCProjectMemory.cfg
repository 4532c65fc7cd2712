CONSTANTS
    p1 = p1
    p2 = p2
    Processes = {p1, p2}
    Classifications <- TwoClassifications
    MaxFaults = 1
    Actors <- Authors
    Keys <- TwoKeys
    Evidence = {"none", "list"}
    Ticks = {1}
    MaxClock = 5
SYMMETRY ProcessSymmetry
SPECIFICATION Spec
INVARIANTS
    TypeOK
    IdsAreUnique
    VersionChain
    ViewsAreOfThePast
    PromptIsBacked
PROPERTIES
    FactsAreKept
\* The model stops when the clock has reached its bound.
CHECK_DEADLOCK FALSE
