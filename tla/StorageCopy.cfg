CONSTANTS
    p1 = p1
    p2 = p2
    q = q
    here = here
    elsewhere = elsewhere
    k = k
    l = l
    Processes = {p1, p2}
    Identities = {here}
    Identity <- IdentityOfTwo
    Keys = {k}
    NoOne = NoOne
    Nobody = Nobody
    Operations <- StartAndWrite
    InitialFiles <- Fresh
    FaultKinds = {"crash"}
    MaxFaults = 1
SPECIFICATION Spec
INVARIANTS
    KnownGoodCopy
