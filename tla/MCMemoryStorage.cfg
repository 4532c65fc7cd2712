CONSTANTS
    p1 = p1
    p2 = p2
    q = q
    here = here
    elsewhere = elsewhere
    k = k
    l = l
    Processes = {p1, p2, q}
    Identities = {here, elsewhere}
    Identity <- IdentityOf
    Keys = {k, l}
    NoOne = NoOne
    Nobody = Nobody
    Operations <- MixedOperations
    InitialFiles <- FreshOrLegacy
    FaultKinds = {"crash", "io", "damage"}
    MaxFaults = 1
SYMMETRY KeySymmetry
SPECIFICATION Spec
INVARIANTS
    TypeOK
    Isolation
    NoLostUpdate
    LockInv
PROPERTIES
    Durable
