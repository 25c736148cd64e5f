CONSTANTS
    d1 = d1
    d2 = d2
    i1 = i1
    i2 = i2
    DevId = {d1, d2}
    IfName = {i1, i2}
    Cables <- MovedCables
    Status = {"ok", "error"}
    IfState = {"absent", "up"}
    MaxSeen = 1
    NoDev = NoDev
    NoLink = NoLink
SPECIFICATION Spec
INVARIANTS LinkIntegrity NoDanglingId NoPhantomUp
