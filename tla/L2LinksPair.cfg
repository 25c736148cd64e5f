CONSTANTS
    d1 = d1
    d2 = d2
    i1 = i1
    i2 = i2
    DevId = {d1, d2}
    IfName = {i1}
    Cables <- PairCables
    Status = {"ok", "paused", "error"}
    IfState = {"absent", "shut", "down", "up"}
    MaxSeen = 2
    NoDev = NoDev
    NoLink = NoLink
SPECIFICATION Spec
INVARIANTS TypeOK LinkIntegrity NoDanglingId StatusExact NoPhantomUp
