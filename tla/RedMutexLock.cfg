CONSTANTS
    c1 = c1
    c2 = c2
    c3 = c3
    Client = {c1, c2, c3}
    Lease = 2
    Timeout = 4
    None = None
SPECIFICATION FairSpec
INVARIANTS TypeOK MutualExclusion
PROPERTIES LockReturns LeftoverGoes
