CONSTANTS
    q0 = q0
    q1 = q1
    r1 = r1
    Queue = {q0, q1}
    Reader = {r1}
    Lease = 2
    Timeout = 2
    MaxVer = 2
    Prompt = TRUE
    None = None
SPECIFICATION Spec
INVARIANTS TypeOK WholeRead
SYMMETRY QueueSymmetry
PROPERTIES ImplementsSnapshot
