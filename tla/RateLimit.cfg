SPECIFICATION Spec
CONSTANTS
    Requests = {q1, q2, q3}
    Qps = 1
    Token = 2
    MaxTime = 5
    MaxFailures = 1
    None = None
SYMMETRY RequestSymmetry
INVARIANTS
    TypeOK
    RateUpToReordering
PROPERTIES
    PromiseKept
