SPECIFICATION Spec
CONSTANTS
    Requests = {r1, r2}
    PoolSize = 1
    Chunks = 1
    HalfCloses = TRUE
    Faults <- MCFaults
    None = None
INVARIANTS
    TypeOK
    SavedIsWhole
    PumpLeakedOnlyBySend
PROPERTIES
    HandlersEnd
    WorkersComeBack
CHECK_DEADLOCK FALSE
