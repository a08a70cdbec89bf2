SPECIFICATION Spec
CONSTANTS
    Requests = {r1}
    PoolSize = 1
    Chunks = 1
    HalfCloses = FALSE
    Faults = {}
    None = None
PROPERTIES
    HandlersEnd
CHECK_DEADLOCK FALSE
