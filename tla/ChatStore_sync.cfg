SPECIFICATION Spec
CONSTANTS
    Workers = {w1, w2}
    Session = s1
    Sessions = {s1}
    Messages = {m1, m2}
    SessionOf <- MCSessionOf
    UseMQ = FALSE
    Faults = {"redis", "db", "crash"}
    MaxBackfill = 1
    None = None
SYMMETRY MCSymmetry
INVARIANTS
    TypeOK
    AckedDurable
    
PROPERTIES
    RecentItemsListed
