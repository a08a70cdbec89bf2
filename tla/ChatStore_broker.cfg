SPECIFICATION Spec
CONSTANTS
    Workers = {w1}
    Session = s1
    Sessions = {s1}
    Messages = {m1, m2}
    SessionOf <- MCSessionOf
    UseMQ = TRUE
    Faults = {}
    MaxBackfill = 1
    None = None
SYMMETRY MCSymmetry
INVARIANTS
    AckedDurable
