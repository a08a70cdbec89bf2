SPECIFICATION Spec
CONSTANTS
    Workers = {w1}
    Session = s1
    Sessions = {s1}
    Messages = {m1, m2}
    SessionOf <- MCSessionOf
    UseMQ = TRUE
    Faults = {"redis", "db", "mq", "expiry", "crash"}
    MaxBackfill = 1
    None = None
SYMMETRY MCSymmetry
PROPERTIES
    RecentItemsListed
