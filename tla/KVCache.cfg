SPECIFICATION UserSpec
CONSTANTS
    Blocks = {b1, b2, b3}
    Requests = {"r1", "r2", "r3"}
    Prompts = {"p1", "p2"}
    MaxPrefixes = 1
    MaxAsk = 3
    Policies = {"lru", "sliding_window"}
    None = None
SYMMETRY BlockSymmetry
INVARIANTS
    TypeOK
    PoolPartitioned
    HandedMatchesPool
    HoldersEvictable
    
