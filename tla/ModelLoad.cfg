SPECIFICATION Spec
CONSTANTS
    h1 = h1
    h2 = h2
    h3 = h3
    r1 = r1
    r2 = r2
    Handlers = {h1, h2, h3}
    Replicas = {r1, r2}
    ReplicaOf <- MCReplicaOf
    Instances = {i1, i2}
    None = None
    Faults <- MCFaults
    MaxFaults = 1
SYMMETRY MCSymmetry
INVARIANTS
    TypeOK
    NeverUndercounts
    OvercountBounded
PROPERTIES
    LeastLoadedUnlessUndercounted
    ChoosesByTrueLoad
