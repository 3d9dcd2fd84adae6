\* Two connections that may share a user, a slow and a fast limit.
SPECIFICATION FairRateSpec
CONSTANTS
    Users = {u1}
    Conns = {c1, c2}
    Node = Node
    Rates <- SomeRates
    Chunks = {1}
    MinBurst = 1
    MaxBurst = 2
    Nil = Nil
    MaxReloads = 3
INVARIANTS
    RateTypeOK
    
PROPERTY ChunkGetsThrough
