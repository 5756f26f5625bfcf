CONSTANTS
    r1 = r1
    r2 = r2
    r3 = r3
    u1 = u1
    u2 = u2
    None = None
    Reqs <- ThreeRequests
    Users <- TwoUsers
    MaxConcurrent = 2
    Routes <- BothRoutes
    MaxWrites = 1
SYMMETRY Symmetry
SPECIFICATION Spec
INVARIANTS
    TypeOK
    NeverOvercounts
    StaleOnlyWhenSlipped
PROPERTIES
    MonotonicReads
