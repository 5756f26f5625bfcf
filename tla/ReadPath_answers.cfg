CONSTANTS
    r1 = r1
    r2 = r2
    r3 = r3
    u1 = u1
    u2 = u2
    None = None
    Reqs <- ThreeRequests
    Users <- OneUser
    MaxConcurrent = 1
    Routes <- List
    MaxWrites = 1
SPECIFICATION FairSpec
PROPERTIES
    OnTimeAnswered
    EventuallyFresh
