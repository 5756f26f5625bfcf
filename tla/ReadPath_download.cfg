CONSTANTS
    r1 = r1
    r2 = r2
    r3 = r3
    u1 = u1
    u2 = u2
    None = None
    Reqs <- ThreeRequests
    Users <- OneUser
    MaxConcurrent = 2
    Routes <- Downloads
    MaxWrites = 0
SPECIFICATION FairSpec
PROPERTIES
    EveryoneAnswered
