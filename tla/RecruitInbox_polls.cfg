CONSTANTS
    r1 = r1
    r2 = r2
    i1 = i1
    h1 = h1
    h2 = h2
    s1 = s1
    c1 = c1
    None = None
    Results <- TwoResults
    Interviews <- Nobody
    Hooks <- OneHook
    Syncs <- OneSync
    Clerks <- Nobody
    Overlap = 1
    PageLimit = 1
    Status <- Finishing
    Dating <- HookEither
    IdKinds <- ResultIds
    Silent <- OtherResult
    MaxVersions = 2
    MaxTime = 2
    MaxFaults = 1
SPECIFICATION FairSpec
INVARIANTS
    NoGap
PROPERTIES
    NoRollback
    EventuallyCurrent
