CONSTANTS
    r1 = r1
    r2 = r2
    i1 = i1
    h1 = h1
    h2 = h2
    s1 = s1
    c1 = c1
    None = None
    Results <- OneResult
    Interviews <- OneInterview
    Hooks <- TwoHooks
    Syncs <- Nobody
    Clerks <- OneClerk
    Overlap = 1
    PageLimit = 1
    Status <- Finishing
    Dating <- HooksDated
    IdKinds <- AnyIds
    Silent <- Nobody
    MaxVersions = 2
    MaxTime = 0
    MaxFaults = 1
SYMMETRY Symmetry
SPECIFICATION Spec
INVARIANTS
    TypeOK
    ProcessedWasStored
PROPERTIES
    HumanDecisionsHold
    OutcomeFreezesStatus
    ImplementsContract
