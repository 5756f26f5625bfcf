CONSTANTS
    r1 = r1
    h1 = h1
    None = None
    Rounds <- LastRounds
    Requests <- OneRequest
    Hooks <- OneHook
    MaxActs = 3
    MaxFaults = 1
SPECIFICATION FairSpec
INVARIANTS
    TypeOK
    OfferIsBacked
    RejectionHolds
PROPERTIES
    QualifiedGetsChecked
CHECK_DEADLOCK FALSE
