CONSTANTS
    k1 = k1
    k2 = k2
    Anon = Anon
    Invalid = Invalid
    NRows = 4
    Keys <- TwoKeys
    Contents <- AnyRow
    BatchSize = 2
    Flows <- CandidateFlow
    MaxAttempts = 3
    MaxCrashes = 2
    MaxFaults = 0
    Graceful = FALSE
SPECIFICATION Spec
SYMMETRY KeySymmetry
INVARIANTS
    TypeOK
    CreatedIdsMatchCount
    ResumptionInv
PROPERTIES
    NoRewriteBelowCheckpoint
    ImplementsContract
CHECK_DEADLOCK FALSE
