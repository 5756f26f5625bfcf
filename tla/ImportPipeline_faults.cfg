CONSTANTS
    k1 = k1
    k2 = k2
    Anon = Anon
    Invalid = Invalid
    NRows = 3
    Keys <- TwoKeys
    Contents <- AnyRow
    BatchSize = 2
    Flows <- BothFlows
    MaxAttempts = 3
    MaxCrashes = 2
    MaxFaults = 2
    Graceful = FALSE
SPECIFICATION Spec
SYMMETRY KeySymmetry
INVARIANTS
    UnlandedAreCounted
    CompletedAccounts
PROPERTIES
    CheckpointNeverRetreats
CHECK_DEADLOCK FALSE
