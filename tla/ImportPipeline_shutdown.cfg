CONSTANTS
    k1 = k1
    k2 = k2
    Anon = Anon
    Invalid = Invalid
    NRows = 3
    Keys <- TwoKeys
    Contents <- GoodRow
    BatchSize = 2
    Flows <- BothFlows
    MaxAttempts = 3
    MaxCrashes = 2
    MaxFaults = 1
    Graceful = TRUE
SPECIFICATION FairSpec
INVARIANTS
    ShutdownLeavesInterrupted
    OneRecordPerIdentity
PROPERTIES
    JobFinishes
CHECK_DEADLOCK FALSE
