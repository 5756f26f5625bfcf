CONSTANTS
    j1 = j1
    j2 = j2
    r1 = r1
    Sweeper = Sweeper
    None = None
    Jobs <- TwoJobs
    Retriers <- OneRetrier
    NBatches = 1
    MaxAttempts = 2
    MaxFailures = 2
    MaxCrashes = 1
    MaxRetries = 0
    Graceful = TRUE
SPECIFICATION Spec
SYMMETRY JobSymmetry
INVARIANTS
    TypeOK
    NoStaleController
    BreakerTrips
    CompletedIsExplained
CHECK_DEADLOCK FALSE
