CONSTANTS
    j1 = j1
    j2 = j2
    r1 = r1
    Sweeper = Sweeper
    None = None
    Jobs <- OneJob
    Retriers <- OneRetrier
    NBatches = 2
    MaxAttempts = 2
    MaxFailures = 2
    MaxCrashes = 2
    MaxRetries = 1
    Graceful = FALSE
SPECIFICATION FairSpec
INVARIANTS
    AutoResumesCapped
    CommittedBatchesLanded
PROPERTIES
    StuckJobsAreReaped
CHECK_DEADLOCK FALSE
