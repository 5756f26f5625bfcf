CONSTANTS
    a = a
    b = b
    u1 = u1
    u2 = u2
    None = None
    Jobs <- TwoJobs
    Admins <- TwoAdmins
    Flow = "candidates"
    NRows = 1
    MaxRuns = 2
    MaxUndos = 2
    MaxActs = 2
SPECIFICATION Spec
SYMMETRY Symmetry
INVARIANTS
    TypeOK
PROPERTIES
    StandingActivitySurvives
    ReportedUndoRemoved
    ImplementsContract
CHECK_DEADLOCK FALSE
