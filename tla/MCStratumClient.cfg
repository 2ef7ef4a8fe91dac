SPECIFICATION Spec
CONSTANTS
    SuggestsDifficulty = TRUE
    None = None
    MaxSubmits = 2
    MaxNotifies = 2
    MaxUnasked = 2
\* a connection that failed, or that the pool closed, comes to rest
CHECK_DEADLOCK FALSE
INVARIANTS
    RunningMeansGranted
    JobsNeedASession
    SharesAreShares
PROPERTIES
    StartReturns
