SPECIFICATION ConnSpec
CONSTANTS
    N = 4
    Batch = 2
\* the probe ends
CHECK_DEADLOCK FALSE
INVARIANTS
    CountedOnce
    OvercountIsDrops
    ExactForSteadyPools
