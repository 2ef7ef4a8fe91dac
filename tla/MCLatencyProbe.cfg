SPECIFICATION Spec
CONSTANTS
    Rounds = 3
    MaxRefreshes = 1
    MaxResends = 1
    None = None
\* the probe has ended
CHECK_DEADLOCK FALSE
INVARIANTS
    LatenciesArePositive
    ExactForPromptPools
PROPERTIES
    ProbeEnds
