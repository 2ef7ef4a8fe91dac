SPECIFICATION Spec
CONSTANTS
    NumConns = 2
    Extranonce1s = {e0, e1}
    Works = {w0}
    JobIds = {j0, j1}
    Diffs = {}
    None = None
    MaxNotifies = 2
    MaxRetargets = 0
    MaxShares = 1
    MaxBlocks = 1
\* the process exits
CHECK_DEADLOCK FALSE
INVARIANTS
    TypeOK
    ExitThreeHasEvidence
    ExitZeroVouches
PROPERTIES
    KnownProblemFailsTheRun
    RunEnds
