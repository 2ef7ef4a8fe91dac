SPECIFICATION Spec
CONSTANTS
    NumWorkers = 2
    Workers <- AllWorkers
    Diffs = {d0, d1}
    InitDiff = d0
    En2Space = 4
    Chunks = 2
    None = None
    MaxGen = 2
\* the run ends: after Stop the processes go away
CHECK_DEADLOCK FALSE
INVARIANTS
    NeverReadsAnEmptyBoard
    JobMatchesGeneration
    BoardHasCurrentDifficulty
    WorkersAreDisjoint
PROPERTIES
    PublicationReachesWorkers
    WorkersEnd
