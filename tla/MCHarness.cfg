SPECIFICATION Spec
CONSTANTS
    ckpool = ckpool
    pogolo = pogolo
    Pools <- TwoPools
    Points = 2
    Repeat = 2
    MaxBlocks = 2
    Host <- ThreeCores
    BitcoindCpus <- NodeCores
    CoreLists <- SomeCoreLists
    None = None
\* the program exits
CHECK_DEADLOCK FALSE
INVARIANTS
    MeasuresItsOwnPool
    NothingLeftBehind
    ZeroVouchesForEveryPool
    SuiteRemembers
