SPECIFICATION Spec
CONSTANTS
    Connections = 2
    MaxWorkers = 2
    Pipeline = 1
    MaxSubmits = 2
    None = None
\* the result line is out
CHECK_DEADLOCK FALSE
INVARIANTS
    SlotsConserved
    SharesCountedOnce
    ErrorsAreReported
PROPERTIES
    MainEnds
