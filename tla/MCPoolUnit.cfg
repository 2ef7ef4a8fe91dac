SPECIFICATION Spec
CONSTANTS
    Units = 2
    Points = 2
\* the session ends
CHECK_DEADLOCK FALSE
INVARIANTS
    TypeOK
    SamplesAreOwn
    MeasuredWasReady
    DisturbancesAreAnnounced
PROPERTIES
    UnitsEnd
