SPECIFICATION StoreSpec
CONSTANTS
    Writers = {w1, w2, w3}
    Bases = {b1, b2}
    None = None
\* the writers end
CHECK_DEADLOCK FALSE
INVARIANTS
    LostOnlyToARival
    ReportHasWhatWasStored
