SPECIFICATION Spec
CONSTANTS
    Conns = {c0, c1}
    Extranonce1s = {e0, e1}
    Works = {w0, w1}
    JobIds = {j0, j1}
    Diffs = {d0, d1}
    None = None
    MaxNotifies = 3
    MaxRetargets = 2
SYMMETRY Symmetry
INVARIANTS
    TallyMatchesHistory
    DuplicatesStayWithinAConnection
    VardiffMeansOwnRetarget
PROPERTIES
    KeepsPromise
