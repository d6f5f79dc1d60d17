SPECIFICATION Spec
CONSTANTS
    Procs = {p1, p2}
    T = 2
    Home <- OneEach
    Known = {2}
    Limit = 2
    Parallel = 1
    Wordings = {1}
    Verbatim = FALSE
    Split = TRUE
    Rollbacks = TRUE
    Related = TRUE
    None = None
    MaxCalls = 4
    MaxEdits = 0
    MaxMoves = 1
    MaxStops = 1
SYMMETRY ProcSymmetry
INVARIANTS AlignedSound ClosedStays ClosedNotUndone
CHECK_DEADLOCK FALSE
