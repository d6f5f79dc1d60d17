SPECIFICATION Spec
CONSTANTS
    Procs = {p1, p2}
    T = 2
    Home <- AllCode
    Known = {}
    Limit = 1
    Parallel = 2
    Wordings = {1}
    Verbatim = FALSE
    Split = TRUE
    Rollbacks = FALSE
    Related = FALSE
    None = None
    MaxCalls = 3
    MaxEdits = 1
    MaxMoves = 0
    MaxStops = 1
SYMMETRY ProcSymmetry
PROPERTIES NoEntryLost ForeignFailsClosed
CHECK_DEADLOCK FALSE
