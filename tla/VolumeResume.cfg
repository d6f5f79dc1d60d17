SPECIFICATION FairSpec
CONSTANTS
    Procs = {p1}
    T = 2
    Home <- OneEach
    Known = {2}
    Limit = 2
    Parallel = 1
    Wordings = {1}
    Verbatim = FALSE
    Split = FALSE
    Rollbacks = FALSE
    Related = TRUE
    None = None
    MaxCalls = 4
    MaxEdits = 1
    MaxMoves = 1
    MaxStops = 2
INVARIANTS DriftExplained
PROPERTIES Closure
CHECK_DEADLOCK FALSE
