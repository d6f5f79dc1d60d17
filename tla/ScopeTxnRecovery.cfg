SPECIFICATION FairSpec
CONSTANTS
    Procs = {p1}
    p1 = p1
    t1 = t1
    t2 = t2
    Txs = {t1, t2}
    N = 3
    Changes <- SomeChanges
    Base = Base
    x1 = x1
    Thirds = {x1}
    None = None
    Commands = {"apply", "resume", "rollback"}
    MaxExternal = 1
    MaxStops = 2
INVARIANTS RecoverableIntent TerminalRecorded
PROPERTY PendingCloses
CHECK_DEADLOCK FALSE
