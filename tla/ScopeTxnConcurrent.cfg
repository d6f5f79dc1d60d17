SPECIFICATION Spec
CONSTANTS
    Procs = {p1, p2}
    p1 = p1
    p2 = p2
    t1 = t1
    t2 = t2
    Txs = {t1, t2}
    N = 3
    Changes <- SomeChanges
    Base = Base
    x1 = x1
    Thirds = {x1}
    None = None
    Commands = {"apply", "resume", "rollback"}
    MaxExternal = 1
    MaxStops = 1
SYMMETRY ProcSymmetry
INVARIANTS OnePending LedgerOnce BaselineLast
PROPERTIES ThirdPartyUntouched ImplementsAtomicChange
CHECK_DEADLOCK FALSE
