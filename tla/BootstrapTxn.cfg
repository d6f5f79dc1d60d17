SPECIFICATION FairSpec
CONSTANTS
    Txs = {t1, t2}
    t1 = t1
    t2 = t2
    N = 4
    Base = Base
    Third = Third
    None = None
    Commands = {"apply", "resume", "rollback"}
    MaxExternal = 1
    MaxStops = 2
INVARIANTS RootLast TerminalReceipt
PROPERTIES CompletedStays ThirdPartyUntouched ImplementsAtomicChange ClosesOrConflicts
CHECK_DEADLOCK FALSE
