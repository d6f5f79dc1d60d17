SPECIFICATION FairSpec
CONSTANTS
    Procs = {p1, p2, p3}
    p1 = p1
    p2 = p2
    p3 = p3
    NoProc = NoProc
    MaxGen = 1
    MaxFaults = 1
    FileSystems = {"links"}
PROPERTY StaleLockReclaimed
CHECK_DEADLOCK FALSE
