SPECIFICATION Spec
CONSTANTS
    Procs = {p1, p2, p3}
    NoProc = NoProc
    MaxGen = 3
    MaxFaults = 1
    FileSystems = {"links", "dirs_reuse"}
SYMMETRY ProcSymmetry
INVARIANTS SingleRecovererMutex DirectoryMutex
PROPERTY LiveLockUntouched
CHECK_DEADLOCK FALSE
