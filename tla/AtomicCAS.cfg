SPECIFICATION FairSpec
CONSTANTS
    Vals = {v0, v1, v2, v3}
    v0 = v0
    v1 = v1
    v2 = v2
    v3 = v3
    Initial = v0
    None = None
    Environments = {"primitive", "emulated"}
    Uses = {"replaced", "created"}
    WriteBack = FALSE
    MaxCalls = 3
    MaxWrites = 2
    MaxCrashes = 2
    MaxFaults = 1
INVARIANTS NothingLost OrphanSwapDisposable CleanReturn
PROPERTIES SuccessIsCAS Converges
CHECK_DEADLOCK FALSE
