SPECIFICATION Spec
CONSTANTS
    Procs = {p1, p2}
    Owner <- OneHost
    Events = {e1, e2, e3, e4}
    AllTokens <- Growing
    MaxBytes = 4
    MaxCount = 2
    MaxConsumed = 3
    None = None
    MaxRequests = 4
    MaxEdits = 1
    MaxExpired = 1
SYMMETRY Symmetry
INVARIANTS StoreAccounted ReloadLoopBroken RetryNeverInterrupts ReliableProven
CHECK_DEADLOCK FALSE
