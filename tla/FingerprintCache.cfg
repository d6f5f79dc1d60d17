SPECIFICATION Spec
CONSTANTS
    Walks = {c1}
    Batches = {c2}
    Paths = {f1}
    Window = 1
    Lag = 1
    None = None
    MaxClock = 3
    MaxWrites = 1
INVARIANTS HitIsColdHash LinesAreCold
