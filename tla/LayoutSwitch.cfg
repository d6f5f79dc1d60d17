SPECIFICATION FairSpec
CONSTANTS
    Procs = {p1, p2}
    Locales = {en, zh}
    First = en
    Layouts = {"volumes", "legacy", "none"}
    Bindings <- SomeBindings
    ConfigRace = FALSE
    None = None
    Bounds <- TwoScenarios
INVARIANT Coherent
PROPERTIES EditsKept Closes
CHECK_DEADLOCK FALSE
