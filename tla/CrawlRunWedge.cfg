\* A process dies in the middle of a slice.
CONSTANTS
    Procs = {p1, p2}
    Slots = {1}
    Runs = {1}
    Pages = 2
    SliceMaxPages = 1
    StuckMax = 3
    PromptPages = TRUE
    MaxTicks = 1
    FaultKinds = {"abort", "page", "capacity", "write", "deny", "lose", "dup"}
    MaxFaults = 0
    MaxCrashes = 1
    MaxConts = 2
    MaxSlices = 6
    NoProc = NoProc
    NoRun = NoRun
SPECIFICATION FairSpec
PROPERTIES
    RunsConverge
CHECK_DEADLOCK FALSE
