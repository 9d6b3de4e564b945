\* Slow pages let leases lapse under live slices, a process dies, and two of the
\* failures the handler knows happen.
CONSTANTS
    Procs = {p1, p2}
    Slots = {1}
    Runs = {1}
    Pages = 2
    SliceMaxPages = 2
    StuckMax = 2
    PromptPages = FALSE
    MaxTicks = 2
    FaultKinds = {"abort", "page", "capacity", "write", "deny", "lose", "dup"}
    MaxFaults = 2
    MaxCrashes = 1
    MaxConts = 1
    MaxSlices = 3
    NoProc = NoProc
    NoRun = NoRun
SPECIFICATION Spec
SYMMETRY ProcSymmetry
INVARIANTS
    NoPageSkipped
    
CHECK_DEADLOCK FALSE
