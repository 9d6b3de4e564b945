\* Pages within the lease and no process death: one driver per run, and every
\* run converges through lost, doubled and refused continuations, back-pressure
\* and page errors.
CONSTANTS
    Procs = {p1, p2}
    Slots = {1}
    Runs = {1, 2}
    Pages = 2
    SliceMaxPages = 1
    StuckMax = 3
    PromptPages = TRUE
    MaxTicks = 2
    FaultKinds = {"page", "capacity", "deny", "lose", "dup"}
    MaxFaults = 1
    MaxCrashes = 0
    MaxConts = 2
    MaxSlices = 4
    NoProc = NoProc
    NoRun = NoRun
SPECIFICATION FairSpec
INVARIANTS
    OneSlicePerRun
PROPERTIES
    RunsConverge
CHECK_DEADLOCK FALSE
