CONSTANTS
    h1 = h1
    h2 = h2
    r1 = r1
    r2 = r2
    None = None
    Handlers <- MCHandlers
    Resources <- MCResources
    MaxBooking = 3
    Horizon = 3
    MaxAttempts = 2
    MaxFaults = 1
    MaxEvents = 2
    Jobs = {"j"}
    Interviews = {"i", "k"}
    Apps <- MCApps
    Scenarios <- MCScenarios
SPECIFICATION Spec
INVARIANTS HireBilledOnce PublishedWasProjected InterviewHoldsItsSlot OverbookingNeedsARace  InterviewIsAnnounced
CHECK_DEADLOCK FALSE
SYMMETRY Symmetry
