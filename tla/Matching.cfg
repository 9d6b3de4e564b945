CONSTANTS
    c1 = c1
    c2 = c2
    o1 = o1
    o2 = o2
    Candidates = {c1, c2}
    Opps = {o1, o2}
    Handlers <- MCHandlers
    Fits <- MCFits
    Subscribers = {c1}
    Workloads <- MCWorkloads
    InvokeLimit = 1
    DigestSize = 1
    None = None
SPECIFICATION Spec
INVARIANTS
    MailedOnce
    WithinLimits
PROPERTIES
    EligibleIsMailed
CHECK_DEADLOCK FALSE
