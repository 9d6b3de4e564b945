\* Up to two requests of one candidate, two checkouts, and one failure: a lost
\* webhook, a failed statement or a dead process.
CONSTANTS
    Handlers <- MCHandlers
    Cron = Cron
    None = None
    Prompts <- MCPrompts
    Workloads <- MCWorkloads
    Month = 1
    MaxFaults = 1
SPECIFICATION Spec
INVARIANT AccessWasPaid
PROPERTIES PaidIsActivated LapsedTierEnds
CHECK_DEADLOCK FALSE
