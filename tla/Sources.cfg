CONSTANTS
    Handlers <- MCHandlers
    Cron = Cron
    Workloads <- MCWorkloads
    DegradeAt = 2
    PauseAt = 3
    DegradeAfterFailures = 3
    None = None
SPECIFICATION SourceSpec
INVARIANTS
    CrawlableWasDecided
PROPERTIES
    ScheduleConverges
