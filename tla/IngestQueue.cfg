\* Two replicas race for two rows, one of them poison; one replica writes the
\* catalog to a database of its own, the other to the queue's.  Leases lapse under
\* running tasks, and a replica dies or its report is lost.
CONSTANTS
    Keys = {k1, k2}
    Poison = {k2}
    Workers = {w1, w2}
    Batch = 1
    MaxPending = 1
    MaxAttempts = 2
    MaxFaults = 1
    DualWorkers = {w1}
SPECIFICATION FairSpec
INVARIANTS
    OneOutcomePerAttempt
    DisjointUntilStale
    CeilingUntilStale
    PoisonContained
    ProductFirst
PROPERTIES
    SettledIsFinal
    EventuallySettled
CHECK_DEADLOCK FALSE
