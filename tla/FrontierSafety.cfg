\* Two hosts, so that a worker holds several claims; a crash, a lost outcome,
\* an operator.
CONSTANTS
    u1 = u1
    u2 = u2
    u3 = u3
    h1 = h1
    h2 = h2
    h3 = h3
    Urls = {u1, u2, u3}
    Hosts = {h1, h2}
    HostOf <- TwoHosts
    Blank = {u2, u3}
    Workers = {w1, w2}
    Batch = 2
    MaxAttempts = 1
    ConcurrencyMax = 2
    LeaseUrls = 2
    MaxFaults = 1
    MaxCrashes = 1
    MaxAdmin = 1
    NoUrl = NoUrl
SPECIFICATION Spec
SYMMETRY WorkerSymmetry
INVARIANTS
    
    
    
    DoneIsEmitted
