CONSTANTS
    h1 = h1
    h2 = h2
    i1 = i1
    None = None
    i2 = i2
    Apps <- MCApps
    Items <- MCItems
    Keys = {"k"}
    Handlers <- MCHandlers
    Workloads <- MCWorkloads
    Asked <- MCAsked
    PageLimit = 1
    MaxRequests = 4
    MaxFaults = 1
    MaxTime = 2
SPECIFICATION Spec
INVARIANTS  KeysWork LiveHasBlob 
PROPERTIES KeepsStatusMachine
CHECK_DEADLOCK FALSE
SYMMETRY Symmetry
