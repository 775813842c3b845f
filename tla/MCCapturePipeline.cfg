SPECIFICATION FairSpec
CONSTANTS
    c1 = c1
    c2 = c2
    m1 = m1
    m2 = m2
    p1 = p1
    p2 = p2
    None = None
    Commands <- MCCommands
    Procs <- MCProcs
    MaxDeliver = 2
    Prefetch = 1
    Messages <- TwoMessages
    CommandOf <- OneEach
    Malformed = {}
    MaxFaults = 1
INVARIANTS
    ReportsMatchRun
    AckedIsDurable
    OneFreshExecutor
PROPERTIES
    ImplementsLifecycle
    EveryCommandSettles
