SPECIFICATION LeaseSpec
CONSTANTS
    w1 = w1
    w2 = w2
    r1 = r1
    r2 = r2
    Workers <- TwoWorkers
    Runs <- TwoRuns
    Lease = 9
    FetchTimeout = 2
    RenderTimeout = 3
    Prepare = 1
    Overrun = 1
    Work = 1
SYMMETRY Symmetric
INVARIANTS
    OneExecutor
