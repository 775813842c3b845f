SPECIFICATION LeaseSpec
CONSTANTS
    w1 = w1
    w2 = w2
    r1 = r1
    r2 = r2
    Workers <- TwoWorkers
    Runs <- TwoRuns
    Lease = 4
    FetchTimeout = 2
    RenderTimeout = 3
    Prepare = 0
    Overrun = 0
    Work = 0
INVARIANTS
    EscalatedRunHoldsLease
