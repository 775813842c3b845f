SPECIFICATION FairSpec
CONSTANTS
    p1 = p1
    p2 = p2
    N = 2
    Relays <- TwoRelays
    Limit = 1
    UnhealthyAttempts = 1
    MaxFaults = 1
INVARIANTS
    MarksAreTrue
PROPERTIES
    ImplementsDelivery
    EveryRowSettles
    RefusedHeadWithdrawsReadiness
    OutageEndsReady
