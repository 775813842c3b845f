SPECIFICATION FairSpec
CONSTANTS
    w1 = w1
    w2 = w2
    Workers <- TwoWorkers
    Sources <- Classes
    RenderEnabled = TRUE
    MaxClaims = 3
INVARIANTS
    NoDoubleInsert
    EvidenceMatchesOutcome
    StepsExplainOutcome
    NetworkPlan
PROPERTIES
    RunSettles
