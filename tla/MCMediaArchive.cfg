SPECIFICATION MediaSpec
CONSTANTS
    r1 = r1
    r2 = r2
    r3 = r3
    Runs <- ThreeRuns
    VideoOf <- TwoVideos
    MediaOf <- Media
    Length <- Lengths
    MaxItem = 3
    Budget = 5
    MaxFaults = 2
INVARIANTS
    BudgetHolds
PROPERTIES
    PurgeFinishesWhatItSelected
CHECK_DEADLOCK FALSE
