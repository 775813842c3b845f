SPECIFICATION FairSpec
CONSTANTS
    j1 = j1
    j2 = j2
    b1 = b1
    b2 = b2
    Jobs <- TwoJobs
    MaxPerDay = 1
    Days = 2
    MaxAwaiting = 2
    Prefetch = 2
    MaxDeliver = 3
    Browsers <- TwoBrowsers
    Batch = 2
    MaxJobs = 1
    MaxFaults = 1
INVARIANTS
    BudgetRespected
    AwaitedNotDropped
    SettledCommandsHaveEvents
    OneEventPerCommand
PROPERTIES
    CommandsAreAnswered
CHECK_DEADLOCK FALSE
