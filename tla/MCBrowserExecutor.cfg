SPECIFICATION LiveSpec
CONSTANTS
    Jobs = {"j1", "j2"}
    Requests <- PageRequestSet
    Redirects = {"hop"}
    Forbidden = {"hop", "beacon"}
    Heavy = {"image"}
    Free = Free
    Target <- OneRefused
    MaxFaults = 2
INVARIANTS
    RefusedDocumentIsNoResult
    OnlyTimeoutsLeak
PROPERTIES
    EveryRenderReturns
CHECK_DEADLOCK FALSE
