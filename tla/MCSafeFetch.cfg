SPECIFICATION LiveSpec
CONSTANTS
    f1 = f1
    f2 = f2
    Fetches <- TwoFetches
    Sources <- Commands
    Locations <- Targets
    PdfNames = {"a.pdf"}
    Answers <- AnswerSets
    IntakeLength = 4
    MaxUrlLength = 2
    AllowedPorts = {443}
    Cached = {f1}
    GlobalLimit = 2
    PerHostLimit = 1
    MinInterval = 2
    TotalTimeout = 2
    FirstByteTimeout = 1
    MaxRedirects = 2
    MaxRetries = 1
    BackoffUnit = 1
    RetryAfters = {2}
    Horizon = 3
INVARIANTS
    PermitsAreExact
    OneBudget
    RequestsFormAChain
    ContactsAreGlobal
    RoutingIsStable
PROPERTIES
    FirstAttemptsAreSpaced
    EveryFetchReturns
CHECK_DEADLOCK FALSE
