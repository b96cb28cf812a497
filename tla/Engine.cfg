CONSTANTS
    Tasks = {1, 2}
    Credentials = {"static", "client"}
    Lifetimes = {2}
    Margin = 1
    Never = Never
    NoOne = NoOne
    NoId = NoId
    MaxThrottleRetries = 1
    MaxRequestTime = 1
    Surveys <- SurveysOf
    Budget = 3
    Requests <- RequestsOf
    MaxParallel = 2
    MaxCommitAttempts = 2
    ScanInterval = 2
    MaxCycles = 2
    MaxClock = 2
    MaxForeground = 1
SPECIFICATION Spec
CHECK_DEADLOCK FALSE
INVARIANTS OneExchangeServesAll TokensOutliveRequests NothingDropped ConflictsAreReal
PROPERTIES AppliedInOrder RunsEnd
