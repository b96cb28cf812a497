CONSTANTS
    a = a  b = b
    Processes = {a}
    Paths = {1, 2, 3, 4, 5, 6, 7, 8, 9}
    Lists = {5, 6, 7}
    ForeignPaths = {8, 9}
    ForeignRoot = 9
    Outside = {4}
    NoTime = {7}
    Locked = {}
    Seed <- WithOutside
    SeedStaged = {3, 8}
    Grace = 1
    MaxAge = 0
    MinToKeep = 1
    DeleteFiles = TRUE
    OrphanMode = "delete"
    Ceiling = 2
    MaxCommitAttempts = 2
    CommitRefreshes = TRUE
    PromptWriters = TRUE
    MaxClock = 1
    MaxStops = 1
SPECIFICATION Spec
INVARIANTS LiveFilesSurvive StagedFilesSurvive DeletionsAccounted
