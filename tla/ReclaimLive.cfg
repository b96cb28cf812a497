CONSTANTS
    a = a  b = b
    Processes = {a}
    Paths = {1, 2, 3, 5, 6, 7}
    Lists = {5, 6, 7}
    ForeignPaths = {}
    ForeignRoot = 9
    Outside = {}
    NoTime = {}
    Locked = {}
    Seed <- TwoSnapshots
    SeedStaged = {7}
    Grace = 1
    MaxAge = 0
    MinToKeep = 1
    DeleteFiles = TRUE
    OrphanMode = "delete"
    Ceiling = 1
    MaxCommitAttempts = 2
    CommitRefreshes = TRUE
    PromptWriters = TRUE
    MaxClock = 1
    MaxStops = 1
SPECIFICATION FairSpec
PROPERTIES WithheldIsReclaimed
