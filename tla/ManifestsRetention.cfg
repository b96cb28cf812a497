CONSTANTS
    a = a  b = b  s1 = s1  s2 = s2  t1 = t1  t2 = t2
    Replicas = {a}
    Specs = {s1, s2}
    FirstSpec = s1
    Tuples = {t1, t2}
    Rank <- RankOf
    Formats = {2, 3}
    PerManifest = 2
    Sizes <- SizesOf
    MinToMerge = 2
    MaxCommitAttempts = 2
    ReadableMetadata = TRUE
    MaxEdits = 1
    MaxRuns = 1
    SeedManifests <- Alternating
    SeedSeq = 7
SPECIFICATION Spec
PROPERTIES OnlyTheOwnerAltersRetention
CHECK_DEADLOCK FALSE
