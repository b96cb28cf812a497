CONSTANTS
    r1 = r1  r2 = r2  r3 = r3  r4 = r4  k1 = k1  k2 = k2  s1 = s1  s2 = s2  t1 = t1  t2 = t2
    none = none  a = a  b = b
    Rows = {r1, r2, r3}
    Keys = {k1, k2}
    KeyOf <- MCKeyOf
    Specs = {s1, s2}
    Tuples = {t1, t2, none}
    NoTuple = none
    TupleOf <- MCTupleOf
    Replicas = {a}
    Seed <- SharedDelete
    SeedSpec = s1
    SeedSeq = 3
    MaxInputFiles = 1
    MaxCommitAttempts = 2
    MaxGroupFailures = 2
    MaxResends = 1
    MaxOutputs = 1
    LossyPipeline = FALSE
    MaxEdits = 0
    MaxEvolutions = 1
    MaxTurns = 1
SPECIFICATION Spec
PROPERTIES RewritesKeepTheSpec
CHECK_DEADLOCK FALSE
