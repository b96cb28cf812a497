CONSTANTS
    r1 = r1  r2 = r2  r3 = r3  r4 = r4  k1 = k1  k2 = k2  s1 = s1  s2 = s2  t1 = t1  t2 = t2
    none = none  a = a  b = b
    Rows = {r1, r2, r3, r4}
    Keys = {k1, k2}
    KeyOf <- MCKeyOf
    Specs = {s1, s2}
    Tuples = {t1, none}
    NoTuple = none
    TupleOf <- MCUnpartitionedTupleOf
    Replicas = {a}
    Seed <- GlobalDelete
    SeedSpec = s1
    SeedSeq = 4
    MaxInputFiles = 1
    MaxCommitAttempts = 2
    MaxGroupFailures = 2
    MaxResends = 0
    MaxOutputs = 2
    LossyPipeline = TRUE
    MaxEdits = 1
    MaxEvolutions = 2
    MaxTurns = 1
SPECIFICATION Spec
INVARIANTS DerivationsAgree
PROPERTIES RetiredDeletesApplyNowhere LostRowsAreCaught
CHECK_DEADLOCK FALSE
