CONSTANTS
    Partitions <- PartitionsOf
    UnpartitionedSpec = 0
    FirstSpec = 1
    SeedFiles <- SeedOf
    AppendSizes = {3, 5, 17}
    Target = 8
    SmallBelow = 6
    LargeAbove = 14
    SmallRatio <- ThirdOf
    DeleteRatio <- TenthOf
    MinInputFiles = 1
    MaxInputFiles = 2
    MaxGroupBytes = 24
    NoDelete = NoDelete
    NoPlan = NoPlan
    MaxWrites = 3
    MaxFailures = 2
SPECIFICATION Spec
CHECK_DEADLOCK FALSE
INVARIANTS PlanIsAPromise ReadsWithinCharge
PROPERTIES RunsEase Settles
