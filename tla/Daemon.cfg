SPECIFICATION FairSpec
CONSTANTS
    a = a
    b = b
    Tables = {a, b}
    Observed = {a}
    Depth = 2
    Debounce = 2
    Day = 4
    Interval = 3
    Schedules <- TwiceADay
    Hours <- WindowHours
    Limits <- NoLimitOrOne
INVARIANTS
    NotificationsKept
PROPERTIES
    NotificationsActedOn
    SweepsRecur
    ChangesAreMaintained
    ShutdownIsAnswered
CHECK_DEADLOCK FALSE
