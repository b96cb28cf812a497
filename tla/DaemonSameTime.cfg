SPECIFICATION Spec
CONSTANTS
    a = a
    b = b
    Tables = {a, b}
    Observed = {a}
    Depth = 2
    Debounce = 2
    Day = 4
    Interval = 3
    Schedules <- SameTime
    Hours <- WindowHours
    Limits <- NoLimit
PROPERTIES
    ScheduledRulesAreEvaluated
CHECK_DEADLOCK FALSE
