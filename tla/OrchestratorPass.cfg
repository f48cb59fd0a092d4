CONSTANTS
    a = a
    b = b
    c = c
    Process = {p, q}
    Name = {a, b, c}
    Item = {1, 2, 3, 4}
    Plans <- MCPlans
    FirstRuns <- MCFirstRuns
    LastDay = 2
    LastHour = 1
    Bound <- MCBound
    MaxPasses = 2
    MaxBreaks = 1
SYMMETRY Processes
SPECIFICATION Spec
INVARIANT OncePerRunDate
PROPERTY PressureKept
PROPERTY UpstreamsFirst
CHECK_DEADLOCK FALSE
