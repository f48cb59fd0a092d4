CONSTANTS
    Process = {p, q}
    Key = {k}
    Garbled = garbled
    MaxLines = 2
    MaxTears = 1
    MaxTruncations = 0
    Bound <- MCBound
SPECIFICATION Spec
INVARIANT CountedOnce
CHECK_DEADLOCK FALSE
