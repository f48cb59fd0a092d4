CONSTANTS
    c1 = c1
    c2 = c2
    answers = answers
    notes = notes
    Field = {answers, notes}
    Answers = answers
    Key = {answers, notes}
    Case = {c1}
    KeyFields <- SingleKeys
    ByReread = TRUE
    RereadMayFail = TRUE
    CaseMayVanish = TRUE
    MaxEdits = 2
    MaxOther = 1
    MaxFaults = 1
    MaxLoads = 1
    MaxFlushCalls = 1
SPECIFICATION Spec
INVARIANT TypeInvariant
INVARIANT FlushTrueLeavesNothing
INVARIANT SavedIsHonest
INVARIANT NoUnreadOverwrite
PROPERTY IdleLeavesOnlyFlushCase
PROPERTY NoOvertakeAtFirstAttempt
PROPERTY ConflictStands
CHECK_DEADLOCK FALSE
