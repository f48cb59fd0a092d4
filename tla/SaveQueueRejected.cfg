CONSTANTS
    c1 = c1
    c2 = c2
    answers = answers
    notes = notes
    Field = {answers, notes}
    Answers = answers
    Key = {answers, notes}
    Case = {c1}
    KeyFields <- SingleKeys
    ByReread = TRUE
    RereadMayFail = TRUE
    CaseMayVanish = FALSE
    MaxEdits = 1
    MaxOther = 1
    MaxFaults = 1
    MaxLoads = 1
    MaxFlushCalls = 1
SPECIFICATION Spec
INVARIANT FlushTrueMeansPersisted
CHECK_DEADLOCK FALSE
