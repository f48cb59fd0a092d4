CONSTANTS
    c1 = c1
    c2 = c2
    answers = answers
    notes = notes
    Field = {answers, notes}
    Answers = answers
    Key = {answers, notes}
    Case = {c1}
    KeyFields <- OverlappingKeys
    ByReread = FALSE
    RereadMayFail = TRUE
    CaseMayVanish = FALSE
    MaxEdits = 2
    MaxOther = 0
    MaxFaults = 3
    MaxLoads = 1
    MaxFlushCalls = 1
SPECIFICATION FairSpec
INVARIANT GivenUpIsNoticed
 
PROPERTY FlushCaseReturns
CHECK_DEADLOCK FALSE
