CONSTANTS
    u1 = u1
    u2 = u2
    r1 = r1
    r2 = r2
    p1 = p1
    Nobody = Nobody
    User = {u1}
    ReviewTab = {r1}
    PartyTab = {}
    UserOf <- SameUser
    Max <- MCMax
    FirstKind = {"draft"}
    EditKind = {"clean"}
    MaxEdits = 2
    MaxOthers = 0
    MaxMessages = 0
    MaxLoads = 1
    MaxRefreshes = 0
    MaxClaims = 1
    MaxSupport = 0
    MaxFaults = 0
SPECIFICATION Spec
INVARIANT OutcomeIsOfTheAnswers
CHECK_DEADLOCK FALSE
