CONSTANTS
    u1 = u1
    u2 = u2
    r1 = r1
    r2 = r2
    p1 = p1
    Nobody = Nobody
    User = {u1}
    ReviewTab = {r1}
    PartyTab = {p1}
    UserOf <- SameUser
    Max <- MCMax
    FirstKind = {"clean"}
    EditKind = {"clean"}
    MaxEdits = 1
    MaxOthers = 0
    MaxMessages = 2
    MaxLoads = 2
    MaxRefreshes = 1
    MaxClaims = 1
    MaxSupport = 0
    MaxFaults = 1
SPECIFICATION Spec
INVARIANT ClosedWaitsOnNobody
PROPERTY MessagesKept
 
CHECK_DEADLOCK FALSE
