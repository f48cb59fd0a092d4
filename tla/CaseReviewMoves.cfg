CONSTANTS
    u1 = u1
    u2 = u2
    r1 = r1
    r2 = r2
    p1 = p1
    Nobody = Nobody
    User = {u1, u2}
    ReviewTab = {r1, r2}
    PartyTab = {}
    UserOf <- MCUserOf
    Max <- MCMax
    FirstKind = {"actions", "clean"}
    EditKind = {"resolved"}
    MaxEdits = 1
    MaxOthers = 1
    MaxMessages = 0
    MaxLoads = 2
    MaxRefreshes = 0
    MaxClaims = 1
    MaxSupport = 1
    MaxFaults = 1
SPECIFICATION FairSpec
INVARIANT TypeInvariant
INVARIANT StampsAgree
INVARIANT ClearedIsLogged
PROPERTY InformedMoves
PROPERTY MoveReturns
CHECK_DEADLOCK FALSE
