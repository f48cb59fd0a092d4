SPECIFICATION FairSpec
CONSTANTS
    plain = plain
    fetched = fetched
    guarded = guarded
    home = home
    deepLink = deepLink
    fetchedHash = fetchedHash
    guardedHash = guardedHash
    nowhere = nowhere
    NoRoute = NoRoute
    Hash = {home, deepLink, fetchedHash, guardedHash, nowhere}
    Route = {plain, fetched, guarded}
    RouteOf <- MCRouteOf
    Home = home
    Lazy = {fetched}
    Refused = {guarded}
    CleanupMayThrow = FALSE
    MaxMoves = 3
    MaxFaults = 2
INVARIANTS
    TypeInvariant
    OnlyLatestIsAlive
    AskedIsShown
PROPERTIES
    OnlyLatestDraws
    NavigationSettles
CHECK_DEADLOCK FALSE
