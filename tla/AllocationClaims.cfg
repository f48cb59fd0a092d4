CONSTANTS
    c1 = c1
    c2 = c2
    c3 = c3
    s1 = s1
    s2 = s2
    u1 = u1
    u2 = u2
    p1 = p1
    p2 = p2
    p3 = p3
    Case = {c1, c2, c3}
    Source = {s1, s2}
    Reviewer = {u1, u2}
    Nobody = Nobody
    Page = {p1, p3}
    SourceOf <- MCSourceOf
    Age <- MCAge
    Draws <- MCDraws
    OwnerOf <- MCOwnerOf
    Capacity = 2
    FirstReviewers <- MCFirst
    FirstDone = {c2}
    Max <- MCMax
    MaxClicks = 2
    MaxEdits = 1
    MaxFaults = 1
SPECIFICATION FairSpec
INVARIANT TypeInvariant
INVARIANT OldestFirst
PROPERTY EmptyIsTrue
PROPERTY TakenFromThePot
PROPERTY CapacityKept
PROPERTY RequestEnds
CHECK_DEADLOCK FALSE
