SPECIFICATION FairSpec
CONSTANTS
    p1 = p1
    p2 = p2
    h1 = h1
    h2 = h2
    r1 = r1
    r2 = r2
    s1 = s1
    c1 = c1
    Platforms = {p1, p2}
    HW = {h1, h2}
    PlatformOf <- Homeworks
    Refreshes = {r1, r2}
    TargetOf <- Targets
    Subs = {s1}
    Clients = {c1}
    SubOf <- Urls
    FilterOf <- Filters
    Limit <- FeedLimit
INVARIANTS
    TypeOK
    FirstBody
PROPERTIES
    OnlyKnownCauses
    CalendarFollows
CHECK_DEADLOCK FALSE
