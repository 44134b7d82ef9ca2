SPECIFICATION FairSpec
CONSTANTS
    u1 = u1
    u2 = u2
    h1 = h1
    h2 = h2
    NoEvent = NoEvent
    NoKey = NoKey
    NoHW = NoHW
    Users = {u1}
    HW = {h1, h2}
    Keys = {k1}
    Events = {e1, e2, e3, e4, e5, e6, e7, e8}
    Owner <- OneOwner
    Undated = {}
    Rejected = {}
    BatchSize = 2
    Limit <- RebindLimit
INVARIANTS
    EventBelongs
PROPERTIES
    LeftoversGo
CHECK_DEADLOCK FALSE
