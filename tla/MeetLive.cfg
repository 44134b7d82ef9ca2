SPECIFICATION FairSpec
CONSTANTS
    u1 = u1
    u2 = u2
    h1 = h1
    h2 = h2
    NoEvent = NoEvent
    NoKey = NoKey
    NoHW = NoHW
    Users = {u1}
    HW = {h1, h2}
    Keys = {k1}
    Events = {e1, e2, e3, e4}
    Owner <- OneOwner
    Undated = {}
    Rejected = {h2}
    BatchSize = 2
    Limit <- LiveLimit
INVARIANTS
    NoStrayEvent
PROPERTIES
    Settles
    Converges
    BrokenKeyUnbinds
CHECK_DEADLOCK FALSE
