SPECIFICATION Spec
CONSTANTS
    u1 = u1
    u2 = u2
    h1 = h1
    h2 = h2
    NoEvent = NoEvent
    NoKey = NoKey
    NoHW = NoHW
    Users = {u1}
    HW = {h1}
    Keys = {k1}
    Events = {e1, e2, e3, e4}
    Owner <- OneHomework
    Undated = {}
    Rejected = {}
    BatchSize = 2
    Limit <- RaceLimit
INVARIANTS
    SuccessHasEvent
CHECK_DEADLOCK FALSE
