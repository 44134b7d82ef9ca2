SPECIFICATION Spec
CONSTANTS
    u1 = u1
    u2 = u2
    h1 = h1
    h2 = h2
    NoEvent = NoEvent
    NoKey = NoKey
    NoHW = NoHW
    Users = {u1, u2}
    HW = {h1, h2}
    Keys = {k1, k2}
    Events = {e1, e2, e3, e4, e5}
    Owner <- TwoOwners
    Undated = {}
    Rejected = {}
    BatchSize = 2
    Limit <- MirrorLimit
INVARIANTS
    TypeOK
    SuccessHasEvent
    AllTracked
PROPERTIES
    NoSpuriousUnbind
SYMMETRY Symmetry
CHECK_DEADLOCK FALSE
