SPECIFICATION FairSpec
CONSTANTS
    Scheduled = Scheduled
    NoOne = NoOne
    HW = {h1}
    Manual = {m1}
    Requests = {b1}
    Cooldown = 1
    Attempts = 2
    Limit <- CareLimit
INVARIANTS
    TypeOK
PROPERTIES
    JobsFollowBindings
    FetchesSpaced
    TableSpec
    ShownGetsStored
    RefreshesEnd
CHECK_DEADLOCK FALSE
