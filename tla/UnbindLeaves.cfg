SPECIFICATION Spec
CONSTANTS
    Scheduled = Scheduled
    NoOne = NoOne
    HW = {h1}
    Manual = {}
    Requests = {b1}
    Cooldown = 2
    Attempts = 2
    Limit <- UnbindLimit
INVARIANTS
    UnbindCleans
CHECK_DEADLOCK FALSE
