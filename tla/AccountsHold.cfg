SPECIFICATION FairSpec
CONSTANTS
    Requests = {q1, q2}
    Codes = {c1}
    NoCode = NoCode
    Workers = {w1}
    Passwords = {p1}
    NoPassword = NoPassword
    Limit <- HoldLimit
INVARIANTS
    TypeOK
    OneLoginPerCode
    Configured
PROPERTIES
    TokenSpec
    ScannedCodeLogsIn
    DeadCookieNoticed
CHECK_DEADLOCK FALSE
