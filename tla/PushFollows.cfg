SPECIFICATION FairSpec
CONSTANTS
    c1 = c1
    realtime = realtime
    HW = {h1}
    Chans = {c1, c2}
    NoChan = NoChan
    Settings = {morning, realtime}
    Scheduled = {morning}
    Setups = {t1}
    DailyJob = DailyJob
    NoJob = NoJob
    Copies = 2
    Stored <- RealtimeUser
    Limit <- PushLimit
INVARIANTS
    TypeOK
PROPERTIES
    JobsRecorded
    JobsFollow
    BufferKept
    OnlyRefusedUnbound
CHECK_DEADLOCK FALSE
