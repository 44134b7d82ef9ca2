SPECIFICATION FairSpec
CONSTANTS
    c1 = c1
    realtime = realtime
    HW = {h1, h2}
    Chans = {c1}
    NoChan = NoChan
    Settings = {realtime}
    Scheduled = {}
    Setups = {t1, t2}
    DailyJob = DailyJob
    NoJob = NoJob
    Copies = 1
    Stored <- RealtimeUser
    Limit <- RefreshLimit
PROPERTIES
    HomeworksReminded
CHECK_DEADLOCK FALSE
