SPECIFICATION Explored
CONSTANTS
    None = None
    Parts = {"feeds", "news", "readiness", "board", "preferences", "evidence", "digest"}
    Pollers = {p1, p2}
    LastNews = 5
    Brief = 1
    MaxBackfill = 3
    Limit = 2
    Repeats = {4}
    Undated = {2}
    MaxTries = 3
    MaxRestarts = 1
    MaxFaults = 1
    Requests = {r1, r2}
    Deployed = {"postgres", "sec", "brave"}
    Plan = {"sec", "brave"}
    MaxAge = 2
    ProbeTimeout = 2
    LastSecond = 6
    MaxRecords = 4
    Categories = {"proposal", "execution_critical", "summary"}
    Locked = {"execution_critical"}
    Default <- Switches
    Savers = {s1, s2}
    Readers = {a1, a2}
    Changes <- Updates
    TTL = 1
    LastLook = 2
    MaxSaves = 2
    EventDocuments <- Papers
    Releases <- Rates
    Reports <- Periodic
    Ratings = {}
    Insider <- Trades
    Earnings <- Results
    Event = 5
    Configured = {"fred", "alpaca", "sec", "finnhub"}
    DayLength = 4
    Chicago = 1
    LastTick = 9
    Tolerance = 1
    Timeout = 1
    MaxAttempts = 2
    Length = 6
    Values = {1, 2}
    Chances = {0, 1, 3}
    Spans = {1, 3}
    MaxLevels = 4
    MaxOutcomes = 5
    AlwaysKept = 2
    MinChance = 2
    MinRows <- Indicators
    BarsKept = 3
    MaxWindow = 3
    Lookback = 1
INVARIANTS DowntimeIsCovered ReadyIsRecent SavedIsServed KnowableAtCutoff
    DigestsAreFaithful
PROPERTIES ReadIsStored MirrorNeverGoesBack
CHECK_DEADLOCK FALSE
