SPECIFICATION Explored
CONSTANTS
    None = None
    Parts = {"llm", "searches", "pages", "events", "research", "alerts", "notices", "instruments"}
    Workers = {w1, w2}
    Limit <- SpendLimit
    CacheSeconds = 2
    ReadTime = 1
    MaxSpend = 4
    Queries = {q1, q2}
    Sources = {d1, d2}
    CallCap <- Calls
    UnitCap <- Units
    Retries = TRUE
    Refunds = TRUE
    Interval = 2
    FailureCooldown = 1
    FetchLimit = 1
    MaxCallsLost = 2
    Docs = {d1, d2}
    Feeds = {f1, f2}
    Headline <- OneHeadline
    Stale = 2
    CallLimit = 1
    MaxNaps = 0
    Conditions = {c1}
    Proposals = {p1}
    Window = 2
    MaxTime = 1
    Impacts = {i1}
    MaxDeploys = 1
    MaxReruns = 0
    MaxLosses = 1
    MaxPauses = 1
    MaxAttempts = 2
    Lease = 2
    Offers <- Listings
    Hints <- Guesses
    Aliases <- Curated
    Akin <- Prefixes
    MaxRefreshes = 2
INVARIANTS BillWithinCaps PagePaidOnce ToldOnce HintsOnlyNarrow
PROPERTIES CutOffInTime SearchesArePaced JudgmentStands NoBlindRerun
SYMMETRY Alike
CHECK_DEADLOCK FALSE
