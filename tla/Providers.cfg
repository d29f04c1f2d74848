SPECIFICATION Explored
CONSTANTS
    None = None
    Trade <- TheTrade
    Order <- TheOrder
    US = TRUE
    Feed = "iex"
    LatestBooks <- TheBooks
    Outages = {"DOWN", "AUTH_FAILED"}
    Rate <- FiveFourths
    RateAges = {0, 2, 4}
    FxMaxAge = 1
    ReferenceMaxAge = 3
    Cases <- AllCases
    Profile <- Profiles
    Requests <- Kinds
    Usages <- Reported
    Attempts = 2
    Cap = 2
    MaxCalls = 2
    MaxFaults = 1
    Parts = {"cases", "pricing", "calls", "memory"}
INVARIANTS DecisionsWithinLimits OutageSparesProposal StopsMatchFloors
    RebalanceSettles PricedByThisMoment CallsAreAccounted
PROPERTY EveryOutcomeRetires
CHECK_DEADLOCK FALSE
