SPECIFICATION FairSpec
CONSTANTS
    None = None
    t1 = t1
    t2 = t2
    A = A
    g1 = g1
    g2 = g2
    B = B
    Theses = {t1, t2}
    Listings = {A, B}
    Generators = {g1}
    ListingOf <- Listing
    Confidence <- Belief
    ConfidenceFloor = 7
    CandidateFloor = 8
    MinAdvantage = 1
    Scores = {6, 9}
    Sizes = {2}
    ExposureBudget = 3
    CashReserve = 1
    Deposit = 4
    SnapshotMaxAge = 0
    Ttl = 1
    DeferralMax = 0
    Managing = {}
    MaxHalts = 1
    MaxCrashes = 0
PROPERTY EveryThesisAnswered
