SPECIFICATION Explored
CONSTANTS
    None = None
    d1 = d1
    d2 = d2
    f1 = f1
    i1 = i1
    w1 = w1
    Parts = {"jobs", "events", "research", "bot"}
    Jobs <- ThreeJobs
    KeyOf <- SharedKey
    Priority <- LastFirst
    Workers = {w1, w2}
    MaxAttempts = 2
    ClaimTimeout = 2
    HandlerMax = 2
    BackoffMax = 1
    MaxCrashes = 1
INVARIANT OneWorkerPerJob
PROPERTIES JobsEnd EveryEventSettles EveryRunEnds BotReturns
CHECK_DEADLOCK FALSE
