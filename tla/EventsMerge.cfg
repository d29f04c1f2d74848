SPECIFICATION Spec
CONSTANTS
    None = None
    Docs = {d1, d2}
    Feeds = {f1, f2}
    Workers = {w1, w2}
    Headline <- OneHeadline
    MaxAttempts = 2
    Stale = 2
    CallLimit = 1
    MaxLosses = 0
    MaxPauses = 0
INVARIANT StoryNotLost
SYMMETRY WorkerSymmetry
CHECK_DEADLOCK FALSE
