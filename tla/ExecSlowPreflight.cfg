SPECIFICATION Spec
CONSTANTS
    p1 = p1
    p2 = p2
    None = None
    Proposals <- OneProposal
    Attempts <- OneAttempt
    Owner <- OwnerOne
    Listing <- SameListing
    Workers = {w1, w2}
    Reconcilers = {r1}
    TTL = 1
    PreMax = 2
    LandMax = 1
    MinAge = 3
    RecoverAge = 1
    MaxPasses = 1
    MaxCrashes = 1
    MaxFailures = 1
INVARIANT NotPlacedIsProof
CHECK_DEADLOCK FALSE
