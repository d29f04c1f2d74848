SPECIFICATION Spec
CONSTANTS
    p1 = p1
    p2 = p2
    None = None
    Proposals <- OneProposal
    Attempts <- TwoAttempts
    Owner <- OwnerRetry
    Listing <- SameListing
    Workers = {w1, w2}
    Reconcilers = {r1}
    TTL = 1
    PreMax = 1
    LandMax = 1
    MinAge = 3
    RecoverAge = 1
    MaxPasses = 1
    MaxCrashes = 0
    MaxFailures = 0
CHECK_DEADLOCK FALSE
INVARIANTS AtMostOneTransmission ExecutedMeansFilled OrdersAttributed
PROPERTY RetractOnlyUnsent
SYMMETRY WorkerSymmetry
