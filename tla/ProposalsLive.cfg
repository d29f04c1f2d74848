SPECIFICATION Explored
CONSTANTS
    p1 = p1
    p2 = p2
    None = None
    Web = Web
    System = System
    u1 = u1
    b1 = b1
    j1 = j1
    Parts = {"deciding", "executing"}
    Proposals <- OneProposal
    Attempts <- OneAttempt
    Owner <- OwnerOne
    Listing <- SameListing
    Workers = {w1}
    Reconcilers = {r1}
    TTL = 1
    PreMax = 1
    LandMax = 1
    MinAge = 3
    RecoverAge = 1
    MaxPasses = 2
    MaxCrashes = 1
    MaxFailures = 1
PROPERTIES NeverForgotten ProposalsClose
CHECK_DEADLOCK FALSE
