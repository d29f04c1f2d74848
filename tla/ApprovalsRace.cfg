SPECIFICATION Spec
CONSTANTS
    None = None
    Web = Web
    System = System
    Proposals = {p1}
    Holders = {u1, u2}
    User <- OwnUser
    Bots = {b1}
    Requests = {w1}
    Runners = {j1}
    MaxActions = 5
    MaxTime = 1
    MaxSwitches = 1
    TTL = 1
    ActionTTL = 1
    ConfirmTTL = 1
INVARIANT TwoTaps
PROPERTY DecisionStands
SYMMETRY HolderSymmetry
CHECK_DEADLOCK FALSE
