SPECIFICATION HolderSpec
CONSTANTS
    Clients = {c1}
    Restarters = {g1, g2}
    Managers = {m1, m2, m3}
    Handlers = {h1, h2}
    Configs = {f1, f2}
    MaxAttempts = 2
    None = None
INVARIANTS
    TunnelFeedsHandler
    DataPlaneMatchesConfig
    NoManagerLeaks
    DownOnlyWhileRestarting
PROPERTIES
    LockComesFree
CHECK_DEADLOCK FALSE
