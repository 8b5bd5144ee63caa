SPECIFICATION FairSpec
CONSTANTS
    Clients = {c1}
    Restarters = {g1}
    Managers = {m1, m2, m3}
    Handlers = {h1, h2}
    Configs = {f1}
    MaxAttempts = 1
    None = None
PROPERTIES
    StopCompletes
CHECK_DEADLOCK FALSE
