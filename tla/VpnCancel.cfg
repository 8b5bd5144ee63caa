SPECIFICATION Spec
CONSTANTS
    Tasks = {k1, k2}
    Tunnels = {t1, t2}
    Chains = {c1, c2}
    None = None
INVARIANTS
    CancelStopsEverything
