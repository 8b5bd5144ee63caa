SPECIFICATION FairSpec
CONSTANTS
    Tasks = {k1, k2}
    Tunnels = {t1, t2, t3}
    Chains = {c1, c2}
    None = None
INVARIANTS
    NoOneForgets
    ListenerServed
    DisconnectStopsEverything
    NoOrphans
PROPERTIES
    DisconnectHolds
    Recovers
