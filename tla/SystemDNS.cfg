SPECIFICATION FairSpec
CONSTANTS
    Services = {s1, s2}
    Servers = {own, vpn}
    Tunnel = Tunnel
    None = None
    Torn = Torn
    MaxFails = 1
INVARIANTS
    Recoverable
PROPERTIES
    LeftoverIsPutBack
    TunnelKeepsDNS
