SPECIFICATION Spec
CONSTANTS
    Services = {s1, s2}
    Servers = {own, vpn}
    Tunnel = Tunnel
    None = None
    Torn = Torn
    MaxFails = 1
PROPERTY
    DeathLosesNothing
