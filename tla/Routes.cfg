CONSTANTS
    Bypass = {h1}
    Inside = {h1}
    wifi = wifi
    ether = ether
    Gateways = {wifi, ether}
    Home = wifi
    Interface <- Cards
    VpnIface = "utun9"
    Dials = {d1}
    MaxEvents = 3
    None = None
SPECIFICATION FairSpec
INVARIANTS NothingLeft KeptOut VpnsFollowed
PROPERTIES Settles FirstHopComesBack
CHECK_DEADLOCK FALSE
