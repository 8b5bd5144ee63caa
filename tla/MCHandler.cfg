SPECIFICATION FairSpec
CONSTANTS
    n1 = n1
    n2 = n2
    n3 = n3
    a1 = a1
    r1 = r1
    r2 = r2
    v1 = v1
    app = app
    port = port
    first = first
    second = second
    Blank = Blank
    Bad = Bad
    None = None
    Names = {n1, n2, n3}
    Size = 2
    Conns = {c1}
    Addrs = {a1}
    Routes = {r1, r2}
    VPNs = {v1}
    Routers <- MCRouters
    Claimant <- MCClaimant
INVARIANTS
    PoolIsInverse
    AnswersHold
    FollowsRules
PROPERTIES
    StaleEnds
