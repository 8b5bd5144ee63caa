SPECIFICATION FairSpec
CONSTANTS
    Names = {n1, n2}
    Places = {p1, p2}
    Reals = {a1, a2}
    Unnamed = {a1}
    Others = {o1}
    Hold = 2
    None = None
INVARIANTS
    RepliesAreKnown
    GoesToItsName
PROPERTIES
    EveryoneEnds
    IsAskedAgain
