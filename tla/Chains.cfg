SPECIFICATION FairSpec
CONSTANTS
    Routes = {r1}
    Chain = {c1, c2}
    Callers = {w1}
    NoChain = NoChain
    QuickRetries = 1
    Second = 1
    Width = 2
    MaxFailures = 2
INVARIANTS
    NoChainLeaks
    WaitersAreHeard
    NudgeIsNeverLost
    ClosedHoldsNothing
PROPERTIES
    ImplementsService
    CloseFinishes
    CallersAreAnswered
    BrokenChainsDrop
    RoutesRecover
