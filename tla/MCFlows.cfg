SPECIFICATION Spec
CONSTANTS
    Entries = {e1, e2}
    Keys = {k1, k2, k3}
    Aggregates = {a1, a2, a3}
    MaxKeys = 1
    Capacity = 2
    MaxSeq = 4
    MaxBytes = 2
    None = None
SYMMETRY Symmetry
INVARIANTS
    OpenCountsMatch
    TableBounded
    EveryByteOnce
    PollsAreExact
CHECK_DEADLOCK FALSE
