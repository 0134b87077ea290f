SPECIFICATION Spec
CONSTANTS
    s1 = s1
    s2 = s2
    None = None
    Stores = {s1, s2}
    Requests <- Texts
    Names = {"gpt"}
    Distance <- MCDistance
    MaxDistance = 1
    TTL = 2
    MaxLag = 1
    MaxTime = 3
    MaxCount = 3
SYMMETRY Sym
INVARIANTS
    StoredThenExpires
    FlushIsComplete
    CountMissesNone
CHECK_DEADLOCK FALSE
