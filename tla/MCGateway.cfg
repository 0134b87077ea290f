SPECIFICATION Spec
CONSTANTS
    h1 = h1
    h2 = h2
    k1 = k1
    NoKey = NoKey
    Handlers = {h1, h2}
    Conns = {h1, h2}
    Keys = {k1}
    MaxEdits = 2
    Limit = 1
    Window = 2
    MaxLag = 1
    MaxTime = 3
    MaxRequests = 3
    MaxResends = 1
SYMMETRY Sym
INVARIANTS
    BoundedBurst
    RefusedForCause
    AdmittedWasActive
PROPERTIES
    DeletedIsFinal
CHECK_DEADLOCK FALSE
