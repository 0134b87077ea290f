SPECIFICATION Spec
CONSTANTS
    None = None
    Tabs = {1, 2}
    MaxCalls = 3
    MaxActs = 3
    First <- MCFirst
    Names = {"ann", "bob"}
INVARIANTS
    ShownIsTrue
CHECK_DEADLOCK FALSE
PROPERTIES
    Settles
