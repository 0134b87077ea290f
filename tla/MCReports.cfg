SPECIFICATION Spec
CONSTANTS
    None = None
    MaxCalls = 2
    MaxClicks <- MCClicks
    Rows <- MCRows
    MaxRows = 3
    FirstLog <- MCFirstLog
    Limits = {1, 2}
    Searches = {"", "gpt"}
    Statuses = {"all", "cached"}
    Providers = {"all", "openai"}
    AllNumbers = 2
    FirstLimit = 1
    Ranges = {"7d", "30d"}
    FirstRange = "7d"
    MaxStores = 2
INVARIANTS
    ShownIsAsked
    WalkMissesNone
    DayWithinAll
    FlushIsShown
