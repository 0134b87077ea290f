SPECIFICATION MCSpec
CONSTANTS
    a1 = a1
    Admins = {a1}
    NoChain = NoChain
    NoName = NoName
    NoModel = NoModel
    MaxModels = 3
    MaxChains = 2
    MaxEdits = 2
    Names = {"gpt"}
    ModelBodies <- MCModelBodies
    ChainBodies <- MCChainBodies
    TagLists <- MCTagLists
INVARIANTS
    OnlyActiveModels
    RequestedFirst
    NoNewRepeats
    ResolvesTheSnapshot
PROPERTIES
    Resolves
CHECK_DEADLOCK FALSE
