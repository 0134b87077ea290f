SPECIFICATION Spec
CONSTANTS
    None = None
    NoChain = NoChain
    Other = Other
    MaxCalls = 2
    MaxClicks <- MCClicks
    MaxOthers = 1
    Admins <- MCAdmins
    MaxModels = 2
    MaxChains = 2
    MaxKeys = 2
    ModelBodies <- MCModelBodies
    ChainBodies <- MCChainBodies
    FirstModels <- MCFirstModels
    FirstChains <- MCFirstChains
INVARIANTS
    ShownIsTable
    SavesHitTheirTarget
    KeyIsSeen
PROPERTIES
    DefaultIsKept
