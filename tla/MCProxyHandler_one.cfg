SPECIFICATION FairSpec
CONSTANTS
    r1 = r1
    r2 = r2
    m1 = m1
    m2 = m2
    m3 = m3
    m4 = m4
    p1 = p1
    p2 = p2
    NoModel = NoModel
    NoRequest = NoRequest
    NoPrompt = NoPrompt
    Requests = {r1}
    Models = {m1, m2, m3, m4}
    Keyed = {m1, m2, m3}
    Prompts = {p1}
    Refusals = {429, 503}
    MaxDistance = 0
    NameOf <- MCNameOf
    ProviderOf <- MCProviderOf
    Chains <- LongChains
    Distance <- Close
INVARIANTS
    ReplyIsVerdict
    LogAccounting
PROPERTIES
    EveryRequestEnds
