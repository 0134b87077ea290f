SPECIFICATION ExecutorSpec
CONSTANTS
    a = a
    b = b
    Contents <- MCContents
    MaxMessages = 4
    Texts = {a, b}
    MaxLines = 4
    MaxParts = 2
SYMMETRY Sym
INVARIANTS
    ConversationIsKept
    AllIsSaid
    DoneIsHonest
CHECK_DEADLOCK FALSE
