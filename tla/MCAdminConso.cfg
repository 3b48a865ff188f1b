SPECIFICATION MCSpec
CONSTANTS
    Parts = {"admin"}
    a1 = a1
    a2 = a2
    m1 = m1
    m2 = m2
    Tags = {a1, a2}
    Unsupported = {}
    InitCard <- MCCards
    Credits = {0, 1, 2}
    MaxSuspect = 1
    Typed = {1}
    Limit = 2
    NoTag = none
    MenuTags = {m1, m2, x}
    MenuUnsupported = {x}
    MenuCredits = {3}
    NbConso = 1
    TicketIndex = 0
    Content <- MCContent
    NbSqlInfo = 2
    MaxRows = 1
    Sizes = {4, 16}
    SectorKeys <- MCKeys
    NoKey = NoKey
    MaxCalls = 3
CHECK_DEADLOCK FALSE
INVARIANTS ConsoKnown
