SPECIFICATION MCSpec
CONSTANTS
    Parts = {"event"}
    a1 = a1
    a2 = a2
    m1 = m1
    m2 = m2
    Tags = {a1, a2}
    Unsupported = {}
    InitCard <- MCCards
    Credits <- MCCredits
    MaxSuspect = 0
    Typed <- MCTyped
    Limit = 2
    NoTag = none
    MenuTags = {x}
    MenuUnsupported = {x}
    MenuCredits = {3}
    NbConso = 1
    TicketIndex = 0
    Content <- MCContent
    NbSqlInfo = 3
    MaxRows = 2
    Sizes = {4, 16}
    SectorKeys <- MCKeys
    NoKey = NoKey
    MaxCalls = 3
CHECK_DEADLOCK FALSE
INVARIANTS Ledger
PROPERTIES Relies
