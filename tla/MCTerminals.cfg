SPECIFICATION MCSpec
CONSTANTS
    Parts = {"admin", "application", "trailer", "history"}
    a1 = a1
    a2 = a2
    m1 = m1
    m2 = m2
    Tags = {a1, a2}
    Unsupported = {}
    InitCard <- MCCards
    Credits = {0, 1}
    MaxSuspect = 1
    Typed = {1}
    Limit = 2
    NoTag = none
    MenuTags = {m1, m2, x}
    MenuUnsupported = {x}
    MenuCredits = {3}
    NbConso = 1
    TicketIndex = 0
    Content <- MCContent
    NbSqlInfo = 3
    MaxRows = 2
    Sizes = {4, 16}
    SectorKeys <- MCKeys
    NoKey = NoKey
    MaxCalls = 3
SYMMETRY MCSymmetry
CHECK_DEADLOCK FALSE
INVARIANTS AsAsked NoDangling TrailerSays OnlyItsOwn Mergeable
PROPERTIES ReturnsHome
