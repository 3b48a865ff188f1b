SPECIFICATION FairSpec
CONSTANTS
    debit = debit
    poor = poor
    beer = beer
    soft = soft
    odd = odd
    admin = admin
    other = other
    Tags <- MCTags
    Unsupported = {other}
    InitCard <- MCCard
    Price <- MCPrice
    BadId = 2
    MaxOrder = 2
    MaxSent = 1
    NoTag = NoTag
INVARIANTS Ledger TicketLogged
PROPERTIES CountedOnce OrderSettles
